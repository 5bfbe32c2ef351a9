---------------------------- MODULE MC_FileIndex ----------------------------
(* Three files: two plain ones and a ".tmp" one; each may be written      *)
(* twice, and the index refreshed twice.                                  *)
EXTENDS FileIndex

CONSTANTS a, t, g
=============================================================================
