---------------------------- MODULE MC_Download ----------------------------
(* Two concurrent `get` downloads, chunks of 1 or 2 bytes, at most 3 bytes *)
(* each: enough for a multi-chunk file, a write failure between chunks,   *)
(* and every terminal path of the receive loop.                           *)
EXTENDS Download, TLC

CONSTANTS d1, d2

MCDownloads == {d1, d2}
MCSymmetry == Permutations(MCDownloads)
=============================================================================
