---------------------------- MODULE MC_Exchange ----------------------------
(* A 4-byte buffer and a 4-byte filename (so a FILE_REQUEST is 5 bytes    *)
(* after its length, the value of FILE_REQUEST itself), a 5-byte file     *)
(* (two chunks), an empty or one-line peer list.                          *)
EXTENDS Exchange

MCFileName == <<100, 100, 100, 100>>
MCPeerId == <<112>>
MCPeerLists == {<<>>, <<112, 10>>}
MCFileLists == {<<>>}
=============================================================================
