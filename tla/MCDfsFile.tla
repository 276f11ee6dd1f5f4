----------------------------- MODULE MCDfsFile -----------------------------
(***************************************************************************)
(* DfsFile for TLC: the sizes to which the user truncates the file.        *)
(***************************************************************************)
EXTENDS DfsFile

Never == {}
ToInsideBlock == {1}
ToBlockEnd == {BlockSize}
=============================================================================
