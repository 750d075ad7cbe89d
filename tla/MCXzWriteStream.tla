-------------------------- MODULE MCXzWriteStream --------------------------
(* XzWriteStream for TLC: its constants are numbers, given in the cfg files. *)
EXTENDS XzWriteStream
=============================================================================
