-------------------------- MODULE MCXzEncodeContext --------------------------
(***************************************************************************)
(* Small instances of XzEncodeContext for TLC; the constants are plain     *)
(* numbers and are given in the configurations.                            *)
(***************************************************************************)
EXTENDS XzEncodeContext
=============================================================================
