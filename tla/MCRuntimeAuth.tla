--------------------------- MODULE MCRuntimeAuth ---------------------------
(***************************************************************************)
(* Small instances of RuntimeAuth for TLC.                                 *)
(***************************************************************************)
EXTENDS RuntimeAuth
=============================================================================
