------------------------------- MODULE MCWAL -------------------------------
(***************************************************************************)
(* Small instances of WAL for TLC.                                         *)
(***************************************************************************)
EXTENDS WAL, TLC

\* Usage events are interchangeable.
Symmetry == Permutations(Usage)
=============================================================================
