--------------------------- MODULE MCPolicyStore ---------------------------
(* Two edits of a policy with two rules beside a Check, for TLC. *)
EXTENDS PolicyStore, TLC
\* Writers and rule keys are interchangeable.
Symmetry == Permutations(Writer) \cup Permutations(Rule)
=============================================================================
