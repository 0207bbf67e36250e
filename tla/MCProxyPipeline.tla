-------------------------- MODULE MCProxyPipeline --------------------------
(***************************************************************************)
(* Small instances of ProxyPipeline for TLC.                               *)
(***************************************************************************)
EXTENDS ProxyPipeline, TLC

\* Handlers are interchangeable.
Symmetry == Permutations(Handler)
=============================================================================
