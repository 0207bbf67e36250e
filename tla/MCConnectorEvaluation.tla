----------------------- MODULE MCConnectorEvaluation -----------------------
(* Two Checks of one artifact, for TLC. *)
EXTENDS ConnectorEvaluation
=============================================================================
