------------------------ MODULE MCViolationRecording ------------------------
(* Three recordings of one violation beside a user, for TLC. *)
EXTENDS ViolationRecording
=============================================================================
