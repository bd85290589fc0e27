----------------------------- MODULE MCEventLog -----------------------------
(***************************************************************************)
(* Instances of EventLog: segments of two lines, so that a batch of three  *)
(* rolls over, with crashes and failed operations in between.              *)
(***************************************************************************)
EXTENDS EventLog
=============================================================================
