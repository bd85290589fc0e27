---------------------------- MODULE MCEventStream ----------------------------
(***************************************************************************)
(* Instances of EventStream: a client that polls at any time, with failed  *)
(* operations and a restart, and what becomes of it when the mount lies.   *)
(***************************************************************************)
EXTENDS EventStream
=============================================================================
