--------------------------- MODULE MCCloudSession ---------------------------
(***************************************************************************)
(* Instances of CloudSession: one message of the user or none, delays that *)
(* keep the order they have in the code.                                   *)
(***************************************************************************)
EXTENDS CloudSession

MCDelays == <<0, 1>>
=============================================================================
