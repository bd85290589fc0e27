--------------------------- MODULE MCCommandQueue ---------------------------
(***************************************************************************)
(* Instances of CommandQueue: three or four commands, one or two ends of a *)
(* process, with the kinds of command a question is about.                 *)
(***************************************************************************)
EXTENDS CommandQueue
=============================================================================
