----------------------------- MODULE MCKeyChain -----------------------------
(***************************************************************************)
(* Instances of KeyChain, in minutes: a key of fifteen renewed when five   *)
(* are left, five retries, two requests beside the renewals.  The least    *)
(* interval is two, so that there is a time between.                       *)
(***************************************************************************)
EXTENDS KeyChain
CONSTANTS r1, r2
=============================================================================
