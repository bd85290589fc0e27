----------------------------- MODULE MCChatTurn -----------------------------
(***************************************************************************)
(* Instances of ChatTurn: a turn with two calls and one message of the     *)
(* user, and one without calls that the user starts, writes past and stops *)
(* beside it, in the same conversation or in another.                      *)
(***************************************************************************)
EXTENDS ChatTurn, TLC
CONSTANTS t1, t2, c1, c2

MCPlacements == {(t1 :> c1) @@ (t2 :> c1), (t1 :> c1) @@ (t2 :> c2)}
MCCalls      == (t1 :> 2) @@ (t2 :> 0)
MCKinds      == (<<t1, 1>> :> {"guarded"}) @@ (<<t1, 2>> :> {"guarded", "question"})
MCInjects    == (t1 :> 1) @@ (t2 :> 0)
=============================================================================
