---------------------------- MODULE AppendOnlyLog ----------------------------
(***************************************************************************)
(* What the event log promises its readers: the published log only grows,  *)
(* by whole batches, each the oldest of the events that are waiting; an    *)
(* event that is lost before it was published takes every younger one of   *)
(* its process with it.  Nothing is promised any more once the mount has   *)
(* lost or hidden a write.  EventLog implements it.                        *)
(***************************************************************************)
EXTENDS Naturals, Sequences

CONSTANT MaxTokens  \* tokens emitted (bounds the model)

VARIABLES
  log,      \* what is published: tokens, oldest first
  waiting,  \* what is emitted but not published
  emitted,  \* tokens emitted so far: the next one is emitted + 1
  intact    \* the mount has kept its word

Init == log = <<>> /\ waiting = <<>> /\ emitted = 0 /\ intact = TRUE

\* An event joins the queue, or is dropped as invalid.
Emit ==
  /\ emitted < MaxTokens
  /\ emitted' = emitted + 1
  /\ waiting' \in {waiting, Append(waiting, emitted + 1)}
  /\ UNCHANGED <<log, intact>>

Publish ==
  /\ \E k \in 1..Len(waiting) :
       /\ log' = log \o SubSeq(waiting, 1, k)
       /\ waiting' = SubSeq(waiting, k + 1, Len(waiting))
  /\ UNCHANGED <<emitted, intact>>

\* A crash, or close(): the youngest go, down to what is being written.
Lose ==
  /\ \E k \in 0..Len(waiting) : waiting' = SubSeq(waiting, 1, k)
  /\ UNCHANGED <<log, emitted, intact>>

\* The mount has broken its word: the log may be anything.
Broken == ~intact'

Next == Emit \/ Publish \/ Lose \/ Broken

Spec == Init /\ [][Next]_<<log, waiting, emitted, intact>>
=============================================================================
