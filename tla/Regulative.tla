----------------------------- MODULE Regulative -----------------------------
(***************************************************************************)
(* How the evaluator runs a contract (EvaluateLazy/Machine.hs): the frames *)
(* of an obligation that reads its events, of RAND and ROR, and the        *)
(* unwinding after an action that does not match.  EVALTRACE gives a       *)
(* contract a start time and events; what it answers, a verdict or what is *)
(* left of the contract, can be given more events.                         *)
(*                                                                         *)
(* Expressions are left out: parties and actions are values, a pattern and *)
(* its PROVIDED are the actions they accept, and names a pattern binds are *)
(* dropped, with the environments.  WAITUNTIL is an event that is nobody's.*)
(***************************************************************************)
EXTENDS Integers, Sequences, SequencesExt

CONSTANTS
  Contracts,  \* the contracts that are run
  Deeds,      \* who does what: records of a party and an action
  Stamps,     \* the times of events
  MaxEvents,  \* bound: events of a run
  MaxBatch    \* bound: events given at once

NoDue     == -1
Unstamped == -1
Fulfilled == [kind |-> "fulfilled"]
Breached(party, stamp) == [kind |-> "breached", party |-> party, stamp |-> stamp]
ExplicitBreach == Breached("author", Unstamped)
NoRule == [kind |-> "none"]
Obligation(modal, party, pattern, provided, due, hence, lest) ==
  [kind |-> "obligation", modal |-> modal, party |-> party, pattern |-> pattern,
   provided |-> provided, due |-> due, hence |-> hence, lest |-> lest]
ROp(op, left, right) == [kind |-> "rop", op |-> op, left |-> left, right |-> right]

\* What waits for a value: the action that may not match (Contract11), the
\* second operand (RBinOp1), the first one's value (RBinOp2).
Guard(rule, time, events) ==
  [frame |-> "guard", rule |-> rule, time |-> time, events |-> events]
Second(op, rule, time, events) ==
  [frame |-> "second", op |-> op, rule |-> rule, time |-> time, events |-> events]
Both(op, rule) == [frame |-> "both", op |-> op, rule |-> rule]

VARIABLES
  contract,  \* the contract as written
  fed,       \* the events it was given so far
  now,       \* when they stop
  at,        \* where the machine is
  rule,      \* the rule it evaluates, the value it returns or answered
  time,      \* the rule's clock
  event,     \* the event it looks at
  events,    \* those it has yet to read
  stack

vars == <<contract, fed, now, at, rule, time, event, events, stack>>
given == <<contract, fed, now>>

NoEvent == [party |-> "nobody", action |-> "none", stamp |-> 0]

Init ==
  /\ contract \in Contracts /\ fed = <<>> /\ now = 0
  /\ at = "done" /\ rule = contract /\ time = 0
  /\ event = NoEvent /\ events = <<>> /\ stack = <<>>

(* ---------------------------- EVALTRACE -------------------------------- *)

\* Events in the order of their times, none before the last one given.
InOrder(batch) ==
  /\ \A i \in DOMAIN batch : now <= batch[i].stamp
  /\ \A i, j \in DOMAIN batch : i < j => batch[i].stamp <= batch[j].stamp

Give(batch) ==
  /\ at = "done" /\ InOrder(batch)
  /\ Len(fed) + Len(batch) <= MaxEvents
  /\ fed' = fed \o batch /\ now' = Last(batch).stamp
  /\ at' = "apply" /\ events' = batch
  /\ UNCHANGED <<contract, rule, time, event, stack>>

(* ------------------- a contract applied to its events ------------------ *)

ApplySettled ==
  /\ at = "apply" /\ rule.kind \in {"fulfilled", "breached"}
  /\ at' = "return"
  /\ UNCHANGED <<given, rule, time, event, events, stack>>

ApplyObligation ==
  /\ at = "apply" /\ rule.kind = "obligation"
  /\ at' = "events"
  /\ UNCHANGED <<given, rule, time, event, events, stack>>

ApplyROp ==
  /\ at = "apply" /\ rule.kind = "rop"
  /\ stack' = Append(stack, Second(rule.op, rule.right, time, events))
  /\ rule' = rule.left
  /\ UNCHANGED <<given, at, time, event, events>>

\* continueWithFollowup.
Follow(next, stamp) ==
  /\ rule' = next /\ time' = stamp /\ at' = "apply"
  /\ UNCHANGED <<given, event, events, stack>>

Answer(value) ==
  /\ rule' = value /\ at' = "return"
  /\ UNCHANGED <<given, time, event, events, stack>>

(* ------------------------- an obligation ------------------------------- *)

NoEvents ==
  /\ at = "events" /\ events = <<>>
  /\ Answer(rule)

ReadEvent ==
  /\ at = "events" /\ events # <<>>
  /\ event' = Head(events) /\ events' = Tail(events)
  /\ at' = "timing"
  /\ UNCHANGED <<given, rule, time, stack>>

IsLate == rule.due # NoDue /\ event.stamp > time + rule.due

Expire ==
  /\ at = "timing" /\ IsLate
  /\ \/ rule.modal \in {"may", "shant"} /\ Follow(rule.hence, event.stamp)
     \/ /\ rule.modal \in {"must", "do"} /\ rule.lest # NoRule
        /\ Follow(rule.lest, event.stamp)
     \/ /\ rule.modal \in {"must", "do"} /\ rule.lest = NoRule
        /\ Answer(Breached(rule.party, event.stamp))

\* The clock moves to the event, and what is left of the time is as much less.
Left == IF rule.due = NoDue THEN NoDue ELSE rule.due - (event.stamp - time)

\* MUTANT of InTime: without a deadline the clock is not moved either.
InTimeByDeadline ==
  /\ at = "timing" /\ ~IsLate
  /\ time' = (IF rule.due = NoDue THEN time ELSE event.stamp)
  /\ rule' = [rule EXCEPT !.due = Left]
  /\ at' = "party"
  /\ UNCHANGED <<given, event, events, stack>>

\* MUTANT of InTime: the time that has passed is not taken off.
InTimeAfresh ==
  /\ at = "timing" /\ ~IsLate
  /\ time' = event.stamp
  /\ at' = "party"
  /\ UNCHANGED <<given, rule, event, events, stack>>

InTime ==
  /\ at = "timing" /\ ~IsLate
  /\ time' = event.stamp /\ rule' = [rule EXCEPT !.due = Left]
  /\ at' = "party"
  /\ UNCHANGED <<given, event, events, stack>>

OtherParty ==
  /\ at = "party" /\ event.party # rule.party
  /\ at' = "events"
  /\ UNCHANGED <<given, rule, time, event, events, stack>>

SameParty ==
  /\ at = "party" /\ event.party = rule.party
  /\ stack' = Append(stack, Guard(rule, time, events))
  /\ at' = "pattern"
  /\ UNCHANGED <<given, rule, time, event, events>>

PatternMatches ==
  /\ at = "pattern" /\ event.action \in rule.pattern
  /\ at' = "provided"
  /\ UNCHANGED <<given, rule, time, event, events, stack>>

\* patternMatchFailure unwinds the stack to the next guard and goes on there.
PatternFails ==
  /\ at = "pattern" /\ event.action \notin rule.pattern
  /\ LET k == SelectLastInSeq(stack, LAMBDA f : f.frame = "guard") IN
     /\ rule' = stack[k].rule /\ time' = stack[k].time /\ events' = stack[k].events
     /\ stack' = SubSeq(stack, 1, k - 1)
  /\ at' = "events"
  /\ UNCHANGED <<given, event>>

NotProvided ==
  /\ at = "provided" /\ event.action \notin rule.provided
  /\ at' = "events"
  /\ UNCHANGED <<given, rule, time, event, events, stack>>

ActionDone ==
  /\ at = "provided" /\ event.action \in rule.provided
  /\ \/ rule.modal # "shant" /\ Follow(rule.hence, time)
     \/ rule.modal = "shant" /\ rule.lest # NoRule /\ Follow(rule.lest, time)
     \/ /\ rule.modal = "shant" /\ rule.lest = NoRule
        /\ Answer(Breached(rule.party, time))

(* --------------------------- RAND and ROR ------------------------------ *)

IsBreach(v) == v.kind = "breached"
IsMissed(v) == IsBreach(v) /\ v.stamp # Unstamped

\* Of two missed deadlines the first (RAND) or the second (ROR) counts.
Blamed(op, left, right) ==
  IF (left.stamp <= right.stamp) = (op = "and") THEN left ELSE right

Combined(op, left, right) ==
  CASE IsMissed(left) /\ IsMissed(right) -> Blamed(op, left, right)
    [] left = Fulfilled /\ right = Fulfilled -> Fulfilled
    [] op = "and" /\ IsBreach(left) /\ ~(IsMissed(left) /\ IsMissed(right)) -> left
    [] op = "and" /\ ~IsBreach(left) /\ IsBreach(right) -> right
    [] op = "or" /\ Fulfilled \in {left, right} -> Fulfilled
    [] OTHER -> ROp(op, left, right)

Pop == SubSeq(stack, 1, Len(stack) - 1)
OnTop(frame) == at = "return" /\ stack # <<>> /\ Last(stack).frame = frame

GuardReturns ==
  /\ OnTop("guard")
  /\ stack' = Pop
  /\ UNCHANGED <<given, at, rule, time, event, events>>

\* A fulfilled first operand settles ROR; RAND waits for both.
FirstSettles ==
  /\ OnTop("second") /\ Last(stack).op = "or" /\ rule = Fulfilled
  /\ stack' = Pop
  /\ UNCHANGED <<given, at, rule, time, event, events>>

FirstReturns ==
  /\ OnTop("second") /\ ~(Last(stack).op = "or" /\ rule = Fulfilled)
  /\ LET f == Last(stack) IN
     /\ stack' = Append(Pop, Both(f.op, rule))
     /\ rule' = f.rule /\ time' = f.time /\ events' = f.events
  /\ at' = "apply"
  /\ UNCHANGED <<given, event>>

SecondReturns ==
  /\ OnTop("both")
  /\ rule' = Combined(Last(stack).op, Last(stack).rule, rule)
  /\ stack' = Pop
  /\ UNCHANGED <<given, at, time, event, events>>

Finish ==
  /\ at = "return" /\ stack = <<>>
  /\ at' = "done" /\ time' = now /\ event' = NoEvent /\ events' = <<>>
  /\ UNCHANGED <<given, rule, stack>>

Step ==
  \/ ApplySettled \/ ApplyObligation \/ ApplyROp
  \/ NoEvents \/ ReadEvent \/ Expire \/ InTime \/ OtherParty \/ SameParty
  \/ PatternMatches \/ PatternFails \/ NotProvided \/ ActionDone
  \/ GuardReturns \/ FirstSettles \/ FirstReturns \/ SecondReturns \/ Finish

Events == {[party |-> d.party, action |-> d.action, stamp |-> s] : d \in Deeds, s \in Stamps}

Next ==
  \/ \E batch \in SeqOf(Events, MaxBatch) \ {<<>>} : Give(batch)
  \/ Step

Spec == Init /\ [][Next]_vars

(* ------------------- what a contract means ----------------------------- *)

\* The rules of the documentation (regulative-rules.md, consequences.md), over
\* all events at once: a contract that begins at `start`, after event i, is
\* settled by the first event that does what it speaks of or comes too late.
Late(c, start, e) == c.due # NoDue /\ e.stamp > start + c.due
Counts(c, e) == e.party = c.party /\ e.action \in c.pattern \cap c.provided
Settling(c, start, i) ==
  {k \in i + 1 .. Len(fed) : Late(c, start, fed[k]) \/ Counts(c, fed[k])}

\* "The outcome the rule wants": done in time, or for SHANT not done in time.
Complied(c, late) == \/ c.modal = "may"
                     \/ c.modal = "shant" /\ late
                     \/ c.modal \in {"must", "do"} /\ ~late

Open == [verdict |-> "open", blames |-> {}]
BreachOf(blames) == [verdict |-> "breached", blames |-> blames]
Earliest(blames) == {b \in blames : \A o \in blames : b.stamp <= o.stamp}
Latest(blames)   == {b \in blames : \A o \in blames : b.stamp >= o.stamp}

RECURSIVE Meaning(_, _, _)
Meaning(c, start, i) ==
  CASE c.kind = "fulfilled" -> [verdict |-> "fulfilled", blames |-> {}]
    [] c.kind = "breached" -> BreachOf({c})
    [] c.kind = "rop" ->
         LET l == Meaning(c.left, start, i)
             r == Meaning(c.right, start, i)
             all == l.blames \cup r.blames
             verdicts == {l.verdict, r.verdict}
         IN IF c.op = "and"
            THEN CASE "breached" \in verdicts -> BreachOf(Earliest(all))
                   [] verdicts = {"fulfilled"} -> l
                   [] OTHER -> Open
            ELSE CASE "fulfilled" \in verdicts -> [verdict |-> "fulfilled", blames |-> {}]
                   [] verdicts = {"breached"} -> BreachOf(Latest(all))
                   [] OTHER -> Open
    [] c.kind = "obligation" ->
         IF Settling(c, start, i) = {} THEN Open
         ELSE LET k == CHOOSE k \in Settling(c, start, i) :
                         \A j \in Settling(c, start, i) : k <= j
                  stamp == fed[k].stamp
              IN CASE Complied(c, Late(c, start, fed[k])) -> Meaning(c.hence, stamp, k)
                   [] c.lest # NoRule /\ ~Complied(c, Late(c, start, fed[k]))
                        -> Meaning(c.lest, stamp, k)
                   [] OTHER -> BreachOf({Breached(c.party, stamp)})

Verdict == IF rule.kind \in {"fulfilled", "breached"} THEN rule.kind ELSE "open"

RECURSIVE HasExplicitBreach(_)
HasExplicitBreach(c) ==
  CASE c.kind = "obligation" -> HasExplicitBreach(c.hence) \/ HasExplicitBreach(c.lest)
    [] c.kind = "rop" -> HasExplicitBreach(c.left) \/ HasExplicitBreach(c.right)
    [] OTHER -> c = ExplicitBreach

(* ----------------------------- properties ------------------------------ *)

Values == {"fulfilled", "breached", "obligation", "rop"}

\* The machine is in one of its states, what it returns is a value, and each
\* rule that is under way, in a frame or in hand, has the rest of the same
\* events to read (the references App1 passes on).
RegTypeOK ==
  /\ at \in {"done", "apply", "events", "timing", "party", "pattern", "provided", "return"}
  /\ rule.kind \in Values
  /\ at \in {"events", "timing", "party", "pattern", "provided"} => rule.kind = "obligation"
  /\ at = "done" => stack = <<>> /\ events = <<>>
  /\ IsSuffix(events, fed)
  /\ \A i \in DOMAIN stack : stack[i].frame # "both" => IsSuffix(stack[i].events, fed)
  /\ now = (IF fed = <<>> THEN 0 ELSE Last(fed).stamp)

\* A rule's clock stands at the event it read last, with a deadline or without
\* one (Contract4, Contract5), also when it waits in a frame: deadlines of
\* what follows are counted from there, and so is a residual's remaining time.
ReadUpTo(rest) ==
  LET n == Len(fed) - Len(rest) IN IF n = 0 THEN 0 ELSE fed[n].stamp
ClockFollowsEvents ==
  /\ at \in {"apply", "events"} => time = ReadUpTo(events)
  /\ \A i \in DOMAIN stack :
       stack[i].frame # "both" => stack[i].time = ReadUpTo(stack[i].events)

\* The invariant the run checks of the machine (Machine.hs, App1 and
\* backwardContractFrame): its frames, and the clock of each rule.
MachineOK == RegTypeOK /\ ClockFollowsEvents

\* However its events are cut into batches, and through every chain, fallback
\* and parallel duty, the machine answers what the contract means for all
\* events so far: a residual goes on as the contract would have.  Of several
\* missed deadlines RAND blames the first and ROR the last, of two at a time
\* either, also when one was missed in an earlier batch.  Exempt is a ROR of two
\* breaches one of which is explicit: the clause for two breaches wants a missed
\* deadline on both sides, and the machine returns the residual for good.
NeverSettled ==
  rule.kind = "rop" /\ rule.op = "or" /\ IsBreach(rule.left) /\ IsBreach(rule.right)

AnswerIsMeant ==
  at = "done" /\ ~NeverSettled =>
    LET meant == Meaning(contract, 0, 0) IN
    /\ Verdict = meant.verdict
    /\ IsBreach(rule) /\ ~HasExplicitBreach(contract) => rule \in meant.blames
=============================================================================
