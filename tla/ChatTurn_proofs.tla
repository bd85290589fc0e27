---------------------------- MODULE ChatTurn_proofs ----------------------------
(***************************************************************************)
(* Proofs about ChatTurn, for every set of turns, conversations and calls: *)
(* every call is answered, messages of the user reach the model once, and  *)
(* guarded calls follow the user.                                          *)
(***************************************************************************)
EXTENDS ChatTurn, SequenceTheorems, TLAPS

-----------------------------------------------------------------------------
(***************************************************************************)
(* The inductive invariant.                                                *)
(***************************************************************************)
Request == [results : Seq(Nat), texts : Seq(Nat)]

TypesOK ==
  /\ pc \in [Turns -> {"idle", "loading", "assembling", "streaming", "nudging", "closing",
                       "cutOff", "tools", "ended"}]
  /\ conv \in [Turns -> Conversations]
  /\ aborted \in [Turns -> BOOLEAN] /\ nudged \in [Turns -> BOOLEAN]
  /\ bubble \in [Turns -> BOOLEAN]
  /\ inbox \in [Turns -> Seq(Nat)] /\ told \in [Turns -> Seq(Nat)]
  /\ request \in [Turns -> Request]
  /\ ending \in [Turns -> {"none", "early", "stop"}]
  /\ cancelled \subseteq Turns

RoundsOK ==
  /\ calls \in [Turns -> Seq(Nat)] /\ results \in [Turns -> Seq(Nat)]
  /\ awaited \in [Turns -> Seq(Nat)]
  /\ \A t \in Turns : calls[t] \in Numbers(t) /\ results[t] \in Numbers(t)
                      /\ awaited[t] \in Numbers(t)
  /\ step \in [Turns -> {"ready", "asked", "running"}]
  /\ \A t \in Turns : step[t] # "ready" => pc[t] = "tools" /\ calls[t] # <<>>
  /\ pending = {First(t) : t \in {u \in Turns : step[u] = "asked"}}

CallTypesOK ==
  /\ early \in [Call -> {"none", "allow", "deny"}]
  /\ setting \in {"ask", "always"}
  /\ kind \in [Call -> Kind \cup {"none"}]
  /\ row \in [Call -> {"none", "approval", "running", "done", "error"}]
  /\ verdict \in [Call -> {"none", "allow", "deny"}]
  /\ outcome \in [Call -> {"none", "ran", "denied"}]

(* Who knows of which call, at each place of a turn.                       *)
Answered(t) ==
  /\ pc[t] = "streaming" => awaited[t] = calls[t] /\ results[t] = <<>>
  /\ pc[t] = "tools" => awaited[t] = results[t] \o calls[t]
  /\ pc[t] = "assembling" => calls[t] = <<>> /\ awaited[t] = request[t].results
  /\ pc[t] \in {"idle", "loading", "nudging", "closing", "cutOff"} =>
       calls[t] = <<>> /\ awaited[t] = <<>>
  /\ pc[t] \notin {"assembling", "ended"} => request[t] = NoRequest

AnswersOK == \A t \in Turns : Answered(t)

(* What was sent on, goes with the next request, and is queued.            *)
Heard(t) ==
  /\ told[t] \o request[t].texts \o inbox[t] = [n \in 1..Accepted(t) |-> n]
  /\ ending[t] # "none" => pc[t] = "ended"
  /\ ending[t] = "stop" => Len(told[t]) = Accepted(t)

InjectionsOK == \A t \in Turns : Heard(t)

(* A call of the round has not been run or denied, and comes in it once.   *)
InRound(t) ==
  /\ \A i, j \in 1..Len(calls[t]) : calls[t][i] = calls[t][j] => i = j
  /\ \A i \in 1..Len(calls[t]) :
       kind[<<t, calls[t][i]>>] # "none" /\ outcome[<<t, calls[t][i]>>] = "none"

CallsOK == \A t \in Turns : InRound(t)

(* Only a guarded call waits for approval, and none that was dealt with.   *)
Decided(c) ==
  /\ outcome[c] # "none" => kind[c] # "none" /\ row[c] # "approval"
  /\ row[c] = "approval" => kind[c] = "guarded"
  /\ early[c] # "none" => kind[c] = "guarded" /\ verdict[c] = early[c]

RowsOK == \A c \in Call : Decided(c)

(* What waits for the user was not decided; what runs was allowed, and     *)
(* cannot be decided again.                                                *)
Allowed(t) ==
  /\ step[t] = "asked" => early[First(t)] = "none"
  /\ step[t] = "running" /\ kind[First(t)] = "guarded" =>
       row[First(t)] # "approval" /\ (verdict[First(t)] = "allow" \/ setting = "always")

FirstsOK == \A t \in Turns : Allowed(t)

CInv ==
  /\ TypesOK /\ RoundsOK /\ CallTypesOK /\ AnswersOK /\ InjectionsOK /\ CallsOK /\ RowsOK
  /\ FirstsOK /\ CallsFollowTheUser /\ BubblesAreClosed

-----------------------------------------------------------------------------
(* A call is a turn and a number.                                          *)
LEMMA CallIs ==
  ASSUME NEW c \in Call
  PROVE  c[1] \in Turns /\ c[2] \in 1..MaxCalls[c[1]] /\ c = <<c[1], c[2]>>
BY DEF Call

LEMMA CallOf ==
  ASSUME NEW t \in Turns, NEW n \in 1..MaxCalls[t]
  PROVE  <<t, n>> \in Call /\ <<t, n>>[1] = t /\ <<t, n>>[2] = n /\ n \in Nat
BY ChatAssumption DEF Call

(* The first call of a turn, and those after it.                           *)
LEMMA FirstIs ==
  ASSUME RoundsOK, NEW t \in Turns, calls[t] # <<>>
  PROVE  /\ First(t) \in Call /\ First(t) = <<t, calls[t][1]>> /\ First(t)[1] = t
         /\ Head(calls[t]) \in 1..MaxCalls[t] /\ Tail(calls[t]) \in Numbers(t)
         /\ Len(calls[t]) \in Nat \ {0} /\ Len(Tail(calls[t])) = Len(calls[t]) - 1
         /\ \A i \in 1..Len(Tail(calls[t])) : Tail(calls[t])[i] = calls[t][i + 1]
<1>1. calls[t] \in Seq(1..MaxCalls[t])
  BY DEF RoundsOK, Numbers
<1>2. Head(calls[t]) \in 1..MaxCalls[t] /\ Tail(calls[t]) \in Numbers(t)
  BY <1>1, HeadTailProperties DEF Numbers
<1>3. First(t) \in Call /\ First(t) = <<t, calls[t][1]>> /\ First(t)[1] = t
  BY <1>1, <1>2, CallOf DEF First
<1>4. /\ Len(calls[t]) \in Nat \ {0} /\ Len(Tail(calls[t])) = Len(calls[t]) - 1
      /\ \A i \in 1..Len(Tail(calls[t])) : Tail(calls[t])[i] = calls[t][i + 1]
  BY <1>1
<1>5. QED
  BY <1>2, <1>3, <1>4

LEMMA AppendNumber ==
  ASSUME NEW t \in Turns, NEW s \in Numbers(t), NEW n \in 1..MaxCalls[t]
  PROVE  Append(s, n) \in Numbers(t)
BY DEF Numbers

LEMMA NumbersAreNat ==
  ASSUME NEW t \in Turns, NEW s \in Numbers(t)
  PROVE  s \in Seq(Nat)
<1>1. 1..MaxCalls[t] \subseteq Nat
  BY ChatAssumption
<1>2. QED
  BY <1>1, SeqMonotonic DEF Numbers

-----------------------------------------------------------------------------
(***************************************************************************)
(* What the decision of the user does to a turn that waits.                *)
(***************************************************************************)
Same(t) == step'[t] = step[t] /\ results'[t] = results[t] /\ calls'[t] = calls[t]
Runs(t) == step'[t] = "running" /\ results'[t] = results[t] /\ calls'[t] = calls[t]

Denied(t) ==
  /\ kind[First(t)] = "guarded" /\ step'[t] = "ready"
  /\ results'[t] = Append(results[t], Head(calls[t])) /\ calls'[t] = Tail(calls[t])

LEMMA SettledIs ==
  ASSUME RoundsOK, NEW ts \in SUBSET Turns, NEW decision, Settled(ts, decision),
         \A t \in ts : calls[t] # <<>>
  PROVE  /\ \A t \in Turns \ ts : Same(t)
         /\ \A t \in ts : kind[First(t)] = "guarded" /\ decision = "deny" => Denied(t)
         /\ \A t \in ts : ~(kind[First(t)] = "guarded" /\ decision = "deny") => Runs(t)
         /\ calls' \in [Turns -> Seq(Nat)] /\ results' \in [Turns -> Seq(Nat)]
         /\ \A t \in Turns : calls'[t] \in Numbers(t) /\ results'[t] \in Numbers(t)
         /\ step' \in [Turns -> {"ready", "asked", "running"}]
         /\ pending' = pending \ {First(t) : t \in ts}
<1> DEFINE denied == {t \in ts : kind[First(t)] = "guarded" /\ decision = "deny"}
<1>1. /\ step' = [t \in Turns |-> IF t \in denied THEN "ready"
                                  ELSE IF t \in ts THEN "running" ELSE step[t]]
      /\ results' = [t \in Turns |-> IF t \in denied THEN Append(results[t], Head(calls[t]))
                                     ELSE results[t]]
      /\ calls' = [t \in Turns |-> IF t \in denied THEN Tail(calls[t]) ELSE calls[t]]
      /\ pending' = pending \ {First(t) : t \in ts}
  BY DEF Settled
<1>2. \A t \in Turns \ ts : Same(t)
  BY <1>1 DEF Same
<1>3. \A t \in ts : t \in denied => Denied(t)
  BY <1>1 DEF Denied
<1>4. \A t \in ts : t \notin denied => Runs(t)
  BY <1>1 DEF Runs
<1>5. ASSUME NEW t \in Turns
      PROVE  calls'[t] \in Numbers(t) /\ results'[t] \in Numbers(t)
  <2>1. calls[t] \in Numbers(t) /\ results[t] \in Numbers(t)
    BY DEF RoundsOK
  <2>2. CASE t \in denied
    <3>1. Head(calls[t]) \in 1..MaxCalls[t] /\ Tail(calls[t]) \in Numbers(t)
      BY <2>2, FirstIs
    <3>2. Append(results[t], Head(calls[t])) \in Numbers(t)
      BY <2>1, <3>1, AppendNumber
    <3>3. QED
      BY <1>1, <2>2, <3>1, <3>2
  <2>3. CASE t \notin denied
    BY <1>1, <2>1, <2>3
  <2>4. QED
    BY <2>2, <2>3
<1>6. \A t \in Turns : calls'[t] \in Seq(Nat) /\ results'[t] \in Seq(Nat)
  BY <1>5, NumbersAreNat
<1>7. calls' \in [Turns -> Seq(Nat)] /\ results' \in [Turns -> Seq(Nat)]
  BY <1>1, <1>6
<1>8. step' \in [Turns -> {"ready", "asked", "running"}]
  BY <1>1 DEF RoundsOK
<1>9. QED
  BY <1>1, <1>2, <1>3, <1>4, <1>5, <1>7, <1>8

(* Which calls the decision denies.                                        *)
LEMMA OutcomeOfSettled ==
  ASSUME RoundsOK, CallTypesOK, NEW ts \in SUBSET Turns, NEW decision, Settled(ts, decision),
         \A t \in ts : calls[t] # <<>>
  PROVE  /\ outcome' \in [Call -> {"none", "ran", "denied"}]
         /\ \A c \in Call : outcome'[c] # outcome[c] =>
              /\ outcome'[c] = "denied" /\ kind[c] = "guarded" /\ decision = "deny"
              /\ c[1] \in ts /\ c = First(c[1])
<1> DEFINE denied == {t \in ts : kind[First(t)] = "guarded" /\ decision = "deny"}
<1>1. outcome' = [c \in Call |-> IF c \in {First(t) : t \in denied} THEN "denied"
                                 ELSE outcome[c]]
  BY DEF Settled
<1>2. \A t \in ts : First(t)[1] = t
  BY FirstIs
<1>3. QED
  BY <1>1, <1>2 DEF CallTypesOK

(* Who waits for the user.                                                 *)
LEMMA AskingIs ==
  ASSUME RoundsOK
  PROVE  /\ \A t \in Turns : Asking(t) <=> step[t] = "asked"
         /\ \A t \in Turns : step[t] = "asked" => calls[t] # <<>> /\ pc[t] = "tools"
         /\ \A c \in pending : c[1] \in Turns /\ step[c[1]] = "asked" /\ c = First(c[1])
         /\ \A t \in Turns : First(t) \in pending /\ calls[t] # <<>> => step[t] = "asked"
<1>1. \A t \in Turns : step[t] = "asked" => calls[t] # <<>> /\ pc[t] = "tools"
  BY DEF RoundsOK
<1>2. \A t \in Turns : step[t] = "asked" => First(t) \in pending
  BY DEF RoundsOK
<1>3. \A c \in pending : c[1] \in Turns /\ step[c[1]] = "asked" /\ c = First(c[1])
  <2>1. TAKE c \in pending
  <2>2. PICK t \in Turns : step[t] = "asked" /\ c = First(t)
    BY DEF RoundsOK
  <2>3. c[1] = t
    BY <1>1, <2>2, FirstIs
  <2>4. QED
    BY <2>2, <2>3
<1>4. \A t \in Turns : First(t) \in pending /\ calls[t] # <<>> => step[t] = "asked"
  BY <1>3, FirstIs
<1>5. QED
  BY <1>1, <1>2, <1>3, <1>4 DEF Asking

LEMMA NotWaiting ==
  ASSUME RoundsOK, NEW t \in Turns, step[t] # "asked"
  PROVE  First(t) \notin pending
<1>1. \A c \in pending : c[1] \in Turns /\ step[c[1]] = "asked"
  BY AskingIs
<1>2. First(t)[1] = t
  BY DEF First
<1>3. QED
  BY <1>1, <1>2

-----------------------------------------------------------------------------
(***************************************************************************)
(* A step that changes the round of one turn.                              *)
(***************************************************************************)
Others(t) == \A u \in Turns \ {t} : Same(u) /\ awaited'[u] = awaited[u] /\ pc'[u] = pc[u]

LEMMA OneRound ==
  ASSUME RoundsOK, NEW t \in Turns, Others(t),
         calls' \in [Turns -> Seq(Nat)], results' \in [Turns -> Seq(Nat)],
         awaited' \in [Turns -> Seq(Nat)], step' \in [Turns -> {"ready", "asked", "running"}],
         calls'[t] \in Numbers(t), results'[t] \in Numbers(t), awaited'[t] \in Numbers(t),
         step'[t] # "ready" => pc'[t] = "tools" /\ calls'[t] # <<>>,
         pending' = (pending \ {First(t)}) \cup {First(u)' : u \in {v \in {t} : step'[v] = "asked"}}
  PROVE  RoundsOK'
<1>1. \A u \in Turns : calls'[u] \in Numbers(u) /\ results'[u] \in Numbers(u)
                       /\ awaited'[u] \in Numbers(u)
  BY DEF RoundsOK, Others, Same
<1>2. \A u \in Turns : step'[u] # "ready" => pc'[u] = "tools" /\ calls'[u] # <<>>
  BY DEF RoundsOK, Others, Same
<1>3. \A u \in Turns \ {t} : step[u] = "asked" => First(u)' = First(u) /\ First(u) # First(t)
  BY DEF Others, Same, First
<1>4. pending = {First(u) : u \in {v \in Turns : step[v] = "asked"}}
  BY DEF RoundsOK
<1>5. pending' = {First(u)' : u \in {v \in Turns : step'[v] = "asked"}}
  <2>1. ASSUME NEW c \in pending'
        PROVE  \E u \in Turns : step'[u] = "asked" /\ c = First(u)'
    <3>1. CASE c \in pending \ {First(t)}
      <4>1. PICK u \in Turns : step[u] = "asked" /\ c = First(u)
        BY <1>4, <3>1
      <4>2. u # t
        BY <3>1, <4>1
      <4>3. QED
        BY <1>3, <4>1, <4>2 DEF Others, Same
    <3>2. CASE c \notin pending \ {First(t)}
      BY <3>2
    <3>3. QED
      BY <3>1, <3>2
  <2>2. ASSUME NEW u \in Turns, step'[u] = "asked"
        PROVE  First(u)' \in pending'
    <3>1. CASE u = t
      BY <2>2, <3>1
    <3>2. CASE u # t
      <4>1. step[u] = "asked"
        BY <2>2, <3>2 DEF Others, Same
      <4>2. First(u) \in pending \ {First(t)} /\ First(u)' = First(u)
        BY <1>3, <1>4, <3>2, <4>1
      <4>3. QED
        BY <4>2
    <3>3. QED
      BY <3>1, <3>2
  <2>3. QED
    BY <2>1, <2>2
<1>6. QED
  BY <1>1, <1>2, <1>5 DEF RoundsOK

(* ... after which the turn does not wait.                                 *)
LEMMA OneRoundGoesOn ==
  ASSUME RoundsOK, NEW t \in Turns, Others(t),
         calls' \in [Turns -> Seq(Nat)], results' \in [Turns -> Seq(Nat)],
         awaited' \in [Turns -> Seq(Nat)], step' \in [Turns -> {"ready", "asked", "running"}],
         calls'[t] \in Numbers(t), results'[t] \in Numbers(t), awaited'[t] \in Numbers(t),
         step'[t] = "ready" \/ (step'[t] = "running" /\ pc'[t] = "tools" /\ calls'[t] # <<>>),
         pending' = pending \ {First(t)}
  PROVE  RoundsOK'
BY OneRound

(* A step with a decision of the user.                                     *)
LEMMA SettledRound ==
  ASSUME RoundsOK, NEW ts \in SUBSET Turns, NEW decision, Settled(ts, decision),
         \A t \in ts : calls[t] # <<>> /\ pc[t] = "tools", UNCHANGED awaited,
         \A t \in Turns : pc[t] = "tools" => pc'[t] = "tools"
  PROVE  RoundsOK'
<1>1. /\ \A t \in Turns \ ts : Same(t)
      /\ \A t \in ts : Denied(t) \/ Runs(t)
      /\ calls' \in [Turns -> Seq(Nat)] /\ results' \in [Turns -> Seq(Nat)]
      /\ \A t \in Turns : calls'[t] \in Numbers(t) /\ results'[t] \in Numbers(t)
      /\ step' \in [Turns -> {"ready", "asked", "running"}]
      /\ pending' = pending \ {First(t) : t \in ts}
  <2>1. \A t \in ts : calls[t] # <<>>
    OBVIOUS
  <2>2. QED
    BY <2>1, SettledIs
<1>2. awaited' \in [Turns -> Seq(Nat)] /\ \A t \in Turns : awaited'[t] \in Numbers(t)
  BY DEF RoundsOK
<1>3. \A t \in Turns : step'[t] # "ready" => pc'[t] = "tools" /\ calls'[t] # <<>>
  <2>1. \A t \in Turns \ ts : step'[t] # "ready" => pc'[t] = "tools" /\ calls'[t] # <<>>
    BY <1>1 DEF RoundsOK, Same
  <2>2. \A t \in ts : step'[t] # "ready" => pc'[t] = "tools" /\ calls'[t] # <<>>
    BY <1>1 DEF Denied, Runs
  <2>3. QED
    BY <2>1, <2>2
<1>4. \A t \in Turns \ ts : step[t] = "asked" => First(t)' = First(t)
  BY <1>1 DEF Same, First
<1>5. \A t \in Turns : step'[t] = "asked" <=> t \notin ts /\ step[t] = "asked"
  BY <1>1 DEF Same, Denied, Runs
<1>6. \A t, u \in Turns : First(t) = First(u) => t = u
  BY DEF First
<1>7. pending = {First(u) : u \in {v \in Turns : step[v] = "asked"}}
  BY DEF RoundsOK
<1>8. pending' = {First(u)' : u \in {v \in Turns : step'[v] = "asked"}}
  <2>1. ASSUME NEW c \in pending'
        PROVE  \E u \in Turns : step'[u] = "asked" /\ c = First(u)'
    <3>1. PICK u \in Turns : step[u] = "asked" /\ c = First(u)
      BY <1>1, <1>7, <2>1
    <3>2. u \notin ts
      BY <1>1, <2>1, <3>1
    <3>3. QED
      BY <1>4, <1>5, <3>1, <3>2
  <2>2. ASSUME NEW u \in Turns, step'[u] = "asked"
        PROVE  First(u)' \in pending'
    <3>1. u \notin ts /\ step[u] = "asked"
      BY <1>5, <2>2
    <3>2. First(u) \in pending /\ First(u)' = First(u)
      BY <1>4, <1>7, <3>1
    <3>3. QED
      BY <1>1, <1>6, <3>1, <3>2
  <2>3. QED
    BY <2>1, <2>2
<1>9. QED
  BY <1>1, <1>2, <1>3, <1>8 DEF RoundsOK

(* What the steps with a decision of the user have in common.              *)
LEMMA StartSettles ==
  ASSUME CInv, NEW t \in Turns, Start(t)
  PROVE  \E ts \in SUBSET Turns :
           /\ Settled(ts, "deny") /\ ts = {u \in Conversing(t) : step[u] = "asked"}
           /\ \A u \in ts : calls[u] # <<>> /\ pc[u] = "tools"
<1>1. RoundsOK
  BY DEF CInv
<1>2. {u \in Conversing(t) : Asking(u)} = {u \in Conversing(t) : step[u] = "asked"}
  BY <1>1, AskingIs DEF Conversing
<1>3. Settled({u \in Conversing(t) : step[u] = "asked"}, "deny")
  BY <1>2 DEF Start
<1>4. \A u \in Turns : step[u] = "asked" => calls[u] # <<>> /\ pc[u] = "tools"
  BY <1>1, AskingIs
<1>5. QED
  BY <1>3, <1>4 DEF Conversing

LEMMA StopSettles ==
  ASSUME CInv, NEW t \in Turns, Stop(t)
  PROVE  \E ts \in SUBSET Turns :
           /\ Settled(ts, "deny") /\ ts = {u \in {t} : step[u] = "asked"}
           /\ \A u \in ts : calls[u] # <<>> /\ pc[u] = "tools"
<1>1. RoundsOK
  BY DEF CInv
<1>2. (IF Asking(t) THEN {t} ELSE {}) = {u \in {t} : step[u] = "asked"}
  BY <1>1, AskingIs
<1>3. Settled({u \in {t} : step[u] = "asked"}, "deny")
  BY <1>2 DEF Stop
<1>4. \A u \in Turns : step[u] = "asked" => calls[u] # <<>> /\ pc[u] = "tools"
  BY <1>1, AskingIs
<1>5. QED
  BY <1>3, <1>4

LEMMA RoundsStep ==
  ASSUME CInv, Next
  PROVE  RoundsOK'
<1>1. RoundsOK /\ TypesOK /\ AnswersOK /\ CallTypesOK
  BY DEF CInv
<1>2. PICK t \in Turns :
        \/ Start(t) \/ Inject(t) \/ Stop(t) \/ Responds(t)
        \/ \E c \in Call : \E k \in Kinds[c] : ReceiveCall(t, c, k)
        \/ StreamEnds(t) \/ Harness(t)
  BY DEF Next
<1>3. calls[t] \in Numbers(t) /\ results[t] \in Numbers(t) /\ awaited[t] \in Numbers(t)
  BY <1>1 DEF RoundsOK
<1>4. <<>> \in Numbers(t) /\ <<>> \in Seq(Nat)
  BY DEF Numbers
<1>5. step[t] # "asked" => pending \ {First(t)} = pending
  BY <1>1, NotWaiting
<1>6. step[t] # "ready" => pc[t] = "tools" /\ calls[t] # <<>>
  BY <1>1 DEF RoundsOK
(* Only the place of the turn changes, from one without calls.             *)
<1>7. ASSUME UNCHANGED <<calls, results, awaited, step, pending>>,
             NEW place, pc' = [pc EXCEPT ![t] = place], pc[t] # "tools" \/ calls[t] = <<>>
      PROVE  RoundsOK'
  <2>1. Others(t)
    BY <1>1, <1>7 DEF Others, Same, TypesOK
  <2>2. step'[t] = "ready"
    BY <1>1, <1>6, <1>7 DEF RoundsOK
  <2>3. step[t] # "asked"
    BY <1>7, <2>2
  <2>4. QED
    BY <1>1, <1>3, <1>5, <1>7, <2>1, <2>2, <2>3, OneRoundGoesOn DEF RoundsOK
(* A request goes out.                                                     *)
<1>8. ASSUME NEW message, Send(t, message), UNCHANGED <<calls, step, pending>>,
             pc[t] # "tools" \/ calls[t] = <<>>
      PROVE  RoundsOK'
  <2>1. Others(t)
    BY <1>1, <1>8 DEF Others, Same, TypesOK, RoundsOK, Send, Goto
  <2>2. step'[t] = "ready" /\ step[t] # "asked"
    BY <1>1, <1>6, <1>8 DEF RoundsOK
  <2>3. awaited'[t] \in Numbers(t) /\ results'[t] \in Numbers(t)
    BY <1>1, <1>3, <1>4, <1>8 DEF RoundsOK, Send
  <2>4. awaited' \in [Turns -> Seq(Nat)] /\ results' \in [Turns -> Seq(Nat)]
    BY <1>1, <1>4, <1>8 DEF RoundsOK, Send
  <2>5. QED
    BY <1>1, <1>3, <1>5, <1>8, <2>1, <2>2, <2>3, <2>4, OneRoundGoesOn DEF RoundsOK
(* The calls of the answer are forgotten.                                  *)
<1>9. ASSUME Drop(t), UNCHANGED <<results, step, pending>>, pc[t] # "tools",
             NEW place, pc' = [pc EXCEPT ![t] = place]
      PROVE  RoundsOK'
  <2>1. Others(t)
    BY <1>1, <1>9 DEF Others, Same, TypesOK, RoundsOK, Drop
  <2>2. step'[t] = "ready" /\ step[t] # "asked"
    BY <1>1, <1>6, <1>9 DEF RoundsOK
  <2>3. calls'[t] = <<>> /\ awaited'[t] = <<>>
    BY <1>1, <1>9 DEF RoundsOK, Drop
  <2>4. awaited' \in [Turns -> Seq(Nat)] /\ calls' \in [Turns -> Seq(Nat)]
    BY <1>1, <1>4, <1>9 DEF RoundsOK, Drop
  <2>5. QED
    BY <1>1, <1>3, <1>4, <1>5, <1>9, <2>1, <2>2, <2>3, <2>4, OneRoundGoesOn DEF RoundsOK
(* A decision of the user.                                                 *)
<1>10. ASSUME NEW ts \in SUBSET Turns, NEW decision, Settled(ts, decision),
              \A u \in ts : calls[u] # <<>> /\ pc[u] = "tools", UNCHANGED awaited,
              UNCHANGED pc
       PROVE  RoundsOK'
  <2>1. \A u \in Turns : pc[u] = "tools" => pc'[u] = "tools"
    BY <1>10
  <2>2. QED
    BY <1>1, <1>10, <2>1, SettledRound
<1>11. CASE Start(t)
  <2>1. PICK ts \in SUBSET Turns :
          Settled(ts, "deny") /\ \A u \in ts : calls[u] # <<>> /\ pc[u] = "tools"
    BY <1>11, StartSettles
  <2>2. \A u \in Turns : pc[u] = "tools" => pc'[u] = "tools"
    BY <1>1, <1>11 DEF Start, Goto, TypesOK
  <2>3. UNCHANGED awaited
    BY <1>11 DEF Start
  <2>4. QED
    BY <1>1, <2>1, <2>2, <2>3, SettledRound
<1>12. CASE Inject(t)
  BY <1>1, <1>12 DEF Inject, RoundsOK, First, waiting
<1>13. CASE Stop(t)
  <2>1. PICK ts \in SUBSET Turns :
          Settled(ts, "deny") /\ \A u \in ts : calls[u] # <<>> /\ pc[u] = "tools"
    BY <1>13, StopSettles
  <2>2. UNCHANGED pc /\ UNCHANGED awaited
    BY <1>13 DEF Stop
  <2>3. QED
    BY <1>10, <2>1, <2>2
<1>14. CASE Responds(t)
  <2>1. PICK c \in Call : c[1] = t /\ (Answer(c) \/ \E d \in {"allow", "deny", "always"} : Decide(c, d))
    BY <1>14 DEF Responds
  <2>2. c \in pending => calls[t] # <<>> /\ pc[t] = "tools"
    BY <1>1, <2>1, AskingIs
  <2>3. CASE Answer(c)
    <3>1. Settled({t}, "allow") /\ c \in pending /\ UNCHANGED pc /\ UNCHANGED awaited
      BY <2>1, <2>3 DEF Answer
    <3>2. QED
      BY <1>10, <2>2, <3>1
  <2>4. ASSUME NEW d, Decide(c, d)
        PROVE  RoundsOK'
    <3>1. UNCHANGED pc /\ UNCHANGED awaited
      BY <2>4 DEF Decide
    <3>2. CASE c \in pending
      <4>1. PICK said : said = verdict'[c]
        OBVIOUS
      <4>2. Settled({t}, said)
        BY <2>1, <2>4, <3>2, <4>1 DEF Decide
      <4>3. QED
        BY <1>10, <2>2, <3>1, <3>2, <4>2
    <3>3. CASE c \notin pending
      <4>1. UNCHANGED <<pending, step, results, calls, awaited, pc>>
        BY <2>4, <3>3 DEF Decide
      <4>2. QED
        BY <1>1, <4>1 DEF RoundsOK, First
    <3>4. QED
      BY <3>2, <3>3
  <2>5. QED
    BY <2>1, <2>3, <2>4
<1>15. ASSUME NEW c \in Call, NEW k \in Kinds[c], ReceiveCall(t, c, k)
       PROVE  RoundsOK'
  <2>1. c[2] \in 1..MaxCalls[t]
    BY <1>15, CallIs DEF ReceiveCall
  <2>2. step[t] = "ready" /\ step' = step /\ pending' = pending /\ results' = results /\ pc' = pc
    BY <1>1, <1>15 DEF ReceiveCall, RoundsOK, waiting
  <2>3. Noted(calls[t], c[2]) \in Numbers(t) /\ Append(awaited[t], c[2]) \in Numbers(t)
    BY <1>3, <2>1, AppendNumber DEF Noted
  <2>4. calls' = [calls EXCEPT ![t] = Noted(calls[t], c[2])] /\ calls'[t] \in Numbers(t)
    BY <1>1, <1>15, <2>3 DEF ReceiveCall, RoundsOK
  <2>5. /\ awaited' = [awaited EXCEPT ![t] = IF kind[c] = "none" THEN Append(awaited[t], c[2])
                                             ELSE awaited[t]]
        /\ awaited'[t] \in Numbers(t)
    BY <1>1, <1>3, <1>15, <2>3 DEF ReceiveCall, RoundsOK
  <2>6. calls'[t] \in Seq(Nat) /\ awaited'[t] \in Seq(Nat)
    BY <2>4, <2>5, NumbersAreNat
  <2>7. calls' \in [Turns -> Seq(Nat)] /\ awaited' \in [Turns -> Seq(Nat)]
    BY <1>1, <2>4, <2>5, <2>6 DEF RoundsOK
  <2>8. Others(t)
    BY <1>1, <2>2, <2>4, <2>5 DEF Others, Same, RoundsOK
  <2>9. QED
    BY <1>1, <1>3, <1>5, <2>2, <2>4, <2>5, <2>7, <2>8, OneRoundGoesOn DEF RoundsOK
<1>16. CASE StreamEnds(t)
  <2>1. CASE StreamStops(t)
    BY <1>7, <2>1 DEF StreamStops, Goto, waiting
  <2>2. CASE StreamCutOff(t)
    BY <1>9, <2>2 DEF StreamCutOff, Goto, waiting
  <2>3. CASE StreamThrows(t)
    BY <1>9, <2>3 DEF StreamThrows, Finish, Goto, waiting
  <2>4. CASE StreamAsksForNothing(t)
    BY <1>7, <2>4 DEF StreamAsksForNothing, Finish, Goto, waiting
  <2>5. CASE BeginRound(t)
    BY <1>7, <2>5 DEF BeginRound, Goto, waiting
  <2>6. QED
    BY <1>16, <2>1, <2>2, <2>3, <2>4, <2>5 DEF StreamEnds
<1>17. CASE Harness(t)
  <2>1. CASE Activate(t)
    BY <1>7, <2>1 DEF Activate, Goto, waiting
  <2>2. CASE Assemble(t)
    BY <1>8, <2>2 DEF Assemble, waiting
  <2>3. CASE AssembleFails(t)
    BY <1>7, <2>3 DEF AssembleFails, Finish, Goto, waiting
  <2>4. CASE Nudge(t)
    BY <1>8, <2>4 DEF Nudge, waiting
  <2>5. CASE NoNudge(t)
    BY <1>7, <2>5 DEF NoNudge, Goto, waiting
  <2>6. CASE Close(t)
    BY <1>7, <2>6 DEF Close, Finish, Drained, Goto, waiting
  <2>7. CASE DispatchFreely(t)
    <3>1. Others(t)
      BY <1>1, <2>7 DEF DispatchFreely, Others, Same, RoundsOK
    <3>2. step' = [step EXCEPT ![t] = "running"] /\ step'[t] = "running" /\ step[t] # "asked"
      BY <1>1, <2>7 DEF DispatchFreely, RoundsOK
    <3>3. QED
      BY <1>1, <1>3, <1>5, <2>7, <3>1, <3>2, OneRoundGoesOn DEF DispatchFreely, RoundsOK, waiting
  <2>8. CASE Ask(t)
    <3>1. Others(t)
      BY <1>1, <2>8 DEF Ask, Others, Same, RoundsOK
    <3>2. step' = [step EXCEPT ![t] = "asked"] /\ step'[t] = "asked" /\ step[t] # "asked"
      BY <1>1, <2>8 DEF Ask, RoundsOK
    <3>3. First(t)' = First(t)
      BY <2>8 DEF Ask, First
    <3>4. pending' = (pending \ {First(t)}) \cup {First(u)' : u \in {v \in {t} : step'[v] = "asked"}}
      BY <1>5, <2>8, <3>2, <3>3 DEF Ask
    <3>5. step' \in [Turns -> {"ready", "asked", "running"}]
      BY <1>1, <3>2 DEF RoundsOK
    <3>6. UNCHANGED <<calls, results, awaited, pc>> /\ pc[t] = "tools" /\ calls[t] # <<>>
      BY <2>8 DEF Ask
    <3>7. QED
      BY <1>1, <1>3, <3>1, <3>4, <3>5, <3>6, OneRound DEF RoundsOK
  <2>9. CASE ConsumeEarly(t)
    <3>1. PICK said : said = early[First(t)]
      OBVIOUS
    <3>2. Settled({t}, said) /\ calls[t] # <<>> /\ pc[t] = "tools"
      BY <2>9, <3>1 DEF ConsumeEarly
    <3>3. UNCHANGED awaited /\ UNCHANGED pc
      BY <2>9 DEF ConsumeEarly
    <3>4. QED
      BY <1>10, <3>2, <3>3
  <2>10. CASE ToolReturns(t)
    <3>1. Head(calls[t]) \in 1..MaxCalls[t] /\ Tail(calls[t]) \in Numbers(t)
      BY <1>1, <1>6, <2>10, FirstIs DEF ToolReturns
    <3>2. Append(results[t], Head(calls[t])) \in Numbers(t)
      BY <1>3, <3>1, AppendNumber
    <3>3. /\ results' = [results EXCEPT ![t] = Append(results[t], Head(calls[t]))]
          /\ calls' = [calls EXCEPT ![t] = Tail(calls[t])]
          /\ step' = [step EXCEPT ![t] = "ready"]
          /\ UNCHANGED <<pending, pc, awaited>> /\ step[t] = "running"
      BY <1>1, <2>10 DEF ToolReturns, RoundsOK, waiting
    <3>4. results'[t] \in Numbers(t) /\ calls'[t] \in Numbers(t) /\ step'[t] = "ready"
      BY <1>1, <3>1, <3>2, <3>3 DEF RoundsOK
    <3>5. Append(results[t], Head(calls[t])) \in Seq(Nat) /\ Tail(calls[t]) \in Seq(Nat)
      BY <3>1, <3>2, NumbersAreNat
    <3>6. results' \in [Turns -> Seq(Nat)] /\ calls' \in [Turns -> Seq(Nat)]
      BY <1>1, <3>3, <3>5 DEF RoundsOK
    <3>7. Others(t)
      BY <1>1, <3>3 DEF Others, Same, RoundsOK
    <3>8. QED
      BY <1>1, <1>3, <1>5, <3>3, <3>4, <3>6, <3>7, OneRoundGoesOn DEF RoundsOK
  <2>11. CASE EndRound(t)
    <3>1. calls[t] = <<>> /\ UNCHANGED <<calls, step, pending>>
      BY <2>11 DEF EndRound, waiting
    <3>2. CASE Send(t, [results |-> results[t], texts |-> <<>>])
      BY <1>8, <3>1, <3>2
    <3>3. CASE (Finish(t, "early") \/ Drained(t, results[t])) /\ UNCHANGED <<results, awaited>>
      BY <1>7, <3>1, <3>3 DEF Finish, Drained, Goto
    <3>4. QED
      BY <2>11, <3>2, <3>3 DEF EndRound
  <2>12. QED
    BY <1>17, <2>1, <2>2, <2>3, <2>4, <2>5, <2>6, <2>7, <2>8, <2>9, <2>10, <2>11 DEF Harness
<1>18. QED
  BY <1>2, <1>11, <1>12, <1>13, <1>14, <1>15, <1>16, <1>17

-----------------------------------------------------------------------------
(***************************************************************************)
(* The shape of the state.                                                 *)
(***************************************************************************)
LEMMA TypesStep ==
  ASSUME CInv, Next
  PROVE  TypesOK'
<1>1. TypesOK /\ RoundsOK
  BY DEF CInv
<1>2. PICK t \in Turns :
        \/ Start(t) \/ Inject(t) \/ Stop(t) \/ Responds(t)
        \/ \E c \in Call : \E k \in Kinds[c] : ReceiveCall(t, c, k)
        \/ StreamEnds(t) \/ Harness(t)
  BY DEF Next
<1>3. /\ request[t].texts \in Seq(Nat) /\ request[t].results \in Seq(Nat)
      /\ inbox[t] \in Seq(Nat) /\ told[t] \in Seq(Nat) /\ results[t] \in Seq(Nat)
      /\ Accepted(t) \in Nat /\ <<>> \in Seq(Nat) /\ NoRequest \in Request
  BY <1>1 DEF TypesOK, RoundsOK, Accepted, Request, NoRequest
<1> USE DEF TypesOK
(* A request goes out.                                                     *)
<1>4. ASSUME NEW message \in Request, Send(t, message)
      PROVE  /\ told' \in [Turns -> Seq(Nat)] /\ request' \in [Turns -> Request]
             /\ pc' = [pc EXCEPT ![t] = "streaming"]
  <2>1. told[t] \o message.texts \in Seq(Nat)
    BY <1>3 DEF Request
  <2>2. QED
    BY <1>1, <1>3, <1>4, <2>1 DEF Send, Goto
(* The queue goes into the next request.                                   *)
<1>5. ASSUME NEW leftover \in Seq(Nat), Drained(t, leftover)
      PROVE  /\ request' \in [Turns -> Request] /\ inbox' \in [Turns -> Seq(Nat)]
             /\ bubble' \in [Turns -> BOOLEAN] /\ pc' = [pc EXCEPT ![t] = "assembling"]
  <2>1. [results |-> leftover, texts |-> inbox[t]] \in Request
    BY <1>3 DEF Request
  <2>2. QED
    BY <1>1, <1>3, <1>5, <2>1 DEF Drained, Goto
<1>6. CASE Start(t)
  BY <1>1, <1>6 DEF Start, Goto
<1>7. CASE Inject(t)
  <2>1. Append(inbox[t], Accepted(t) + 1) \in Seq(Nat)
    BY <1>3
  <2>2. QED
    BY <1>1, <1>7, <2>1 DEF Inject, chat, past
<1>8. CASE Stop(t)
  BY <1>1, <1>8 DEF Stop, Active
<1>9. CASE Responds(t)
  BY <1>1, <1>9 DEF Responds, Answer, Decide, chat
<1>10. ASSUME NEW c \in Call, NEW k \in Kinds[c], ReceiveCall(t, c, k)
       PROVE  TypesOK'
  BY <1>1, <1>10 DEF ReceiveCall, past
<1>11. CASE StreamEnds(t)
  BY <1>1, <1>11 DEF StreamEnds, StreamStops, StreamCutOff, StreamThrows,
                     StreamAsksForNothing, BeginRound, Finish, Goto, chat, past
<1>12. CASE Harness(t)
  <2>1. CASE Activate(t)
    BY <1>1, <2>1 DEF Activate, Goto, chat, past
  <2>2. CASE Assemble(t)
    BY <1>1, <1>4, <2>2 DEF Assemble
  <2>3. CASE AssembleFails(t)
    BY <1>1, <2>3 DEF AssembleFails, Finish, Goto
  <2>4. CASE Nudge(t)
    BY <1>1, <1>3, <1>4, <2>4 DEF Nudge, chat
  <2>5. CASE NoNudge(t)
    BY <1>1, <2>5 DEF NoNudge, Goto, chat, past
  <2>6. CASE Close(t)
    BY <1>1, <1>3, <1>5, <2>6 DEF Close, Finish, Goto
  <2>7. CASE DispatchFreely(t)
    BY <1>1, <2>7 DEF DispatchFreely, past
  <2>8. CASE Ask(t)
    BY <1>1, <2>8 DEF Ask, past
  <2>9. CASE ConsumeEarly(t)
    BY <1>1, <2>9 DEF ConsumeEarly
  <2>10. CASE ToolReturns(t)
    BY <1>1, <2>10 DEF ToolReturns
  <2>11. CASE EndRound(t)
    <3>1. [results |-> results[t], texts |-> <<>>] \in Request
      BY <1>3 DEF Request
    <3>2. QED
      BY <1>1, <1>3, <1>4, <1>5, <2>11, <3>1 DEF EndRound, Finish, Goto
  <2>12. QED
    BY <1>12, <2>1, <2>2, <2>3, <2>4, <2>5, <2>6, <2>7, <2>8, <2>9, <2>10, <2>11 DEF Harness
<1>13. QED
  BY <1>2, <1>6, <1>7, <1>8, <1>9, <1>10, <1>11, <1>12

LEMMA CallTypesStep ==
  ASSUME CInv, Next
  PROVE  CallTypesOK'
<1>1. CallTypesOK /\ RoundsOK
  BY DEF CInv
<1>2. PICK t \in Turns :
        \/ Start(t) \/ Inject(t) \/ Stop(t) \/ Responds(t)
        \/ \E c \in Call : \E k \in Kinds[c] : ReceiveCall(t, c, k)
        \/ StreamEnds(t) \/ Harness(t)
  BY DEF Next
<1>3. calls[t] # <<>> => First(t) \in Call
  BY <1>1, FirstIs
<1> USE DEF CallTypesOK
<1>4. ASSUME NEW ts \in SUBSET Turns, NEW decision, Settled(ts, decision),
             \A u \in ts : calls[u] # <<>>
      PROVE  outcome' \in [Call -> {"none", "ran", "denied"}]
  BY <1>1, <1>4, OutcomeOfSettled
<1>5. CASE Start(t)
  <2>1. PICK ts \in SUBSET Turns : Settled(ts, "deny") /\ \A u \in ts : calls[u] # <<>>
    BY <1>5, StartSettles
  <2>2. outcome' \in [Call -> {"none", "ran", "denied"}]
    BY <1>4, <2>1
  <2>3. QED
    BY <1>1, <1>5, <2>2 DEF Start, Stopped
<1>6. CASE Stop(t)
  <2>1. PICK ts \in SUBSET Turns : Settled(ts, "deny") /\ \A u \in ts : calls[u] # <<>>
    BY <1>6, StopSettles
  <2>2. outcome' \in [Call -> {"none", "ran", "denied"}]
    BY <1>4, <2>1
  <2>3. QED
    BY <1>1, <1>6, <2>2 DEF Stop, Stopped
<1>7. CASE Responds(t)
  <2>1. PICK c \in Call : c[1] = t /\ (Answer(c) \/ \E d \in {"allow", "deny", "always"} : Decide(c, d))
    BY <1>7 DEF Responds
  <2>2. c \in pending => calls[t] # <<>>
    BY <1>1, <2>1, AskingIs
  <2>3. CASE Answer(c)
    <3>1. Settled({t}, "allow") /\ c \in pending
      BY <2>1, <2>3 DEF Answer
    <3>2. outcome' \in [Call -> {"none", "ran", "denied"}]
      BY <1>4, <2>2, <3>1
    <3>3. QED
      BY <1>1, <2>3, <3>2 DEF Answer, chat
  <2>4. ASSUME NEW d \in {"allow", "deny", "always"}, Decide(c, d)
        PROVE  CallTypesOK'
    <3>1. verdict'[c] \in {"allow", "deny"} /\ verdict' \in [Call -> {"none", "allow", "deny"}]
      BY <1>1, <2>4 DEF Decide
    <3>2. outcome' \in [Call -> {"none", "ran", "denied"}]
      <4>1. PICK said : said = verdict'[c]
        OBVIOUS
      <4>2. CASE c \in pending
        <5>1. Settled({t}, said)
          BY <2>1, <2>4, <4>1, <4>2 DEF Decide
        <5>2. QED
          BY <1>4, <2>2, <4>2, <5>1
      <4>3. CASE c \notin pending
        BY <1>1, <2>4, <4>3 DEF Decide
      <4>4. QED
        BY <4>2, <4>3
    <3>3. setting' \in {"ask", "always"} /\ kind' = kind
      BY <1>1, <2>4 DEF Decide
    <3>4. row' \in [Call -> {"none", "approval", "running", "done", "error"}]
      BY <1>1, <2>4 DEF Decide
    <3>5. early' \in [Call -> {"none", "allow", "deny"}]
      BY <1>1, <2>4, <3>1 DEF Decide
    <3>6. QED
      BY <1>1, <3>1, <3>2, <3>3, <3>4, <3>5
  <2>5. QED
    BY <2>1, <2>3, <2>4
<1>8. ASSUME NEW c \in Call, NEW k \in Kinds[c], ReceiveCall(t, c, k)
      PROVE  CallTypesOK'
  <2>1. k \in Kind
    BY ChatAssumption
  <2>2. QED
    BY <1>1, <1>8, <2>1 DEF ReceiveCall, past, waiting, Kind
<1>9. CASE UNCHANGED <<early, setting, kind, row, verdict, outcome>>
  BY <1>1, <1>9
<1>10. CASE Inject(t)
  BY <1>9, <1>10 DEF Inject, waiting, chat, past
<1>11. CASE StreamEnds(t)
  BY <1>9, <1>11 DEF StreamEnds, StreamStops, StreamCutOff, StreamThrows,
                     StreamAsksForNothing, BeginRound, waiting, chat, past
<1>12. CASE Harness(t)
  <2>1. CASE Activate(t) \/ Assemble(t) \/ AssembleFails(t) \/ Nudge(t) \/ NoNudge(t) \/ Close(t)
             \/ EndRound(t)
    BY <1>9, <2>1 DEF Activate, Assemble, AssembleFails, Nudge, NoNudge, Close, EndRound,
                      waiting, chat, past
  <2>2. CASE DispatchFreely(t)
    BY <1>1, <1>3, <2>2 DEF DispatchFreely, past, waiting
  <2>3. CASE Ask(t)
    BY <1>1, <1>3, <2>3 DEF Ask, past
  <2>4. CASE ConsumeEarly(t)
    <3>1. PICK said : said = early[First(t)]
      OBVIOUS
    <3>2. Settled({t}, said) /\ calls[t] # <<>>
      BY <2>4, <3>1 DEF ConsumeEarly
    <3>3. outcome' \in [Call -> {"none", "ran", "denied"}]
      BY <1>4, <3>2
    <3>4. QED
      BY <1>1, <1>3, <2>4, <3>3 DEF ConsumeEarly
  <2>5. CASE ToolReturns(t)
    BY <1>1, <1>3, <2>5 DEF ToolReturns, waiting
  <2>6. QED
    BY <1>12, <2>1, <2>2, <2>3, <2>4, <2>5 DEF Harness
<1>13. QED
  BY <1>2, <1>5, <1>6, <1>7, <1>8, <1>10, <1>11, <1>12

-----------------------------------------------------------------------------
(***************************************************************************)
(* Every call is answered.                                                 *)
(***************************************************************************)
(* The first call done, its result comes after the others.                 *)
LEMMA MoveFirst ==
  ASSUME NEW r \in Seq(Nat), NEW s \in Seq(Nat), s # <<>>
  PROVE  Append(r, Head(s)) \o Tail(s) = r \o s
<1>1. Head(s) \in Nat /\ Tail(s) \in Seq(Nat)
  BY HeadTailProperties
<1>2. /\ Len(s) \in Nat \ {0} /\ Len(r) \in Nat /\ Len(Tail(s)) = Len(s) - 1
      /\ Head(s) = s[1] /\ \A i \in 1..Len(s) - 1 : Tail(s)[i] = s[i + 1]
  OBVIOUS
<1> DEFINE a == Append(r, Head(s))
<1>3. /\ a \in Seq(Nat) /\ Len(a) = Len(r) + 1 /\ a[Len(r) + 1] = s[1]
      /\ \A i \in 1..Len(r) : a[i] = r[i]
  BY <1>1, <1>2
<1>4. /\ a \o Tail(s) \in Seq(Nat) /\ Len(a \o Tail(s)) = Len(a) + Len(Tail(s))
      /\ \A i \in 1..Len(a) + Len(Tail(s)) :
           (a \o Tail(s))[i] = IF i <= Len(a) THEN a[i] ELSE Tail(s)[i - Len(a)]
  BY <1>1, <1>3, ConcatProperties
<1>5. /\ r \o s \in Seq(Nat) /\ Len(r \o s) = Len(r) + Len(s)
      /\ \A i \in 1..Len(r) + Len(s) : (r \o s)[i] = IF i <= Len(r) THEN r[i] ELSE s[i - Len(r)]
  BY ConcatProperties
<1>6. Len(a \o Tail(s)) = Len(r \o s)
  BY <1>2, <1>3, <1>4, <1>5
<1>7. ASSUME NEW i \in 1..Len(a \o Tail(s))
      PROVE  (a \o Tail(s))[i] = (r \o s)[i]
  <2>1. i \in Nat /\ i >= 1 /\ i <= Len(r) + Len(s)
    BY <1>2, <1>3, <1>4
  <2>2. CASE i <= Len(r)
    BY <1>2, <1>3, <1>4, <1>5, <2>1, <2>2
  <2>3. CASE i = Len(r) + 1
    BY <1>2, <1>3, <1>4, <1>5, <2>1, <2>3
  <2>4. CASE i > Len(r) + 1
    <3>1. (a \o Tail(s))[i] = Tail(s)[i - (Len(r) + 1)]
      BY <1>2, <1>3, <1>4, <2>1, <2>4
    <3>2. i - (Len(r) + 1) \in 1..Len(s) - 1
      BY <1>2, <2>1, <2>4
    <3>3. Tail(s)[i - (Len(r) + 1)] = s[(i - (Len(r) + 1)) + 1]
      BY <1>2, <3>2
    <3>4. (i - (Len(r) + 1)) + 1 = i - Len(r)
      BY <1>2, <2>1
    <3>5. (r \o s)[i] = s[i - Len(r)]
      BY <1>2, <1>5, <2>1, <2>4
    <3>6. QED
      BY <3>1, <3>3, <3>4, <3>5
  <2>5. QED
    BY <1>2, <2>1, <2>2, <2>3, <2>4
<1>8. QED
  BY <1>4, <1>5, <1>6, <1>7, SeqEqual

LEMMA SettledKeepsRound ==
  ASSUME RoundsOK, NEW ts \in SUBSET Turns, NEW decision, Settled(ts, decision),
         \A t \in ts : calls[t] # <<>> /\ pc[t] = "tools", NEW u \in Turns
  PROVE  /\ results'[u] \o calls'[u] = results[u] \o calls[u]
         /\ pc[u] # "tools" => Same(u)
<1>1. \A t \in ts : calls[t] # <<>>
  OBVIOUS
<1>2. \A t \in Turns \ ts : Same(t)
  BY <1>1, SettledIs
<1>3. \A t \in ts : Denied(t) \/ Runs(t)
  BY <1>1, SettledIs
<1>4. CASE u \notin ts
  BY <1>2, <1>4 DEF Same
<1>5. CASE u \in ts /\ Runs(u)
  BY <1>5 DEF Runs
<1>6. CASE u \in ts /\ Denied(u)
  <2>1. results[u] \in Seq(Nat) /\ calls[u] \in Seq(Nat) /\ calls[u] # <<>>
    BY <1>6 DEF RoundsOK
  <2>2. Append(results[u], Head(calls[u])) \o Tail(calls[u]) = results[u] \o calls[u]
    BY <2>1, MoveFirst
  <2>3. QED
    BY <1>6, <2>2 DEF Denied
<1>7. QED
  BY <1>2, <1>3, <1>4, <1>5, <1>6

LEMMA AnswersStep ==
  ASSUME CInv, Next
  PROVE  AnswersOK'
<1> SUFFICES ASSUME NEW u \in Turns PROVE Answered(u)'
  BY DEF AnswersOK
<1>1. RoundsOK /\ TypesOK /\ CallTypesOK /\ Answered(u)
  BY DEF CInv, AnswersOK
<1>2. PICK t \in Turns :
        \/ Start(t) \/ Inject(t) \/ Stop(t) \/ Responds(t)
        \/ \E c \in Call : \E k \in Kinds[c] : ReceiveCall(t, c, k)
        \/ StreamEnds(t) \/ Harness(t)
  BY DEF Next
<1>3. Answered(t)
  BY DEF CInv, AnswersOK
<1>4. calls[t] \in Seq(Nat) /\ results[t] \in Seq(Nat) /\ awaited[t] \in Seq(Nat)
  BY <1>1 DEF RoundsOK
<1>5. NoRequest.results = <<>> /\ NoRequest.texts = <<>>
  BY DEF NoRequest
(* A request goes out with all that the service waits for.                 *)
<1>6. ASSUME NEW message, Send(t, message), message.results = awaited[t], calls[t] = <<>>,
             UNCHANGED calls
      PROVE  Answered(u)'
  <2>1. /\ awaited' = [awaited EXCEPT ![t] = <<>>]
        /\ request' = [request EXCEPT ![t] = NoRequest]
        /\ results' = [results EXCEPT ![t] = <<>>] /\ pc' = [pc EXCEPT ![t] = "streaming"]
    BY <1>1, <1>6 DEF Send, Goto, RoundsOK
  <2>2. CASE u = t
    BY <1>1, <1>6, <2>1, <2>2 DEF Answered, RoundsOK, TypesOK
  <2>3. CASE u # t
    BY <1>1, <1>6, <2>1, <2>3 DEF Answered, RoundsOK, TypesOK
  <2>4. QED
    BY <2>2, <2>3
(* Only the place of the turn changes.                                     *)
<1>7. ASSUME UNCHANGED <<calls, results, awaited, request>>,
             NEW place, pc' = [pc EXCEPT ![t] = place],
             \/ place = "ended"
             \/ place \in {"loading", "nudging", "closing", "cutOff"} /\ request[t] = NoRequest
                  /\ calls[t] = <<>> /\ awaited[t] = <<>>
      PROVE  Answered(u)'
  BY <1>1, <1>7 DEF Answered, TypesOK
<1>8. ASSUME NEW ts \in SUBSET Turns, NEW decision, Settled(ts, decision),
             \A v \in ts : calls[v] # <<>> /\ pc[v] = "tools",
             UNCHANGED <<awaited, request>>, pc'[u] = pc[u]
      PROVE  Answered(u)'
  <2>1. results'[u] \o calls'[u] = results[u] \o calls[u] /\ (pc[u] # "tools" => Same(u))
    BY <1>1, <1>8, SettledKeepsRound
  <2>2. QED
    BY <1>1, <1>8, <2>1 DEF Answered, Same
<1>9. CASE Start(t)
  <2>1. PICK ts \in SUBSET Turns :
          Settled(ts, "deny") /\ \A v \in ts : calls[v] # <<>> /\ pc[v] = "tools"
    BY <1>9, StartSettles
  <2>2. pc' = [pc EXCEPT ![t] = "loading"] /\ pc[t] = "idle" /\ UNCHANGED <<awaited, request>>
    BY <1>9 DEF Start, Goto
  <2>3. CASE u = t
    <3>1. Same(t)
      BY <1>1, <2>1, <2>2, SettledKeepsRound
    <3>2. QED
      BY <1>1, <2>2, <2>3, <3>1 DEF Answered, Same, TypesOK
  <2>4. CASE u # t
    <3>1. pc'[u] = pc[u]
      BY <1>1, <2>2, <2>4 DEF TypesOK
    <3>2. QED
      BY <1>8, <2>1, <2>2, <3>1
  <2>5. QED
    BY <2>3, <2>4
<1>10. CASE Inject(t)
  BY <1>1, <1>10 DEF Inject, Answered
<1>11. CASE Stop(t)
  <2>1. PICK ts \in SUBSET Turns :
          Settled(ts, "deny") /\ \A v \in ts : calls[v] # <<>> /\ pc[v] = "tools"
    BY <1>11, StopSettles
  <2>2. UNCHANGED <<pc, awaited, request>>
    BY <1>11 DEF Stop
  <2>3. QED
    BY <1>8, <2>1, <2>2
<1>12. CASE Responds(t)
  <2>1. PICK c \in Call : c[1] = t /\ (Answer(c) \/ \E d \in {"allow", "deny", "always"} : Decide(c, d))
    BY <1>12 DEF Responds
  <2>2. c \in pending => calls[t] # <<>> /\ pc[t] = "tools"
    BY <1>1, <2>1, AskingIs
  <2>3. CASE Answer(c)
    <3>1. Settled({t}, "allow") /\ c \in pending /\ UNCHANGED <<pc, awaited, request>>
      BY <2>1, <2>3 DEF Answer
    <3>2. QED
      BY <1>8, <2>2, <3>1
  <2>4. ASSUME NEW d, Decide(c, d)
        PROVE  Answered(u)'
    <3>1. UNCHANGED <<pc, awaited, request>>
      BY <2>4 DEF Decide
    <3>2. CASE c \in pending
      <4>1. PICK said : said = verdict'[c]
        OBVIOUS
      <4>2. Settled({t}, said)
        BY <2>1, <2>4, <3>2, <4>1 DEF Decide
      <4>3. QED
        BY <1>8, <2>2, <3>1, <3>2, <4>2
    <3>3. CASE c \notin pending
      <4>1. UNCHANGED <<results, calls>>
        BY <2>4, <3>3 DEF Decide
      <4>2. QED
        BY <1>1, <3>1, <4>1 DEF Answered
    <3>4. QED
      BY <3>2, <3>3
  <2>5. QED
    BY <2>1, <2>3, <2>4
<1>13. ASSUME NEW c \in Call, NEW k \in Kinds[c], ReceiveCall(t, c, k)
       PROVE  Answered(u)'
  <2>1. pc[t] = "streaming" /\ UNCHANGED <<pc, request, results>> /\ awaited[t] = calls[t]
    BY <1>3, <1>13 DEF ReceiveCall, Answered
  <2>2. /\ calls' = [calls EXCEPT ![t] = Noted(calls[t], c[2])]
        /\ awaited' = [awaited EXCEPT ![t] = IF kind[c] = "none" THEN Append(awaited[t], c[2])
                                             ELSE awaited[t]]
    BY <1>1, <1>13 DEF ReceiveCall, RoundsOK
  <2>3. kind[c] = "none" <=> c[2] \notin Range(calls[t])
    <3>1. c = <<t, c[2]>> /\ c[2] \in 1..MaxCalls[t]
      BY <1>13, CallIs DEF ReceiveCall
    <3>2. ASSUME c[2] \in Range(calls[t])
          PROVE  kind[c] # "none"
      <4>1. PICK i \in 1..Len(calls[t]) : calls[t][i] = c[2]
        BY <1>4, <3>2, LenProperties DEF Range
      <4>2. QED
        BY <3>1, <4>1 DEF CInv, CallsOK, InRound
    <3>3. ASSUME c[2] \notin Range(calls[t])
          PROVE  kind[c] = "none"
      <4>1. \A m \in 1..c[2] : kind[<<t, m>>] = "none" <=> m = c[2]
        BY <1>13, <3>3 DEF ReceiveCall
      <4>2. c[2] \in 1..c[2]
        BY <3>1, ChatAssumption
      <4>3. QED
        BY <3>1, <4>1, <4>2
    <3>4. QED
      BY <3>2, <3>3
  <2>4. calls'[t] = awaited'[t]
    BY <1>1, <2>1, <2>2, <2>3 DEF Noted, RoundsOK
  <2>5. CASE u = t
    BY <1>3, <2>1, <2>4, <2>5 DEF Answered
  <2>6. CASE u # t
    BY <1>1, <2>1, <2>2, <2>6 DEF Answered, RoundsOK
  <2>7. QED
    BY <2>5, <2>6
<1>14. CASE StreamEnds(t)
  <2>1. pc[t] = "streaming" => request[t] = NoRequest /\ awaited[t] = calls[t] /\ results[t] = <<>>
    BY <1>3 DEF Answered
  <2>2. ASSUME Drop(t), pc[t] = "streaming", UNCHANGED <<results, request>>,
               NEW place \in {"cutOff", "ended"}, pc' = [pc EXCEPT ![t] = place]
        PROVE  Answered(u)'
    <3>1. calls' = [calls EXCEPT ![t] = <<>>] /\ awaited' = [awaited EXCEPT ![t] = <<>>]
      BY <2>2 DEF Drop
    <3>2. QED
      BY <1>1, <2>1, <2>2, <3>1 DEF Answered, TypesOK, RoundsOK
  <2>3. CASE StreamStops(t)
    BY <1>7, <2>1, <2>3 DEF StreamStops, Goto
  <2>4. CASE StreamCutOff(t)
    BY <2>2, <2>4 DEF StreamCutOff, Goto
  <2>5. CASE StreamThrows(t)
    BY <2>2, <2>5 DEF StreamThrows, Finish, Goto
  <2>6. CASE StreamAsksForNothing(t)
    BY <1>7, <2>6 DEF StreamAsksForNothing, Finish, Goto
  <2>7. CASE BeginRound(t)
    <3>1. /\ pc' = [pc EXCEPT ![t] = "tools"] /\ UNCHANGED <<calls, results, awaited, request>>
          /\ pc[t] = "streaming"
      BY <2>7 DEF BeginRound, Goto
    <3>2. <<>> \o calls[t] = calls[t]
      BY <1>4, ConcatEmptySeq
    <3>3. QED
      BY <1>1, <2>1, <3>1, <3>2 DEF Answered, TypesOK
  <2>8. QED
    BY <1>14, <2>3, <2>4, <2>5, <2>6, <2>7 DEF StreamEnds
<1>15. CASE Harness(t)
  (* What is done of the round goes into the next request.                 *)
  <2>1. ASSUME NEW leftover, Drained(t, leftover), leftover = awaited[t], calls[t] = <<>>,
               UNCHANGED <<calls, awaited, results>>
        PROVE  Answered(u)'
    <3>1. /\ request' = [request EXCEPT ![t] = [results |-> leftover, texts |-> inbox[t]]]
          /\ pc' = [pc EXCEPT ![t] = "assembling"]
      BY <2>1 DEF Drained, Goto
    <3>2. CASE u = t
      <4>1. request'[t].results = awaited[t] /\ pc'[t] = "assembling"
        BY <1>1, <2>1, <3>1 DEF TypesOK
      <4>2. QED
        BY <2>1, <3>2, <4>1 DEF Answered
    <3>3. CASE u # t
      BY <1>1, <2>1, <3>1, <3>3 DEF Answered, TypesOK
    <3>4. QED
      BY <3>2, <3>3
  <2>2. CASE Activate(t)
    <3>1. /\ pc[t] = "loading" /\ pc' = [pc EXCEPT ![t] = "assembling"]
          /\ UNCHANGED <<calls, results, awaited, request>>
      BY <2>2 DEF Activate, Goto
    <3>2. calls[t] = <<>> /\ awaited[t] = <<>> /\ request[t].results = <<>>
      BY <1>3, <1>5, <3>1 DEF Answered
    <3>3. QED
      BY <1>1, <3>1, <3>2 DEF Answered, TypesOK
  <2>3. CASE Assemble(t)
    BY <1>3, <1>6, <2>3 DEF Assemble, Answered
  <2>4. CASE AssembleFails(t)
    BY <1>7, <2>4 DEF AssembleFails, Finish, Goto
  <2>5. CASE Nudge(t)
    BY <1>3, <1>5, <1>6, <2>5 DEF Nudge, Answered
  <2>6. CASE NoNudge(t)
    BY <1>3, <1>7, <2>6 DEF NoNudge, Goto, Answered
  <2>7. CASE Close(t)
    <3>1. CASE Drained(t, <<>>) /\ pc[t] = "closing"
      BY <1>3, <2>1, <2>7, <3>1 DEF Close, Answered
    <3>2. CASE (Finish(t, "early") \/ Finish(t, "stop")) /\ UNCHANGED request
      BY <1>7, <2>7, <3>2 DEF Close, Finish, Goto
    <3>3. QED
      BY <2>7, <3>1, <3>2 DEF Close
  <2>8. CASE DispatchFreely(t)
    BY <1>1, <2>8 DEF DispatchFreely, Answered
  <2>9. CASE Ask(t)
    BY <1>1, <2>9 DEF Ask, Answered
  <2>10. CASE ConsumeEarly(t)
    <3>1. PICK said : said = early[First(t)]
      OBVIOUS
    <3>2. /\ Settled({t}, said) /\ calls[t] # <<>> /\ pc[t] = "tools"
          /\ UNCHANGED <<awaited, request, pc>>
      BY <2>10, <3>1 DEF ConsumeEarly
    <3>3. QED
      BY <1>8, <3>2
  <2>11. CASE ToolReturns(t)
    <3>1. /\ results' = [results EXCEPT ![t] = Append(results[t], Head(calls[t]))]
          /\ calls' = [calls EXCEPT ![t] = Tail(calls[t])]
          /\ UNCHANGED <<awaited, request, pc>> /\ pc[t] = "tools" /\ calls[t] # <<>>
      BY <1>1, <2>11 DEF ToolReturns, RoundsOK
    <3>2. Append(results[t], Head(calls[t])) \o Tail(calls[t]) = results[t] \o calls[t]
      BY <1>4, <3>1, MoveFirst
    <3>3. CASE u = t
      <4>1. results'[t] \o calls'[t] = results[t] \o calls[t]
        BY <1>1, <3>1, <3>2 DEF RoundsOK
      <4>2. QED
        BY <1>3, <3>1, <3>3, <4>1 DEF Answered
    <3>4. CASE u # t
      BY <1>1, <3>1, <3>4 DEF Answered, RoundsOK
    <3>5. QED
      BY <3>3, <3>4
  <2>12. CASE EndRound(t)
    <3>1. pc[t] = "tools" /\ calls[t] = <<>> /\ UNCHANGED calls /\ awaited[t] = results[t]
      <4>1. results[t] \o <<>> = results[t]
        BY <1>4, ConcatEmptySeq
      <4>2. QED
        BY <1>3, <2>12, <4>1 DEF EndRound, Answered
    <3>2. CASE Send(t, [results |-> results[t], texts |-> <<>>])
      BY <1>6, <3>1, <3>2
    <3>3. CASE Drained(t, results[t]) /\ UNCHANGED <<results, awaited>>
      BY <2>1, <3>1, <3>3
    <3>4. CASE Finish(t, "early") /\ UNCHANGED <<results, awaited, request>>
      BY <1>7, <3>1, <3>4 DEF Finish, Goto
    <3>5. QED
      BY <2>12, <3>2, <3>3, <3>4 DEF EndRound
  <2>13. QED
    BY <1>15, <2>2, <2>3, <2>4, <2>5, <2>6, <2>7, <2>8, <2>9, <2>10, <2>11, <2>12 DEF Harness
<1>16. QED
  BY <1>2, <1>9, <1>10, <1>11, <1>12, <1>13, <1>14, <1>15

-----------------------------------------------------------------------------
(***************************************************************************)
(* Messages of the user reach the model.                                   *)
(***************************************************************************)
(* A request goes out, the queue becomes a request, a message is queued.   *)
LEMMA SentOn ==
  ASSUME NEW a \in Seq(Nat), NEW b \in Seq(Nat), NEW c \in Seq(Nat)
  PROVE  /\ (a \o b) \o <<>> \o c = a \o b \o c
         /\ Len(c) + Len(<<>>) + Len(a \o b) = Len(c) + Len(b) + Len(a)
<1>1. a \o b \in Seq(Nat) /\ Len(a \o b) = Len(a) + Len(b)
  BY ConcatProperties
<1>2. (a \o b) \o <<>> = a \o b
  BY <1>1, ConcatEmptySeq
<1>3. QED
  BY <1>1, <1>2

LEMMA QueueGoesOut ==
  ASSUME NEW a \in Seq(Nat), NEW c \in Seq(Nat)
  PROVE  /\ a \o c \o <<>> = a \o <<>> \o c
         /\ Len(<<>>) + Len(c) + Len(a) = Len(c) + Len(<<>>) + Len(a)
<1>1. a \o c \in Seq(Nat)
  BY ConcatProperties
<1>2. (a \o c) \o <<>> = a \o c /\ a \o <<>> = a
  BY <1>1, ConcatEmptySeq
<1>3. QED
  BY <1>2

LEMMA OneMore ==
  ASSUME NEW a \in Seq(Nat), NEW b \in Seq(Nat), NEW c \in Seq(Nat), NEW x \in Nat
  PROVE  Len(Append(c, x)) + Len(b) + Len(a) = (Len(c) + Len(b) + Len(a)) + 1
<1>1. Len(a) \in Nat /\ Len(b) \in Nat /\ Len(c) \in Nat /\ Len(Append(c, x)) = Len(c) + 1
  BY AppendProperties
<1>2. PICK la, lb, lc : la = Len(a) /\ lb = Len(b) /\ lc = Len(c)
  OBVIOUS
<1>3. la \in Nat /\ lb \in Nat /\ lc \in Nat
  BY <1>1, <1>2
<1>4. (lc + 1) + lb + la = (lc + lb + la) + 1
  BY <1>3
<1>5. QED
  BY <1>1, <1>2, <1>4

LEMMA ConcatIs ==
  ASSUME NEW s \in Seq(Nat), NEW d \in Seq(Nat), NEW l, NEW e, l = Len(s), e = Len(d)
  PROVE  /\ s \o d \in Seq(Nat) /\ Len(s \o d) = l + e
         /\ \A i \in 1..l + e : (s \o d)[i] = IF i <= l THEN s[i] ELSE d[i - l]
BY ConcatProperties

(* The numbers of the messages so far.                                     *)
UpTo(n) == [k \in 1..n |-> k]

LEMMA Queued ==
  ASSUME NEW a \in Seq(Nat), NEW b \in Seq(Nat), NEW c \in Seq(Nat), NEW n \in Nat,
         a \o b \o c = UpTo(n)
  PROVE  a \o b \o Append(c, n + 1) = UpTo(n + 1)
<1> USE DEF UpTo
<1>0. a \o b \in Seq(Nat)
  BY ConcatProperties
<1>1. PICK s \in Seq(Nat) : s = a \o b
  BY <1>0
<1>2. PICK l \in Nat, m \in Nat : l = Len(s) /\ m = Len(c) /\ n = l + m
  <2>1. s \o c \in Seq(Nat) /\ Len(s \o c) = Len(s) + Len(c)
    BY <1>1, ConcatProperties
  <2>2. Len(s \o c) = n
    BY <1>1
  <2>3. Len(s) \in Nat /\ Len(c) \in Nat
    BY <1>1
  <2>4. QED
    BY <2>1, <2>2, <2>3
<1>3. n + 1 \in Nat
  BY <1>2
<1>4. PICK d : d = Append(c, n + 1)
  OBVIOUS
<1>5. /\ d \in Seq(Nat) /\ Len(d) = m + 1 /\ d[m + 1] = n + 1
      /\ \A i \in 1..m : d[i] = c[i]
  BY <1>2, <1>3, <1>4, AppendProperties
<1>6. /\ s \o d \in Seq(Nat) /\ Len(s \o d) = l + (m + 1)
      /\ \A i \in 1..l + (m + 1) : (s \o d)[i] = IF i <= l THEN s[i] ELSE d[i - l]
  <2>1. PICK e : e = m + 1
    OBVIOUS
  <2>2. s \in Seq(Nat) /\ d \in Seq(Nat) /\ e = Len(d) /\ l = Len(s)
    BY <1>1, <1>2, <1>5, <2>1
  <2>3. /\ s \o d \in Seq(Nat) /\ Len(s \o d) = l + e
        /\ \A i \in 1..l + e : (s \o d)[i] = IF i <= l THEN s[i] ELSE d[i - l]
    BY <2>2, ConcatIs
  <2>4. QED
    BY <2>1, <2>3, SMT
<1>7. \A i \in 1..l + m : (s \o c)[i] = IF i <= l THEN s[i] ELSE c[i - l]
  BY <1>2, ConcatProperties
<1>8. \A i \in 1..l + m : (s \o c)[i] = i
  BY <1>1, <1>2
<1>9. ASSUME NEW i \in 1..l + (m + 1)
      PROVE  (s \o d)[i] = i
  <2>1. CASE i \in 1..l + m /\ i <= l
    BY <1>6, <1>7, <1>8, <2>1
  <2>2. CASE i \in 1..l + m /\ ~(i <= l)
    <3>1. i - l \in 1..m
      BY <2>2
    <3>2. QED
      BY <1>5, <1>6, <1>7, <1>8, <2>2, <3>1
  <2>3. CASE i = l + (m + 1)
    <3>1. ~(i <= l) /\ i - l = m + 1 /\ n + 1 = i
      BY <1>2, <2>3
    <3>2. QED
      BY <1>5, <1>6, <3>1
  <2>4. i \in 1..l + m \/ i = l + (m + 1)
    OBVIOUS
  <2>5. QED
    BY <2>1, <2>2, <2>3, <2>4
<1>10. l + (m + 1) = n + 1
  <2>1. n = l + m /\ l \in Nat /\ m \in Nat
    BY <1>2
  <2>2. QED
    BY <2>1
<1>11. s \o d = UpTo(n + 1)
  <2>1. s \o d \in [1..n + 1 -> Nat]
    BY <1>6, <1>10, LenProperties
  <2>2. \A k \in 1..n + 1 : (s \o d)[k] = k
    BY <1>9, <1>10
  <2>3. QED
    BY <2>1, <2>2
<1>12. QED
  BY <1>1, <1>4, <1>11

LEMMA CountIs ==
  ASSUME NEW a \in Seq(Nat), NEW b \in Seq(Nat), NEW c \in Seq(Nat)
  PROVE  Len(c) + Len(b) + Len(a) \in Nat
OBVIOUS

(* A step that leaves a turn's messages alone.                             *)
LEMMA HeardStays ==
  ASSUME NEW u, Heard(u), told'[u] = told[u], request'[u] = request[u], inbox'[u] = inbox[u],
         ending'[u] = ending[u], ending[u] # "none" => pc'[u] = "ended"
  PROVE  Heard(u)'
BY DEF Heard, Accepted

LEMMA HeardSend ==
  ASSUME TypesOK, NEW t \in Turns, NEW message, Heard(t), Send(t, message),
         message.texts = request[t].texts, UNCHANGED inbox, UNCHANGED ending,
         pc[t] # "ended"
  PROVE  Heard(t)'
<1>1. told[t] \in Seq(Nat) /\ request[t].texts \in Seq(Nat) /\ inbox[t] \in Seq(Nat)
  BY DEF TypesOK, Request
<1>2. /\ told'[t] = told[t] \o request[t].texts /\ request'[t].texts = <<>>
      /\ inbox'[t] = inbox[t] /\ ending'[t] = "none"
  BY DEF Send, TypesOK, Heard, NoRequest
<1>3. Accepted(t)' = Accepted(t)
  <2>1. Accepted(t)' = Len(inbox[t]) + Len(<<>>) + Len(told[t] \o request[t].texts)
    BY <1>2, Zenon DEF Accepted
  <2>2. Len(inbox[t]) + Len(<<>>) + Len(told[t] \o request[t].texts)
          = Len(inbox[t]) + Len(request[t].texts) + Len(told[t])
    BY <1>1, SentOn, Zenon
  <2>3. QED
    BY <2>1, <2>2, Zenon DEF Accepted
<1>4. told'[t] \o request'[t].texts \o inbox'[t] = told[t] \o request[t].texts \o inbox[t]
  BY <1>1, <1>2, SentOn
<1>5. QED
  BY <1>2, <1>3, <1>4 DEF Heard

LEMMA HeardDrained ==
  ASSUME TypesOK, NEW t \in Turns, NEW leftover, Heard(t), Drained(t, leftover),
         request[t] = NoRequest, UNCHANGED told, UNCHANGED ending, pc[t] # "ended"
  PROVE  Heard(t)'
<1>1. told[t] \in Seq(Nat) /\ inbox[t] \in Seq(Nat)
  BY DEF TypesOK
<1>2. /\ told'[t] = told[t] /\ request'[t].texts = inbox[t] /\ inbox'[t] = <<>>
      /\ ending'[t] = "none" /\ request[t].texts = <<>>
  BY DEF Drained, TypesOK, Heard, NoRequest
<1>3. Accepted(t)' = Accepted(t)
  BY <1>1, <1>2, QueueGoesOut, Zenon DEF Accepted
<1>4. told'[t] \o request'[t].texts \o inbox'[t] = told[t] \o request[t].texts \o inbox[t]
  BY <1>1, <1>2, QueueGoesOut
<1>5. QED
  BY <1>2, <1>3, <1>4 DEF Heard

LEMMA HeardFinish ==
  ASSUME TypesOK, NEW t \in Turns, NEW reason, Heard(t), Finish(t, reason),
         UNCHANGED <<told, request, inbox>>,
         reason = "stop" => inbox[t] = <<>> /\ request[t] = NoRequest
  PROVE  Heard(t)'
<1>1. ending'[t] = reason /\ pc'[t] = "ended" /\ Accepted(t)' = Accepted(t)
  BY DEF Finish, Goto, TypesOK, Accepted
<1>2. reason = "stop" => Len(told[t]) = Accepted(t)
  <2>1. PICK n : n = Len(told[t])
    OBVIOUS
  <2>2. n \in Nat /\ Len(<<>>) = 0
    BY <2>1 DEF TypesOK
  <2>3. reason = "stop" => Accepted(t) = Len(<<>>) + Len(<<>>) + n
    <3>1. NoRequest.texts = <<>>
      BY DEF NoRequest
    <3>2. QED
      BY <2>1, <3>1, Zenon DEF Accepted
  <2>4. Len(<<>>) + Len(<<>>) + n = n
    BY <2>2
  <2>5. QED
    BY <2>1, <2>3, <2>4
<1>3. QED
  BY <1>1, <1>2 DEF Heard

LEMMA HeardInject ==
  ASSUME TypesOK, NEW t \in Turns, Heard(t), Inject(t)
  PROVE  Heard(t)'
<1>1. told[t] \in Seq(Nat) /\ request[t].texts \in Seq(Nat) /\ inbox[t] \in Seq(Nat)
  BY DEF TypesOK, Request
<1>2. PICK n : n = Accepted(t)
  OBVIOUS
<1>3. /\ inbox'[t] = Append(inbox[t], n + 1) /\ told'[t] = told[t] /\ request'[t] = request[t]
      /\ ending'[t] = "none"
  BY <1>2 DEF Inject, TypesOK, Active, past, Heard
<1>4. PICK a \in Seq(Nat), b \in Seq(Nat), c \in Seq(Nat) :
        a = told[t] /\ b = request[t].texts /\ c = inbox[t]
  BY <1>1
<1>5. n \in Nat /\ a \o b \o c = UpTo(n)
  <2>1. n \in Nat
    BY <1>1, <1>2, CountIs DEF Accepted
  <2>2. QED
    BY <1>2, <1>4, <2>1, Zenon DEF Heard, UpTo
<1>6. a \o b \o Append(c, n + 1) = UpTo(n + 1)
  <2>1. a \in Seq(Nat) /\ b \in Seq(Nat) /\ c \in Seq(Nat) /\ n \in Nat
    BY <1>4, <1>5
  <2>2. a \o b \o c = UpTo(n)
    BY <1>5
  <2>3. QED
    BY <2>1, <2>2, Queued, Zenon
<1>7. Accepted(t)' = n + 1
  <2>1. Accepted(t)' = Len(Append(c, n + 1)) + Len(b) + Len(a)
    BY <1>3, <1>4, Zenon DEF Accepted
  <2>2. n = Len(c) + Len(b) + Len(a)
    BY <1>2, <1>4, Zenon DEF Accepted
  <2>3. n + 1 \in Nat
    <3>1. n \in Nat
      BY <1>5
    <3>2. QED
      BY <3>1
  <2>4. Len(Append(c, n + 1)) + Len(b) + Len(a) = (Len(c) + Len(b) + Len(a)) + 1
    <3>1. a \in Seq(Nat) /\ b \in Seq(Nat) /\ c \in Seq(Nat)
      BY <1>4
    <3>2. QED
      BY <2>3, <3>1, OneMore
  <2>5. QED
    BY <2>1, <2>2, <2>4, Zenon
<1>8. told'[t] \o request'[t].texts \o inbox'[t] = UpTo(n + 1)
  BY <1>3, <1>4, <1>6, Zenon
<1>9. QED
  BY <1>3, <1>7, <1>8 DEF Heard, UpTo

LEMMA InjectionsStep ==
  ASSUME CInv, Next
  PROVE  InjectionsOK'
<1> SUFFICES ASSUME NEW u \in Turns PROVE Heard(u)'
  BY DEF InjectionsOK
<1>1. TypesOK /\ AnswersOK /\ Heard(u)
  BY DEF CInv, InjectionsOK
<1>2. PICK t \in Turns :
        \/ Start(t) \/ Inject(t) \/ Stop(t) \/ Responds(t)
        \/ \E c \in Call : \E k \in Kinds[c] : ReceiveCall(t, c, k)
        \/ StreamEnds(t) \/ Harness(t)
  BY DEF Next
<1>3. Heard(t)
  BY DEF CInv, InjectionsOK
<1>4. pc[t] \notin {"assembling", "ended"} => request[t] = NoRequest
  BY <1>1 DEF AnswersOK, Answered
<1>5. NoRequest.texts = <<>>
  BY DEF NoRequest
(* The messages of the turn are left alone.                                *)
<1>6. ASSUME UNCHANGED <<told, request, inbox, ending>>, UNCHANGED pc
      PROVE  Heard(u)'
  BY <1>1, <1>6, HeardStays DEF Heard
<1>7. ASSUME UNCHANGED <<told, request, inbox, ending>>, NEW place,
             pc' = [pc EXCEPT ![t] = place], pc[t] # "ended"
      PROVE  Heard(u)'
  <2>1. ending[u] # "none" => pc'[u] = "ended"
    BY <1>1, <1>7 DEF Heard, TypesOK
  <2>2. QED
    BY <1>1, <1>7, <2>1, HeardStays
(* Another turn's are.                                                     *)
<1>8. ASSUME u # t, NEW a, NEW b, NEW c, NEW d, NEW place,
             told' = [told EXCEPT ![t] = a], request' = [request EXCEPT ![t] = b],
             inbox' = [inbox EXCEPT ![t] = c], ending' = [ending EXCEPT ![t] = d],
             pc' = [pc EXCEPT ![t] = place]
      PROVE  Heard(u)'
  <2>1. /\ told'[u] = told[u] /\ request'[u] = request[u] /\ inbox'[u] = inbox[u]
        /\ ending'[u] = ending[u] /\ pc'[u] = pc[u]
    BY <1>1, <1>8 DEF TypesOK
  <2>2. QED
    BY <1>1, <2>1, HeardStays DEF Heard
<1>9. /\ told = [told EXCEPT ![t] = told[t]] /\ request = [request EXCEPT ![t] = request[t]]
      /\ inbox = [inbox EXCEPT ![t] = inbox[t]] /\ ending = [ending EXCEPT ![t] = ending[t]]
      /\ pc = [pc EXCEPT ![t] = pc[t]]
  BY <1>1 DEF TypesOK
<1>10. ASSUME NEW message, Send(t, message), message.texts = request[t].texts,
              UNCHANGED inbox, UNCHANGED ending, pc[t] # "ended"
       PROVE  Heard(u)'
  <2>1. CASE u = t
    BY <1>1, <1>3, <1>10, <2>1, HeardSend
  <2>2. CASE u # t
    BY <1>8, <1>9, <1>10, <2>2 DEF Send, Goto
  <2>3. QED
    BY <2>1, <2>2
<1>11. ASSUME NEW leftover, Drained(t, leftover), request[t] = NoRequest,
              UNCHANGED told, UNCHANGED ending, pc[t] # "ended"
       PROVE  Heard(u)'
  <2>1. CASE u = t
    BY <1>1, <1>3, <1>11, <2>1, HeardDrained
  <2>2. CASE u # t
    BY <1>8, <1>9, <1>11, <2>2 DEF Drained, Goto
  <2>3. QED
    BY <2>1, <2>2
<1>12. ASSUME NEW reason, Finish(t, reason), UNCHANGED <<told, request, inbox>>,
              reason = "stop" => inbox[t] = <<>> /\ request[t] = NoRequest
       PROVE  Heard(u)'
  <2>1. CASE u = t
    BY <1>1, <1>3, <1>12, <2>1, HeardFinish
  <2>2. CASE u # t
    BY <1>8, <1>9, <1>12, <2>2 DEF Finish, Goto
  <2>3. QED
    BY <2>1, <2>2
<1>13. CASE Start(t)
  BY <1>7, <1>13 DEF Start, Goto
<1>14. CASE Inject(t)
  <2>1. CASE u = t
    BY <1>1, <1>3, <1>14, <2>1, HeardInject
  <2>2. CASE u # t
    BY <1>8, <1>9, <1>14, <2>2 DEF Inject, past
  <2>3. QED
    BY <2>1, <2>2
<1>15. CASE Stop(t)
  BY <1>6, <1>15 DEF Stop
<1>16. CASE Responds(t)
  BY <1>6, <1>16 DEF Responds, Answer, Decide
<1>17. ASSUME NEW c \in Call, NEW k \in Kinds[c], ReceiveCall(t, c, k)
       PROVE  Heard(u)'
  BY <1>6, <1>17 DEF ReceiveCall, past
<1>18. CASE StreamEnds(t)
  <2>1. CASE StreamStops(t) \/ StreamCutOff(t) \/ BeginRound(t)
    BY <1>7, <2>1 DEF StreamStops, StreamCutOff, BeginRound, Goto, past
  <2>2. CASE StreamThrows(t) \/ StreamAsksForNothing(t)
    BY <1>12, <2>2 DEF StreamThrows, StreamAsksForNothing
  <2>3. QED
    BY <1>18, <2>1, <2>2 DEF StreamEnds
<1>19. CASE Harness(t)
  <2>1. CASE Activate(t) \/ NoNudge(t)
    BY <1>7, <2>1 DEF Activate, NoNudge, Goto, past
  <2>2. CASE Assemble(t)
    BY <1>10, <2>2 DEF Assemble
  <2>3. CASE AssembleFails(t)
    BY <1>12, <2>3 DEF AssembleFails
  <2>4. CASE Nudge(t)
    BY <1>4, <1>5, <1>10, <2>4 DEF Nudge
  <2>5. CASE Close(t)
    BY <1>4, <1>11, <1>12, <2>5 DEF Close
  <2>6. CASE DispatchFreely(t) \/ Ask(t) \/ ConsumeEarly(t) \/ ToolReturns(t)
    BY <1>6, <2>6 DEF DispatchFreely, Ask, ConsumeEarly, ToolReturns, past
  <2>7. CASE EndRound(t)
    <3>1. pc[t] = "tools" /\ request[t] = NoRequest
      BY <1>4, <2>7 DEF EndRound
    <3>2. CASE /\ Send(t, [results |-> results[t], texts |-> <<>>])
               /\ UNCHANGED <<aborted, inbox, nudged, bubble, ending>>
      BY <1>5, <1>10, <3>1, <3>2
    <3>3. CASE Finish(t, "early") /\ UNCHANGED <<inbox, request, results, awaited, told>>
      BY <1>12, <3>3
    <3>4. CASE Drained(t, results[t]) /\ UNCHANGED <<aborted, nudged, results, awaited, told, ending>>
      BY <1>11, <3>1, <3>4
    <3>5. QED
      BY <2>7, <3>2, <3>3, <3>4 DEF EndRound
  <2>8. QED
    BY <1>19, <2>1, <2>2, <2>3, <2>4, <2>5, <2>6, <2>7 DEF Harness
<1>20. QED
  BY <1>2, <1>13, <1>14, <1>15, <1>16, <1>17, <1>18, <1>19

-----------------------------------------------------------------------------
(***************************************************************************)
(* Messages of the assistant are closed.                                   *)
(***************************************************************************)
Closed(t) ==
  /\ (pc[t] \in {"idle", "ended"} \/ request[t].texts # <<>>) => ~bubble[t]
  /\ pc[t] \notin {"idle", "assembling", "ended"} => bubble[t]

LEMMA BubblesStep ==
  ASSUME CInv, Next
  PROVE  BubblesAreClosed'
<1> SUFFICES ASSUME NEW u \in Turns PROVE Closed(u)'
  BY DEF BubblesAreClosed, Closed
<1>1. TypesOK /\ AnswersOK /\ Closed(u)
  BY DEF CInv, BubblesAreClosed, Closed
<1>2. PICK t \in Turns :
        \/ Start(t) \/ Inject(t) \/ Stop(t) \/ Responds(t)
        \/ \E c \in Call : \E k \in Kinds[c] : ReceiveCall(t, c, k)
        \/ StreamEnds(t) \/ Harness(t)
  BY DEF Next
<1>3. Closed(t)
  BY DEF CInv, BubblesAreClosed, Closed
<1>4. (pc[t] \notin {"assembling", "ended"} => request[t] = NoRequest) /\ NoRequest.texts = <<>>
  BY <1>1 DEF AnswersOK, Answered, NoRequest
<1>5. ASSUME UNCHANGED <<request, bubble, pc>>
      PROVE  Closed(u)'
  BY <1>1, <1>5 DEF Closed
<1>6. ASSUME UNCHANGED <<request, bubble>>, NEW place, pc' = [pc EXCEPT ![t] = place],
             pc[t] \in {"loading", "streaming", "nudging"},
             place \in {"assembling", "streaming", "nudging", "closing", "cutOff", "tools"}
      PROVE  Closed(u)'
  <2>1. CASE u = t
    BY <1>1, <1>3, <1>4, <1>6, <2>1 DEF Closed, TypesOK
  <2>2. CASE u # t
    BY <1>1, <1>6, <2>2 DEF Closed, TypesOK
  <2>3. QED
    BY <2>1, <2>2
<1>7. ASSUME NEW reason, Finish(t, reason), UNCHANGED request
      PROVE  Closed(u)'
  BY <1>1, <1>7 DEF Closed, Finish, Goto, TypesOK
<1>8. ASSUME NEW leftover, Drained(t, leftover)
      PROVE  Closed(u)'
  <2>1. /\ request' = [request EXCEPT ![t] = [results |-> leftover, texts |-> inbox[t]]]
        /\ pc' = [pc EXCEPT ![t] = "assembling"] /\ bubble' = [bubble EXCEPT ![t] = FALSE]
    BY <1>8 DEF Drained, Goto
  <2>2. CASE u = t
    BY <1>1, <2>1, <2>2 DEF Closed, TypesOK
  <2>3. CASE u # t
    BY <1>1, <2>1, <2>3 DEF Closed, TypesOK
  <2>4. QED
    BY <2>2, <2>3
<1>9. ASSUME NEW message, Send(t, message),
             bubble' = [bubble EXCEPT ![t] = TRUE] \/ (UNCHANGED bubble /\ bubble[t])
      PROVE  Closed(u)'
  <2>1. /\ request' = [request EXCEPT ![t] = NoRequest]
        /\ pc' = [pc EXCEPT ![t] = "streaming"]
    BY <1>9 DEF Send, Goto
  <2>2. CASE u = t
    BY <1>1, <1>4, <1>9, <2>1, <2>2 DEF Closed, TypesOK
  <2>3. CASE u # t
    BY <1>1, <1>9, <2>1, <2>3 DEF Closed, TypesOK
  <2>4. QED
    BY <2>2, <2>3
<1>10. CASE Start(t)
  <2>1. /\ pc[t] = "idle" /\ UNCHANGED request
        /\ pc' = [pc EXCEPT ![t] = "loading"] /\ bubble' = [bubble EXCEPT ![t] = TRUE]
    BY <1>10 DEF Start, Goto
  <2>2. CASE u = t
    BY <1>1, <1>4, <2>1, <2>2 DEF Closed, TypesOK
  <2>3. CASE u # t
    BY <1>1, <2>1, <2>3 DEF Closed, TypesOK
  <2>4. QED
    BY <2>2, <2>3
<1>11. CASE Inject(t) \/ Stop(t)
  BY <1>5, <1>11 DEF Inject, Stop, chat
<1>12. CASE Responds(t)
  BY <1>5, <1>12 DEF Responds, Answer, Decide, chat
<1>13. ASSUME NEW c \in Call, NEW k \in Kinds[c], ReceiveCall(t, c, k)
       PROVE  Closed(u)'
  BY <1>5, <1>13 DEF ReceiveCall
<1>14. CASE StreamEnds(t)
  <2>1. CASE StreamStops(t) \/ StreamCutOff(t) \/ BeginRound(t)
    BY <1>6, <2>1 DEF StreamStops, StreamCutOff, BeginRound, Goto, chat
  <2>2. CASE StreamThrows(t) \/ StreamAsksForNothing(t)
    BY <1>7, <2>2 DEF StreamThrows, StreamAsksForNothing
  <2>3. QED
    BY <1>14, <2>1, <2>2 DEF StreamEnds
<1>15. CASE Harness(t)
  <2>1. CASE Activate(t) \/ NoNudge(t)
    BY <1>6, <2>1 DEF Activate, NoNudge, Goto, chat
  <2>2. CASE Assemble(t)
    BY <1>9, <2>2 DEF Assemble
  <2>3. CASE AssembleFails(t)
    BY <1>7, <2>3 DEF AssembleFails
  <2>4. CASE Nudge(t)
    BY <1>3, <1>9, <2>4 DEF Nudge, Closed, chat
  <2>5. CASE Close(t)
    BY <1>7, <1>8, <2>5 DEF Close
  <2>6. CASE DispatchFreely(t) \/ Ask(t) \/ ConsumeEarly(t) \/ ToolReturns(t)
    BY <1>5, <2>6 DEF DispatchFreely, Ask, ConsumeEarly, ToolReturns, past
  <2>7. CASE EndRound(t)
    <3>1. bubble[t]
      BY <1>3, <2>7 DEF EndRound, Closed
    <3>2. QED
      BY <1>7, <1>8, <1>9, <2>7, <3>1 DEF EndRound
  <2>8. QED
    BY <1>15, <2>1, <2>2, <2>3, <2>4, <2>5, <2>6, <2>7 DEF Harness
<1>16. QED
  BY <1>2, <1>10, <1>11, <1>12, <1>13, <1>14, <1>15

-----------------------------------------------------------------------------
(***************************************************************************)
(* A call of the round has not been dealt with.                            *)
(***************************************************************************)
LEMMA CallAt ==
  ASSUME RoundsOK, NEW t \in Turns, NEW i \in 1..Len(calls[t])
  PROVE  calls[t][i] \in 1..MaxCalls[t]
<1>1. calls[t] \in Seq(1..MaxCalls[t])
  BY DEF RoundsOK, Numbers
<1>2. QED
  BY <1>1, ElementOfSeq

LEMMA InRoundStays ==
  ASSUME RoundsOK, NEW u \in Turns, InRound(u), calls'[u] = calls[u],
         \A c \in Call : c[1] = u => outcome'[c] = outcome[c]
                                     /\ (kind[c] # "none" => kind'[c] # "none")
  PROVE  InRound(u)'
<1>1. ASSUME NEW i \in 1..Len(calls[u])
      PROVE  <<u, calls[u][i]>> \in Call /\ <<u, calls[u][i]>>[1] = u
  <2>1. calls[u][i] \in 1..MaxCalls[u]
    BY CallAt
  <2>2. QED
    BY <2>1, CallOf
<1>2. QED
  BY <1>1 DEF InRound

LEMMA InRoundShrinks ==
  ASSUME RoundsOK, NEW u \in Turns, InRound(u), calls[u] # <<>>, calls'[u] = Tail(calls[u]),
         UNCHANGED kind,
         \A c \in Call : c[1] = u /\ c # First(u) => outcome'[c] = outcome[c]
  PROVE  InRound(u)'
<1>1. PICK n \in Nat : n = Len(Tail(calls[u])) /\ Len(calls[u]) = n + 1
  <2>1. PICK l \in Nat \ {0} : l = Len(calls[u]) /\ Len(Tail(calls[u])) = l - 1
    BY FirstIs
  <2>2. l - 1 \in Nat /\ l = (l - 1) + 1
    BY <2>1
  <2>3. QED
    BY <2>1, <2>2
<1>2. \A i \in 1..n : Tail(calls[u])[i] = calls[u][i + 1]
  BY <1>1, FirstIs
<1>3. \A i \in 1..n : i + 1 \in 1..n + 1 /\ i + 1 # 1
  BY <1>1
<1>4. \A i, j \in 1..n + 1 : calls[u][i] = calls[u][j] => i = j
  BY <1>1 DEF InRound
<1>5. \A i, j \in 1..n : Tail(calls[u])[i] = Tail(calls[u])[j] => i = j
  <2>1. TAKE i, j \in 1..n
  <2>2. i + 1 = j + 1 => i = j
    BY <1>1
  <2>3. QED
    BY <1>2, <1>3, <1>4, <2>2
<1>6. ASSUME NEW i \in 1..n
      PROVE  kind'[<<u, Tail(calls[u])[i]>>] # "none" /\ outcome'[<<u, Tail(calls[u])[i]>>] = "none"
  <2>1. PICK m \in 1..n + 1 : m = i + 1 /\ m # 1
    BY <1>3
  <2>2. Tail(calls[u])[i] = calls[u][m] /\ calls[u][m] \in 1..MaxCalls[u]
    <3>1. m \in 1..Len(calls[u])
      BY <1>1, <2>1
    <3>2. calls[u][m] \in 1..MaxCalls[u]
      BY <3>1, CallAt
    <3>3. QED
      BY <1>2, <2>1, <3>2
  <2>3. <<u, calls[u][m]>> \in Call /\ <<u, calls[u][m]>>[1] = u
    BY <2>2, CallOf
  <2>4. <<u, calls[u][m]>> # First(u)
    <3>1. First(u) = <<u, calls[u][1]>> /\ 1 \in 1..n + 1
      BY <1>1, FirstIs
    <3>2. calls[u][m] # calls[u][1]
      BY <1>4, <2>1, <3>1
    <3>3. QED
      BY <3>1, <3>2
  <2>5. kind[<<u, calls[u][m]>>] # "none" /\ outcome[<<u, calls[u][m]>>] = "none"
    BY <1>1, <2>1 DEF InRound
  <2>6. QED
    BY <2>2, <2>3, <2>4, <2>5
<1>7. QED
  BY <1>1, <1>5, <1>6 DEF InRound

LEMMA InRoundSettled ==
  ASSUME RoundsOK, CallTypesOK, NEW ts \in SUBSET Turns, NEW decision, Settled(ts, decision),
         \A t \in ts : calls[t] # <<>>, UNCHANGED kind, NEW u \in Turns, InRound(u)
  PROVE  InRound(u)'
<1>1. /\ \A t \in Turns \ ts : Same(t)
      /\ \A t \in ts : kind[First(t)] = "guarded" /\ decision = "deny" => Denied(t)
      /\ \A t \in ts : ~(kind[First(t)] = "guarded" /\ decision = "deny") => Runs(t)
  BY SettledIs
<1>2. \A c \in Call : outcome'[c] # outcome[c] =>
        /\ kind[c] = "guarded" /\ decision = "deny" /\ c[1] \in ts /\ c = First(c[1])
  BY OutcomeOfSettled
<1>3. CASE u \in ts /\ kind[First(u)] = "guarded" /\ decision = "deny"
  <2>1. calls'[u] = Tail(calls[u])
    BY <1>1, <1>3 DEF Denied
  <2>2. \A c \in Call : c[1] = u /\ c # First(u) => outcome'[c] = outcome[c]
    BY <1>2
  <2>3. QED
    BY <1>3, <2>1, <2>2, InRoundShrinks
<1>4. CASE ~(u \in ts /\ kind[First(u)] = "guarded" /\ decision = "deny")
  <2>1. calls'[u] = calls[u]
    BY <1>1, <1>4 DEF Runs, Same
  <2>2. \A c \in Call : c[1] = u => outcome'[c] = outcome[c]
    BY <1>2, <1>4
  <2>3. QED
    BY <2>1, <2>2, InRoundStays
<1>5. QED
  BY <1>3, <1>4

LEMMA NotedIs ==
  ASSUME NEW S, NEW s \in Seq(S), NEW n \in S
  PROVE  /\ \A i \in 1..Len(Noted(s, n)) : Noted(s, n)[i] = n \/ \E j \in 1..Len(s) : Noted(s, n)[i] = s[j]
         /\ (\A i, j \in 1..Len(s) : s[i] = s[j] => i = j) =>
              (\A i, j \in 1..Len(Noted(s, n)) : Noted(s, n)[i] = Noted(s, n)[j] => i = j)
<1>1. CASE n \in Range(s)
  BY <1>1 DEF Noted
<1>2. CASE n \notin Range(s)
  <2>1. PICK a : a = Append(s, n)
    OBVIOUS
  <2>2. Noted(s, n) = a
    BY <1>2, <2>1 DEF Noted
  <2>3. /\ Len(s) \in Nat /\ Len(a) = Len(s) + 1 /\ a[Len(s) + 1] = n
        /\ \A i \in 1..Len(s) : a[i] = s[i]
    BY <2>1
  <2>4. \A i \in 1..Len(s) : s[i] # n
    <3>1. DOMAIN s = 1..Len(s)
      OBVIOUS
    <3>2. QED
      BY <1>2, <3>1 DEF Range
  <2>5. \A i \in 1..Len(a) : i \in 1..Len(s) \/ i = Len(s) + 1
    BY <2>3
  <2>6. QED
    BY <2>2, <2>3, <2>4, <2>5
<1>3. QED
  BY <1>1, <1>2

(* A call that comes again, or a new one, has not been dealt with.         *)
LEMMA ReceivedIsNew ==
  ASSUME CInv, NEW t \in Turns, NEW c \in Call, NEW k, ReceiveCall(t, c, k)
  PROVE  outcome[c] = "none"
<1>1. c = <<t, c[2]>> /\ c[2] \in 1..MaxCalls[t]
  BY CallIs DEF ReceiveCall
<1>2. calls[t] \in Seq(Nat)
  BY DEF CInv, RoundsOK
<1>3. CASE c[2] \in Range(calls[t])
  <2>1. PICK i \in 1..Len(calls[t]) : calls[t][i] = c[2]
    BY <1>2, <1>3, LenProperties DEF Range
  <2>2. QED
    BY <1>1, <2>1 DEF CInv, CallsOK, InRound
<1>4. CASE c[2] \notin Range(calls[t])
  <2>1. \A m \in 1..c[2] : kind[<<t, m>>] = "none" <=> m = c[2]
    BY <1>4 DEF ReceiveCall
  <2>2. c[2] \in 1..c[2]
    BY <1>1, ChatAssumption
  <2>3. kind[c] = "none"
    BY <1>1, <2>1, <2>2
  <2>4. QED
    BY <2>3 DEF CInv, RowsOK, Decided
<1>5. QED
  BY <1>3, <1>4

LEMMA CallsStep ==
  ASSUME CInv, Next
  PROVE  CallsOK'
<1> SUFFICES ASSUME NEW u \in Turns PROVE InRound(u)'
  BY DEF CallsOK
<1>1. RoundsOK /\ CallTypesOK /\ InRound(u)
  BY DEF CInv, CallsOK
<1>2. PICK t \in Turns :
        \/ Start(t) \/ Inject(t) \/ Stop(t) \/ Responds(t)
        \/ \E c \in Call : \E k \in Kinds[c] : ReceiveCall(t, c, k)
        \/ StreamEnds(t) \/ Harness(t)
  BY DEF Next
<1>3. ASSUME UNCHANGED <<calls, kind, outcome>>
      PROVE  InRound(u)'
  BY <1>1, <1>3 DEF InRound
<1>4. ASSUME NEW ts \in SUBSET Turns, NEW decision, Settled(ts, decision),
             \A v \in ts : calls[v] # <<>>, UNCHANGED kind
      PROVE  InRound(u)'
  BY <1>1, <1>4, InRoundSettled
(* The calls of an answer that is cut off are forgotten.                   *)
<1>5. ASSUME Drop(t), UNCHANGED <<kind, outcome>>
      PROVE  InRound(u)'
  <2>1. calls' = [calls EXCEPT ![t] = <<>>]
    BY <1>5 DEF Drop
  <2>2. CASE u = t
    BY <1>1, <2>1, <2>2 DEF InRound, RoundsOK
  <2>3. CASE u # t
    BY <1>1, <1>5, <2>1, <2>3 DEF InRound, RoundsOK
  <2>4. QED
    BY <2>2, <2>3
<1>6. CASE Start(t)
  <2>1. PICK ts \in SUBSET Turns : Settled(ts, "deny") /\ \A v \in ts : calls[v] # <<>>
    BY <1>6, StartSettles
  <2>2. UNCHANGED kind
    BY <1>6 DEF Start
  <2>3. QED
    BY <1>4, <2>1, <2>2
<1>7. CASE Inject(t)
  BY <1>3, <1>7 DEF Inject, past
<1>8. CASE Stop(t)
  <2>1. PICK ts \in SUBSET Turns : Settled(ts, "deny") /\ \A v \in ts : calls[v] # <<>>
    BY <1>8, StopSettles
  <2>2. UNCHANGED kind
    BY <1>8 DEF Stop
  <2>3. QED
    BY <1>4, <2>1, <2>2
<1>9. CASE Responds(t)
  <2>1. PICK c \in Call : c[1] = t /\ (Answer(c) \/ \E d \in {"allow", "deny", "always"} : Decide(c, d))
    BY <1>9 DEF Responds
  <2>2. c \in pending => calls[t] # <<>>
    BY <1>1, <2>1, AskingIs
  <2>3. CASE Answer(c)
    <3>1. Settled({t}, "allow") /\ c \in pending /\ UNCHANGED kind
      BY <2>1, <2>3 DEF Answer
    <3>2. QED
      BY <1>4, <2>2, <3>1
  <2>4. ASSUME NEW d, Decide(c, d)
        PROVE  InRound(u)'
    <3>1. UNCHANGED kind
      BY <2>4 DEF Decide
    <3>2. CASE c \in pending
      <4>1. PICK said : said = verdict'[c]
        OBVIOUS
      <4>2. Settled({t}, said)
        BY <2>1, <2>4, <3>2, <4>1 DEF Decide
      <4>3. QED
        BY <1>4, <2>2, <3>1, <3>2, <4>2
    <3>3. CASE c \notin pending
      BY <1>3, <2>4, <3>1, <3>3 DEF Decide
    <3>4. QED
      BY <3>2, <3>3
  <2>5. QED
    BY <2>1, <2>3, <2>4
<1>10. ASSUME NEW c \in Call, NEW k \in Kinds[c], ReceiveCall(t, c, k)
       PROVE  InRound(u)'
  <2>1. c = <<t, c[2]>> /\ c[2] \in 1..MaxCalls[t] /\ k # "none"
    BY <1>10, CallIs, ChatAssumption DEF ReceiveCall, Kind
  <2>2. /\ kind' = [kind EXCEPT ![c] = k] /\ UNCHANGED outcome
        /\ calls' = [calls EXCEPT ![t] = Noted(calls[t], c[2])]
    BY <1>1, <1>10 DEF ReceiveCall, past, RoundsOK
  <2>3. \A e \in Call : outcome'[e] = outcome[e] /\ (kind[e] # "none" => kind'[e] # "none")
    BY <1>1, <2>1, <2>2 DEF CallTypesOK
  <2>4. CASE u # t
    <3>1. calls'[u] = calls[u]
      BY <1>1, <2>2, <2>4 DEF RoundsOK
    <3>2. QED
      BY <1>1, <2>3, <3>1, InRoundStays
  <2>5. CASE u = t
    <3>1. calls[t] \in Seq(1..MaxCalls[t]) /\ calls'[t] = Noted(calls[t], c[2])
      BY <1>1, <2>2 DEF RoundsOK, Numbers
    <3>2. \A i, j \in 1..Len(calls[t]) : calls[t][i] = calls[t][j] => i = j
      BY <1>1, <2>5 DEF InRound
    <3>3. /\ \A i \in 1..Len(calls'[t]) : calls'[t][i] = c[2] \/ \E j \in 1..Len(calls[t]) : calls'[t][i] = calls[t][j]
          /\ \A i, j \in 1..Len(calls'[t]) : calls'[t][i] = calls'[t][j] => i = j
      <4>1. c[2] \in 1..MaxCalls[t]
        BY <2>1
      <4>2. /\ \A i \in 1..Len(Noted(calls[t], c[2])) :
                 \/ Noted(calls[t], c[2])[i] = c[2]
                 \/ \E j \in 1..Len(calls[t]) : Noted(calls[t], c[2])[i] = calls[t][j]
            /\ \A i, j \in 1..Len(Noted(calls[t], c[2])) :
                 Noted(calls[t], c[2])[i] = Noted(calls[t], c[2])[j] => i = j
        BY <3>1, <3>2, <4>1, NotedIs
      <4>3. QED
        BY <3>1, <4>2
    <3>4. outcome'[c] = "none" /\ kind'[c] # "none"
      BY <1>1, <1>10, <2>1, <2>2, ReceivedIsNew DEF CallTypesOK
    <3>5. ASSUME NEW i \in 1..Len(calls'[t])
          PROVE  kind'[<<t, calls'[t][i]>>] # "none" /\ outcome'[<<t, calls'[t][i]>>] = "none"
      <4>1. CASE calls'[t][i] = c[2]
        BY <2>1, <3>4, <4>1
      <4>2. ASSUME NEW j \in 1..Len(calls[t]), calls'[t][i] = calls[t][j]
            PROVE  kind'[<<t, calls'[t][i]>>] # "none" /\ outcome'[<<t, calls'[t][i]>>] = "none"
        <5>1. calls[t][j] \in 1..MaxCalls[t]
          BY <1>1, CallAt
        <5>2. <<t, calls[t][j]>> \in Call
          BY <5>1, CallOf
        <5>3. kind[<<t, calls[t][j]>>] # "none" /\ outcome[<<t, calls[t][j]>>] = "none"
          BY <1>1, <2>5 DEF InRound
        <5>4. QED
          BY <2>3, <4>2, <5>2, <5>3
      <4>3. QED
        BY <3>3, <4>1, <4>2
    <3>6. QED
      BY <2>5, <3>3, <3>5 DEF InRound
  <2>6. QED
    BY <2>4, <2>5
<1>11. CASE StreamEnds(t)
  BY <1>3, <1>5, <1>11 DEF StreamEnds, StreamStops, StreamCutOff, StreamThrows,
                           StreamAsksForNothing, BeginRound, past
<1>12. CASE Harness(t)
  <2>1. CASE \/ Activate(t) \/ Assemble(t) \/ AssembleFails(t) \/ Nudge(t) \/ NoNudge(t)
             \/ Close(t) \/ EndRound(t) \/ DispatchFreely(t) \/ Ask(t)
    BY <1>3, <2>1 DEF Activate, Assemble, AssembleFails, Nudge, NoNudge, Close, EndRound,
                      DispatchFreely, Ask, past
  <2>2. CASE ConsumeEarly(t)
    <3>1. PICK said : said = early[First(t)]
      OBVIOUS
    <3>2. Settled({t}, said) /\ calls[t] # <<>> /\ UNCHANGED kind
      BY <2>2, <3>1 DEF ConsumeEarly
    <3>3. QED
      BY <1>4, <3>2
  <2>3. CASE ToolReturns(t)
    <3>1. /\ calls' = [calls EXCEPT ![t] = Tail(calls[t])] /\ calls[t] # <<>>
          /\ outcome' = [outcome EXCEPT ![First(t)] = "ran"] /\ UNCHANGED kind
      BY <1>1, <2>3 DEF ToolReturns, RoundsOK
    <3>2. First(t) \in Call /\ First(t)[1] = t
      BY <1>1, <3>1, FirstIs
    <3>3. \A c \in Call : c # First(t) => outcome'[c] = outcome[c]
      BY <1>1, <3>1 DEF CallTypesOK
    <3>4. CASE u = t
      <4>1. calls'[t] = Tail(calls[t])
        BY <1>1, <3>1 DEF RoundsOK
      <4>2. QED
        BY <1>1, <3>1, <3>3, <3>4, <4>1, InRoundShrinks
    <3>5. CASE u # t
      <4>1. calls'[u] = calls[u] /\ \A c \in Call : c[1] = u => outcome'[c] = outcome[c]
        BY <1>1, <3>1, <3>2, <3>3, <3>5 DEF RoundsOK
      <4>2. QED
        BY <1>1, <3>1, <4>1, InRoundStays
    <3>6. QED
      BY <3>4, <3>5
  <2>4. QED
    BY <1>12, <2>1, <2>2, <2>3 DEF Harness
<1>13. QED
  BY <1>2, <1>6, <1>7, <1>8, <1>9, <1>10, <1>11, <1>12

-----------------------------------------------------------------------------
(***************************************************************************)
(* What is decided does not wait, and only guarded calls are decided.      *)
(***************************************************************************)
(* What a step with a decision of the user leaves to show of a call.       *)
LEMMA DecidedStays ==
  ASSUME NEW c, Decided(c), UNCHANGED kind, outcome'[c] = outcome[c], verdict'[c] = verdict[c],
         row'[c] = "approval" => row[c] = "approval", early'[c] \in {"none", early[c]}
  PROVE  Decided(c)'
BY DEF Decided

LEMMA DecidedDenied ==
  ASSUME NEW c, Decided(c), UNCHANGED kind, kind[c] = "guarded", row'[c] # "approval",
         early'[c] \in {"none", verdict'[c]}
  PROVE  Decided(c)'
BY DEF Decided

LEMMA RowsStep ==
  ASSUME CInv, Next
  PROVE  RowsOK'
<1> SUFFICES ASSUME NEW e \in Call PROVE Decided(e)'
  BY DEF RowsOK
<1>1. RoundsOK /\ CallTypesOK /\ Decided(e)
  BY DEF CInv, RowsOK
<1>2. PICK t \in Turns :
        \/ Start(t) \/ Inject(t) \/ Stop(t) \/ Responds(t)
        \/ \E c \in Call : \E k \in Kinds[c] : ReceiveCall(t, c, k)
        \/ StreamEnds(t) \/ Harness(t)
  BY DEF Next
<1>3. ASSUME UNCHANGED <<kind, row, outcome, early, verdict>>
      PROVE  Decided(e)'
  BY <1>1, <1>3 DEF Decided
(* A call that is denied is guarded, and was the first of a turn.          *)
<1>4. ASSUME NEW ts \in SUBSET Turns, NEW decision, Settled(ts, decision),
             \A v \in ts : calls[v] # <<>>
      PROVE  outcome'[e] # outcome[e] =>
               kind[e] = "guarded" /\ decision = "deny" /\ e[1] \in ts /\ e = First(e[1])
  <2>1. \A c \in Call : outcome'[c] # outcome[c] =>
          /\ outcome'[c] = "denied" /\ kind[c] = "guarded" /\ decision = "deny"
          /\ c[1] \in ts /\ c = First(c[1])
    BY <1>1, <1>4, OutcomeOfSettled
  <2>2. QED
    BY <2>1
(* The calls of some turns are stopped.                                    *)
<1>5. ASSUME NEW ts \in SUBSET Turns, NEW us, Settled(ts, "deny"), \A v \in ts : calls[v] # <<>>,
             ts \subseteq us, UNCHANGED <<kind, verdict>>, early'[e] \in {"none", early[e]},
             row' = [c \in Call |-> IF c[1] \in us THEN Stopped(row[c]) ELSE row[c]]
      PROVE  Decided(e)'
  <2>1. CASE outcome'[e] = outcome[e]
    <3>1. row'[e] = "approval" => row[e] = "approval"
      BY <1>5 DEF Stopped
    <3>2. QED
      BY <1>1, <1>5, <2>1, <3>1, DecidedStays
  <2>2. CASE outcome'[e] # outcome[e]
    <3>1. kind[e] = "guarded" /\ e[1] \in us
      BY <1>4, <1>5, <2>2
    <3>2. row'[e] # "approval"
      BY <1>5, <3>1 DEF Stopped
    <3>3. early'[e] \in {"none", verdict'[e]}
      BY <1>1, <1>5 DEF Decided
    <3>4. QED
      BY <1>1, <1>5, <3>1, <3>2, <3>3, DecidedDenied
  <2>3. QED
    BY <2>1, <2>2
<1>6. CASE Start(t)
  <2>1. PICK ts \in SUBSET Turns :
          /\ Settled(ts, "deny") /\ ts = {u \in Conversing(t) : step[u] = "asked"}
          /\ \A v \in ts : calls[v] # <<>>
    BY <1>6, StartSettles
  <2>2. /\ UNCHANGED <<kind, verdict>>
        /\ early' = [c \in Call |-> IF c[1] \in Conversing(t) THEN "none" ELSE early[c]]
        /\ row' = [c \in Call |-> IF c[1] \in Conversing(t) THEN Stopped(row[c]) ELSE row[c]]
    BY <1>6 DEF Start
  <2>3. QED
    BY <1>5, <2>1, <2>2
<1>7. CASE Inject(t)
  BY <1>3, <1>7 DEF Inject, past, waiting, chat
<1>8. CASE Stop(t)
  <2>1. PICK ts \in SUBSET Turns :
          /\ Settled(ts, "deny") /\ ts = {u \in {t} : step[u] = "asked"}
          /\ \A v \in ts : calls[v] # <<>>
    BY <1>8, StopSettles
  <2>2. /\ UNCHANGED <<kind, verdict>> /\ early'[e] \in {"none", early[e]}
        /\ row' = [c \in Call |-> IF c[1] \in {t} THEN Stopped(row[c]) ELSE row[c]]
    BY <1>8 DEF Stop
  <2>3. QED
    BY <1>5, <2>1, <2>2
<1>9. CASE Responds(t)
  <2>1. PICK c \in Call : c[1] = t /\ (Answer(c) \/ \E d \in {"allow", "deny", "always"} : Decide(c, d))
    BY <1>9 DEF Responds
  <2>2. c \in pending => calls[t] # <<>> /\ step[t] = "asked" /\ c = First(t)
    BY <1>1, <2>1, AskingIs
  <2>3. CASE Answer(c)
    <3>1. Settled({t}, "allow") /\ c \in pending /\ UNCHANGED <<kind, row, early, verdict>>
      BY <2>1, <2>3 DEF Answer, chat
    <3>2. outcome'[e] = outcome[e]
      BY <1>4, <2>2, <3>1
    <3>3. QED
      BY <1>1, <3>1, <3>2, DecidedStays
  <2>4. ASSUME NEW d \in {"allow", "deny", "always"}, Decide(c, d)
        PROVE  Decided(e)'
    <3>1. PICK said : said = IF d = "deny" THEN "deny" ELSE "allow"
      OBVIOUS
    <3>2. UNCHANGED kind /\ verdict' = [verdict EXCEPT ![c] = said] /\ verdict'[c] = said
      BY <1>1, <2>4, <3>1 DEF Decide, CallTypesOK
    <3>3. row[c] = "approval" /\ kind[c] = "guarded"
      BY <2>4 DEF Decide, Shown, CInv, RowsOK, Decided
    <3>4. CASE c \in pending
      <4>1. /\ Settled({t}, said) /\ UNCHANGED early
            /\ row' = [row EXCEPT ![c] = IF d = "deny" THEN "error" ELSE "running"]
        BY <2>1, <2>4, <3>2, <3>4 DEF Decide
      <4>2. outcome'[e] # outcome[e] => e = c
        <5>1. outcome'[e] # outcome[e] => e[1] = t /\ e = First(e[1])
          <6>1. Settled({t}, said) /\ {t} \in SUBSET Turns /\ \A v \in {t} : calls[v] # <<>>
            BY <2>2, <3>4, <4>1
          <6>2. outcome'[e] # outcome[e] => e[1] \in {t} /\ e = First(e[1])
            BY <1>4, <6>1, Zenon
          <6>3. QED
            BY <6>2
        <5>2. QED
          BY <2>2, <3>4, <5>1
      <4>3. CASE e = c
        <5>1. row'[c] # "approval"
          BY <1>1, <4>1 DEF CallTypesOK
        <5>2. early'[c] = "none"
          BY <2>2, <3>4, <4>1 DEF CInv, FirstsOK, Allowed
        <5>3. QED
          BY <1>1, <3>2, <3>3, <4>3, <5>1, <5>2, DecidedDenied
      <4>4. CASE e # c
        <5>1. row'[e] = row[e] /\ verdict'[e] = verdict[e] /\ outcome'[e] = outcome[e] /\ early'[e] = early[e]
          BY <1>1, <3>2, <4>1, <4>2, <4>4 DEF CallTypesOK
        <5>2. QED
          BY <1>1, <3>2, <5>1, DecidedStays
      <4>5. QED
        BY <4>3, <4>4
    <3>5. CASE c \notin pending
      <4>1. early' = [early EXCEPT ![c] = said] /\ UNCHANGED <<row, outcome>>
        BY <2>4, <3>2, <3>5 DEF Decide
      <4>2. CASE e = c
        BY <1>1, <3>2, <3>3, <4>1, <4>2 DEF Decided, CallTypesOK
      <4>3. CASE e # c
        <5>1. verdict'[e] = verdict[e] /\ early'[e] = early[e]
          BY <1>1, <3>2, <4>1, <4>3 DEF CallTypesOK
        <5>2. QED
          BY <1>1, <3>2, <4>1, <5>1, DecidedStays
      <4>4. QED
        BY <4>2, <4>3
    <3>6. QED
      BY <3>4, <3>5
  <2>5. QED
    BY <2>1, <2>3, <2>4
<1>10. ASSUME NEW c \in Call, NEW k \in Kinds[c], ReceiveCall(t, c, k)
       PROVE  Decided(e)'
  <2>1. /\ kind' = [kind EXCEPT ![c] = k] /\ UNCHANGED <<outcome, early, verdict>>
        /\ row' = [row EXCEPT ![c] = IF k = "guarded" /\ setting = "ask" THEN "approval" ELSE "running"]
        /\ kind[c] \in {"none", k}
    BY <1>10 DEF ReceiveCall, past, waiting
  <2>2. outcome[c] = "none"
    BY <1>10, ReceivedIsNew
  <2>3. CASE e = c
    <3>1. row'[c] = "approval" => kind'[c] = "guarded"
      BY <1>1, <2>1 DEF CallTypesOK
    <3>2. early[c] # "none" => kind'[c] = "guarded" /\ verdict[c] = early[c]
      BY <1>1, <2>1, <2>3 DEF Decided, CallTypesOK
    <3>3. QED
      BY <2>1, <2>2, <2>3, <3>1, <3>2 DEF Decided
  <2>4. CASE e # c
    <3>1. kind'[e] = kind[e] /\ row'[e] = row[e]
      BY <1>1, <2>1, <2>4 DEF CallTypesOK
    <3>2. QED
      BY <1>1, <2>1, <3>1 DEF Decided
  <2>5. QED
    BY <2>3, <2>4
<1>11. CASE StreamEnds(t)
  BY <1>3, <1>11 DEF StreamEnds, StreamStops, StreamCutOff, StreamThrows,
                     StreamAsksForNothing, BeginRound, past, waiting, chat
<1>12. CASE Harness(t)
  <2>1. CASE \/ Activate(t) \/ Assemble(t) \/ AssembleFails(t) \/ Nudge(t) \/ NoNudge(t)
             \/ Close(t) \/ EndRound(t)
    BY <1>3, <2>1 DEF Activate, Assemble, AssembleFails, Nudge, NoNudge, Close, EndRound,
                      past, waiting, chat
  <2>2. calls[t] # <<>> =>
          First(t) \in Call /\ kind[First(t)] # "none" /\ outcome[First(t)] = "none"
    <3>1. ASSUME calls[t] # <<>>
          PROVE  First(t) \in Call /\ First(t) = <<t, calls[t][1]>> /\ 1 \in 1..Len(calls[t])
      BY <1>1, <3>1, FirstIs
    <3>2. QED
      BY <3>1 DEF CInv, CallsOK, InRound
  <2>3. CASE DispatchFreely(t)
    <3>1. /\ UNCHANGED <<kind, outcome, early, verdict>>
          /\ row' = [row EXCEPT ![First(t)] = "running"]
      BY <2>3 DEF DispatchFreely, past, waiting
    <3>2. row'[e] = "approval" => row[e] = "approval"
      BY <1>1, <3>1 DEF CallTypesOK
    <3>3. QED
      BY <1>1, <3>1, <3>2, DecidedStays
  <2>4. CASE Ask(t)
    <3>1. PICK c \in Call : c = First(t) /\ outcome[c] = "none"
      BY <2>2, <2>4 DEF Ask
    <3>2. /\ UNCHANGED <<kind, outcome, early, verdict>>
          /\ row' = [row EXCEPT ![c] = IF kind[c] = "question" THEN "running" ELSE "approval"]
          /\ kind[c] = "question" \/ kind[c] = "guarded"
      BY <2>4, <3>1 DEF Ask, past, Permission
    <3>3. CASE e = c
      <4>1. row'[c] = "approval" => kind[c] = "guarded"
        BY <1>1, <3>2 DEF CallTypesOK
      <4>2. QED
        BY <1>1, <3>1, <3>2, <3>3, <4>1 DEF Decided
    <3>4. CASE e # c
      <4>1. row'[e] = row[e]
        BY <1>1, <3>2, <3>4 DEF CallTypesOK
      <4>2. QED
        BY <1>1, <3>2, <4>1 DEF Decided
    <3>5. QED
      BY <3>3, <3>4
  <2>5. CASE ConsumeEarly(t)
    <3>1. PICK said, c : said = early[First(t)] /\ c = First(t)
      OBVIOUS
    <3>2. /\ Settled({t}, said) /\ calls[t] # <<>> /\ UNCHANGED <<kind, verdict>> /\ c \in Call
          /\ early' = [early EXCEPT ![c] = "none"]
          /\ row' = [row EXCEPT ![c] = IF said = "deny" THEN "error" ELSE "running"]
      BY <2>2, <2>5, <3>1 DEF ConsumeEarly
    <3>3. outcome'[e] # outcome[e] => kind[e] = "guarded" /\ e = c
      <4>1. outcome'[e] # outcome[e] => kind[e] = "guarded" /\ e[1] = t /\ e = First(e[1])
        <5>1. Settled({t}, said) /\ {t} \in SUBSET Turns /\ \A v \in {t} : calls[v] # <<>>
          BY <3>2
        <5>2. outcome'[e] # outcome[e] => kind[e] = "guarded" /\ e[1] \in {t} /\ e = First(e[1])
          BY <1>4, <5>1, Zenon
        <5>3. QED
          BY <5>2
      <4>2. QED
        BY <3>1, <4>1
    <3>4. row'[c] # "approval" /\ early'[c] = "none"
      BY <1>1, <3>2 DEF CallTypesOK
    <3>5. CASE e = c
      <4>1. CASE outcome'[e] = outcome[e]
        BY <1>1, <3>2, <3>4, <3>5, <4>1, DecidedStays
      <4>2. CASE outcome'[e] # outcome[e]
        BY <1>1, <3>2, <3>3, <3>4, <3>5, <4>2, DecidedDenied
      <4>3. QED
        BY <4>1, <4>2
    <3>6. CASE e # c
      <4>1. row'[e] = row[e] /\ early'[e] = early[e] /\ outcome'[e] = outcome[e]
        BY <1>1, <3>2, <3>3, <3>6 DEF CallTypesOK
      <4>2. QED
        BY <1>1, <3>2, <4>1, DecidedStays
    <3>7. QED
      BY <3>5, <3>6
  <2>6. CASE ToolReturns(t)
    <3>1. PICK c \in Call : c = First(t) /\ kind[c] # "none"
      BY <1>1, <2>2, <2>6 DEF ToolReturns, RoundsOK
    <3>2. /\ UNCHANGED <<kind, early, verdict>> /\ row' = [row EXCEPT ![c] = "done"]
          /\ outcome' = [outcome EXCEPT ![c] = "ran"]
      BY <2>6, <3>1 DEF ToolReturns, waiting
    <3>3. CASE e = c
      <4>1. row'[c] = "done"
        BY <1>1, <3>2 DEF CallTypesOK
      <4>2. QED
        BY <1>1, <3>1, <3>2, <3>3, <4>1 DEF Decided
    <3>4. CASE e # c
      <4>1. row'[e] = row[e] /\ outcome'[e] = outcome[e]
        BY <1>1, <3>2, <3>4 DEF CallTypesOK
      <4>2. QED
        BY <1>1, <3>2, <4>1 DEF Decided
    <3>5. QED
      BY <3>3, <3>4
  <2>7. QED
    BY <1>12, <2>1, <2>3, <2>4, <2>5, <2>6 DEF Harness
<1>13. QED
  BY <1>2, <1>6, <1>7, <1>8, <1>9, <1>10, <1>11, <1>12

-----------------------------------------------------------------------------
(***************************************************************************)
(* What runs was allowed; what waits was not decided.                      *)
(***************************************************************************)
(* A step that leaves a turn's first call as it was.                       *)
LEMMA AllowedStays ==
  ASSUME NEW t, Allowed(t), step'[t] = step[t], step[t] # "ready" => calls'[t] = calls[t],
         UNCHANGED kind, setting = "always" => setting' = "always",
         step[t] = "asked" => early'[First(t)] \in {"none", early[First(t)]},
         step[t] = "running" /\ kind[First(t)] = "guarded" =>
           /\ row'[First(t)] = "approval" => row[First(t)] = "approval"
           /\ verdict'[First(t)] = verdict[First(t)]
  PROVE  Allowed(t)'
<1>1. step[t] # "ready" => First(t)' = First(t)
  BY DEF First
<1>2. QED
  BY <1>1 DEF Allowed

(* A turn whose first call is settled.                                     *)
LEMMA AllowedSettled ==
  ASSUME NEW t, NEW decision, UNCHANGED kind, Denied(t) \/ Runs(t),
         kind[First(t)] = "guarded" /\ decision = "deny" => Denied(t),
         kind[First(t)] = "guarded" /\ decision # "deny" =>
           row'[First(t)] # "approval" /\ (verdict'[First(t)] = "allow" \/ setting' = "always")
  PROVE  Allowed(t)'
<1>1. CASE Denied(t)
  BY <1>1 DEF Denied, Allowed
<1>2. CASE Runs(t)
  <2>1. step'[t] = "running" /\ First(t)' = First(t)
    BY <1>2 DEF Runs, First
  <2>2. kind[First(t)] = "guarded" => decision # "deny"
    BY <2>1 DEF Denied
  <2>3. QED
    BY <2>1, <2>2 DEF Allowed
<1>3. QED
  BY <1>1, <1>2

LEMMA FirstsStep ==
  ASSUME CInv, Next
  PROVE  FirstsOK'
<1> SUFFICES ASSUME NEW u \in Turns PROVE Allowed(u)'
  BY DEF FirstsOK
<1>1. RoundsOK /\ CallTypesOK /\ TypesOK /\ Allowed(u)
  BY DEF CInv, FirstsOK
<1>2. PICK t \in Turns :
        \/ Start(t) \/ Inject(t) \/ Stop(t) \/ Responds(t)
        \/ \E c \in Call : \E k \in Kinds[c] : ReceiveCall(t, c, k)
        \/ StreamEnds(t) \/ Harness(t)
  BY DEF Next
<1>3. ASSUME UNCHANGED <<step, kind, row, early, verdict, setting>>,
             step[u] # "ready" => calls'[u] = calls[u]
      PROVE  Allowed(u)'
  BY <1>1, <1>3, AllowedStays
<1>4. step[u] # "ready" => pc[u] = "tools" /\ calls[u] # <<>> /\ First(u) \in Call
  BY <1>1, FirstIs DEF RoundsOK
<1>5. ASSUME NEW ts \in SUBSET Turns, NEW decision, Settled(ts, decision),
             \A v \in ts : calls[v] # <<>>
      PROVE  /\ u \notin ts => Same(u)
             /\ u \in ts => Denied(u) \/ Runs(u)
             /\ u \in ts => (kind[First(u)] = "guarded" /\ decision = "deny" => Denied(u))
  BY <1>1, <1>5, SettledIs
(* The calls of some turns are stopped.                                    *)
<1>6. ASSUME NEW ts \in SUBSET Turns, NEW us, Settled(ts, "deny"), \A v \in ts : calls[v] # <<>>,
             ts = {v \in us : step[v] = "asked"}, UNCHANGED <<kind, verdict, setting>>,
             \A c \in Call : early'[c] \in {"none", early[c]},
             row' = [c \in Call |-> IF c[1] \in us THEN Stopped(row[c]) ELSE row[c]]
      PROVE  Allowed(u)'
  <2>1. CASE u \in ts
    <3>1. (Denied(u) \/ Runs(u)) /\ (kind[First(u)] = "guarded" => Denied(u))
      BY <1>5, <1>6, <2>1
    <3>2. QED
      BY <1>6, <3>1, AllowedSettled
  <2>2. CASE u \notin ts
    <3>1. Same(u)
      BY <1>5, <1>6, <2>2
    <3>2. \A c \in Call : row'[c] = "approval" => row[c] = "approval"
      BY <1>6 DEF Stopped
    <3>3. QED
      BY <1>1, <1>4, <1>6, <3>1, <3>2, AllowedStays DEF Same
  <2>3. QED
    BY <2>1, <2>2
<1>7. CASE Start(t)
  <2>1. PICK ts \in SUBSET Turns :
          /\ Settled(ts, "deny") /\ ts = {v \in Conversing(t) : step[v] = "asked"}
          /\ \A v \in ts : calls[v] # <<>>
    BY <1>7, StartSettles
  <2>2. /\ UNCHANGED <<kind, verdict, setting>>
        /\ early' = [c \in Call |-> IF c[1] \in Conversing(t) THEN "none" ELSE early[c]]
        /\ row' = [c \in Call |-> IF c[1] \in Conversing(t) THEN Stopped(row[c]) ELSE row[c]]
    BY <1>7 DEF Start
  <2>3. \A c \in Call : early'[c] \in {"none", early[c]}
    BY <2>2
  <2>4. QED
    BY <1>6, <2>1, <2>2, <2>3
<1>8. CASE Inject(t)
  BY <1>3, <1>8 DEF Inject, past, waiting, chat
<1>9. CASE Stop(t)
  <2>1. PICK ts \in SUBSET Turns :
          /\ Settled(ts, "deny") /\ ts = {v \in {t} : step[v] = "asked"}
          /\ \A v \in ts : calls[v] # <<>>
    BY <1>9, StopSettles
  <2>2. /\ UNCHANGED <<kind, verdict, setting>> /\ \A c \in Call : early'[c] \in {"none", early[c]}
        /\ row' = [c \in Call |-> IF c[1] \in {t} THEN Stopped(row[c]) ELSE row[c]]
    BY <1>9 DEF Stop
  <2>3. QED
    BY <1>6, <2>1, <2>2
<1>10. CASE Responds(t)
  <2>1. PICK c \in Call : c[1] = t /\ (Answer(c) \/ \E d \in {"allow", "deny", "always"} : Decide(c, d))
    BY <1>10 DEF Responds
  <2>2. c \in pending => calls[t] # <<>> /\ step[t] = "asked" /\ c = First(t)
    BY <1>1, <2>1, AskingIs
  <2>3. u # t => First(u) # c
    BY <2>1 DEF First
  <2>4. CASE Answer(c)
    <3>1. /\ Settled({t}, "allow") /\ c \in pending /\ UNCHANGED <<kind, row, early, verdict, setting>>
          /\ kind[c] = "question"
      BY <2>1, <2>4 DEF Answer, chat
    <3>2. {t} \in SUBSET Turns /\ \A v \in {t} : calls[v] # <<>>
      BY <2>2, <3>1
    <3>3. CASE u = t
      <4>1. Denied(u) \/ Runs(u)
        BY <1>5, <3>1, <3>2, <3>3
      <4>2. kind[First(u)] = "question"
        BY <2>2, <3>1, <3>3
      <4>3. QED
        BY <3>1, <4>1, <4>2, AllowedSettled
    <3>4. CASE u # t
      <4>1. Same(u)
        BY <1>5, <3>1, <3>2, <3>4
      <4>2. QED
        BY <1>1, <3>1, <4>1, AllowedStays DEF Same
    <3>5. QED
      BY <3>3, <3>4
  <2>5. ASSUME NEW d \in {"allow", "deny", "always"}, Decide(c, d)
        PROVE  Allowed(u)'
    <3>1. PICK said : said = IF d = "deny" THEN "deny" ELSE "allow"
      OBVIOUS
    <3>2. /\ UNCHANGED kind /\ verdict' = [verdict EXCEPT ![c] = said] /\ verdict'[c] = said
          /\ setting' = IF d = "always" THEN "always" ELSE setting
      BY <1>1, <2>5, <3>1 DEF Decide, CallTypesOK
    <3>3. row[c] = "approval"
      BY <2>5 DEF Decide, Shown
    <3>4. CASE c \in pending
      <4>1. /\ Settled({t}, said) /\ UNCHANGED early
            /\ row' = [row EXCEPT ![c] = IF d = "deny" THEN "error" ELSE "running"]
        BY <2>1, <2>5, <3>2, <3>4 DEF Decide
      <4>2. {t} \in SUBSET Turns /\ \A v \in {t} : calls[v] # <<>>
        BY <2>2, <3>4
      <4>3. CASE u = t
        <5>1. Denied(u) \/ Runs(u)
          BY <1>5, <4>1, <4>2, <4>3
        <5>2. kind[First(u)] = "guarded" /\ said = "deny" => Denied(u)
          BY <1>5, <4>1, <4>2, <4>3
        <5>3. row'[First(u)] # "approval" /\ verdict'[First(u)] = said
          BY <1>1, <2>2, <3>2, <3>4, <4>1, <4>3 DEF CallTypesOK
        <5>4. said # "deny" => said = "allow"
          BY <3>1
        <5>5. QED
          BY <3>2, <5>1, <5>2, <5>3, <5>4, AllowedSettled
      <4>4. CASE u # t
        <5>1. Same(u)
          BY <1>5, <4>1, <4>2, <4>4
        <5>2. step[u] # "ready" => row'[First(u)] = row[First(u)] /\ verdict'[First(u)] = verdict[First(u)]
          BY <1>1, <1>4, <2>3, <3>2, <4>1, <4>4 DEF CallTypesOK
        <5>3. setting = "always" => setting' = "always"
          BY <3>2
        <5>4. QED
          BY <1>1, <3>2, <4>1, <5>1, <5>2, <5>3, AllowedStays DEF Same
      <4>5. QED
        BY <4>3, <4>4
    <3>5. CASE c \notin pending
      <4>1. early' = [early EXCEPT ![c] = said] /\ UNCHANGED <<step, calls, row>>
        BY <2>5, <3>2, <3>5 DEF Decide
      <4>2. step[u] = "asked" => First(u) # c
        <5>1. step[u] = "asked" => First(u) \in pending
          BY <1>1 DEF RoundsOK
        <5>2. QED
          BY <3>5, <5>1
      <4>3. step[u] = "asked" => early'[First(u)] = early[First(u)]
        BY <1>1, <1>4, <4>1, <4>2 DEF CallTypesOK
      <4>4. step[u] = "running" /\ kind[First(u)] = "guarded" => verdict'[First(u)] = verdict[First(u)]
        <5>1. step[u] = "running" /\ kind[First(u)] = "guarded" => First(u) # c
          BY <1>1, <3>3 DEF Allowed
        <5>2. QED
          BY <1>1, <1>4, <3>2, <5>1 DEF CallTypesOK
      <4>5. setting = "always" => setting' = "always"
        BY <3>2
      <4>6. QED
        BY <1>1, <3>2, <4>1, <4>3, <4>4, <4>5, AllowedStays
    <3>6. QED
      BY <3>4, <3>5
  <2>6. QED
    BY <2>1, <2>4, <2>5
<1>11. ASSUME NEW c \in Call, NEW k \in Kinds[c], ReceiveCall(t, c, k)
       PROVE  Allowed(u)'
  <2>1. /\ kind' = [kind EXCEPT ![c] = k] /\ UNCHANGED <<step, early, verdict, setting>>
        /\ row' = [row EXCEPT ![c] = IF k = "guarded" /\ setting = "ask" THEN "approval" ELSE "running"]
        /\ calls' = [calls EXCEPT ![t] = Noted(calls[t], c[2])] /\ c[1] = t /\ pc[t] = "streaming"
    BY <1>1, <1>11 DEF ReceiveCall, past, waiting, RoundsOK
  <2>2. CASE step[u] = "ready"
    BY <2>1, <2>2 DEF Allowed
  <2>3. CASE step[u] # "ready"
    <3>1. u # t /\ First(u) # c
      BY <1>4, <2>1, <2>3 DEF First
    <3>2. First(u)' = First(u) /\ kind'[First(u)] = kind[First(u)] /\ row'[First(u)] = row[First(u)]
      BY <1>1, <1>4, <2>1, <2>3, <3>1 DEF First, CallTypesOK, RoundsOK
    <3>3. QED
      BY <1>1, <2>1, <3>2 DEF Allowed
  <2>4. QED
    BY <2>2, <2>3
<1>12. CASE StreamEnds(t)
  <2>1. UNCHANGED <<step, kind, row, early, verdict, setting>> /\ pc[t] = "streaming"
    BY <1>12 DEF StreamEnds, StreamStops, StreamCutOff, StreamThrows,
                 StreamAsksForNothing, BeginRound, past, waiting, chat
  <2>2. UNCHANGED calls \/ calls' = [calls EXCEPT ![t] = <<>>]
    BY <1>12 DEF StreamEnds, StreamStops, StreamCutOff, StreamThrows,
                 StreamAsksForNothing, BeginRound, Drop
  <2>3. step[u] # "ready" => calls'[u] = calls[u]
    BY <1>1, <1>4, <2>1, <2>2 DEF RoundsOK
  <2>4. QED
    BY <1>3, <2>1, <2>3
<1>13. CASE Harness(t)
  <2>1. CASE \/ Activate(t) \/ Assemble(t) \/ AssembleFails(t) \/ Nudge(t) \/ NoNudge(t)
             \/ Close(t) \/ EndRound(t)
    BY <1>3, <2>1 DEF Activate, Assemble, AssembleFails, Nudge, NoNudge, Close, EndRound,
                      past, waiting, chat
  <2>2. calls[t] # <<>> => First(t) \in Call
    BY <1>1, FirstIs
  <2>3. u # t => First(u) # First(t)
    BY DEF First
  <2>4. CASE DispatchFreely(t)
    <3>1. /\ step' = [step EXCEPT ![t] = "running"] /\ UNCHANGED <<calls, kind, early, verdict, setting>>
          /\ row' = [row EXCEPT ![First(t)] = "running"] /\ First(t) \in Call
          /\ kind[First(t)] = "guarded" => setting = "always"
      BY <2>2, <2>4 DEF DispatchFreely, past, waiting, Permission
    <3>2. CASE u = t
      <4>1. First(t)' = First(t) /\ step'[t] = "running" /\ row'[First(t)] = "running"
        BY <1>1, <3>1 DEF First, RoundsOK, CallTypesOK
      <4>2. QED
        BY <3>1, <3>2, <4>1 DEF Allowed
    <3>3. CASE u # t
      <4>1. step'[u] = step[u] /\ (step[u] # "ready" => row'[First(u)] = row[First(u)])
        BY <1>1, <1>4, <2>3, <3>1, <3>3 DEF RoundsOK, CallTypesOK
      <4>2. QED
        BY <1>1, <3>1, <4>1, AllowedStays
    <3>4. QED
      BY <3>2, <3>3
  <2>5. CASE Ask(t)
    <3>1. PICK c \in Call : c = First(t)
      BY <2>2, <2>5 DEF Ask
    <3>2. /\ step' = [step EXCEPT ![t] = "asked"] /\ UNCHANGED <<calls, kind, early, verdict, setting>>
          /\ row' = [row EXCEPT ![c] = IF kind[c] = "question" THEN "running" ELSE "approval"]
          /\ kind[c] = "question" \/ early[c] = "none"
      BY <2>5, <3>1 DEF Ask, past
    <3>3. CASE u = t
      <4>1. First(t)' = First(t) /\ step'[t] = "asked"
        BY <1>1, <3>2 DEF First, RoundsOK
      <4>2. early[c] = "none"
        BY <3>2 DEF CInv, RowsOK, Decided
      <4>3. QED
        BY <3>1, <3>2, <3>3, <4>1, <4>2 DEF Allowed
    <3>4. CASE u # t
      <4>1. step'[u] = step[u] /\ (step[u] # "ready" => row'[First(u)] = row[First(u)])
        BY <1>1, <1>4, <2>3, <3>1, <3>2, <3>4 DEF RoundsOK, CallTypesOK
      <4>2. QED
        BY <1>1, <3>2, <4>1, AllowedStays
    <3>5. QED
      BY <3>3, <3>4
  <2>6. CASE ConsumeEarly(t)
    <3>1. PICK c \in Call : c = First(t)
      BY <2>2, <2>6 DEF ConsumeEarly
    <3>2. PICK said : said = early[c]
      OBVIOUS
    <3>3. /\ Settled({t}, said) /\ calls[t] # <<>> /\ UNCHANGED <<kind, verdict, setting>>
          /\ early' = [early EXCEPT ![c] = "none"] /\ said # "none"
          /\ row' = [row EXCEPT ![c] = IF said = "deny" THEN "error" ELSE "running"]
      BY <2>6, <3>1, <3>2 DEF ConsumeEarly
    <3>4. {t} \in SUBSET Turns /\ \A v \in {t} : calls[v] # <<>>
      BY <3>3
    <3>5. CASE u = t
      <4>1. (Denied(u) \/ Runs(u)) /\ (kind[First(u)] = "guarded" /\ said = "deny" => Denied(u))
        BY <1>5, <3>3, <3>4, <3>5
      <4>2. row'[c] # "approval"
        BY <1>1, <3>3 DEF CallTypesOK
      <4>3. verdict[c] = said /\ said \in {"allow", "deny"}
        BY <1>1, <3>2, <3>3 DEF CInv, RowsOK, Decided, CallTypesOK
      <4>4. row'[First(u)] # "approval" /\ (said # "deny" => verdict'[First(u)] = "allow")
        BY <3>1, <3>3, <3>5, <4>2, <4>3
      <4>5. QED
        BY <3>3, <4>1, <4>4, AllowedSettled
    <3>6. CASE u # t
      <4>1. Same(u)
        BY <1>5, <3>3, <3>4, <3>6
      <4>2. step[u] # "ready" => row'[First(u)] = row[First(u)] /\ early'[First(u)] = early[First(u)]
        BY <1>1, <1>4, <2>3, <3>1, <3>3, <3>6 DEF CallTypesOK
      <4>3. QED
        BY <1>1, <3>3, <4>1, <4>2, AllowedStays DEF Same
    <3>7. QED
      BY <3>5, <3>6
  <2>7. CASE ToolReturns(t)
    <3>1. /\ calls' = [calls EXCEPT ![t] = Tail(calls[t])] /\ step' = [step EXCEPT ![t] = "ready"]
          /\ row' = [row EXCEPT ![First(t)] = "done"] /\ UNCHANGED <<kind, early, verdict, setting>>
      BY <1>1, <2>7 DEF ToolReturns, RoundsOK, waiting
    <3>2. CASE u = t
      <4>1. step'[t] = "ready"
        BY <1>1, <3>1 DEF RoundsOK
      <4>2. QED
        BY <3>2, <4>1 DEF Allowed
    <3>3. CASE u # t
      <4>1. /\ step'[u] = step[u] /\ calls'[u] = calls[u]
            /\ step[u] # "ready" => row'[First(u)] = row[First(u)]
        BY <1>1, <1>4, <2>3, <3>1, <3>3 DEF RoundsOK, CallTypesOK
      <4>2. QED
        BY <1>1, <3>1, <4>1, AllowedStays
    <3>4. QED
      BY <3>2, <3>3
  <2>8. QED
    BY <1>13, <2>1, <2>4, <2>5, <2>6, <2>7 DEF Harness
<1>14. QED
  BY <1>2, <1>7, <1>8, <1>9, <1>10, <1>11, <1>12, <1>13

-----------------------------------------------------------------------------
(***************************************************************************)
(* Calls follow the user.                                                  *)
(***************************************************************************)
Follows(c) ==
  /\ kind[c] = "guarded" /\ outcome[c] = "ran" => (verdict[c] = "allow" \/ setting = "always")
  /\ outcome[c] = "denied" => (verdict[c] = "deny" \/ c[1] \in cancelled)

LEMMA FollowsStays ==
  ASSUME NEW c, Follows(c), kind'[c] = kind[c] \/ outcome[c] = "none", outcome'[c] = outcome[c],
         verdict'[c] = verdict[c] \/ outcome[c] = "none",
         setting = "always" => setting' = "always", cancelled \subseteq cancelled'
  PROVE  Follows(c)'
BY DEF Follows

LEMMA FollowsStep ==
  ASSUME CInv, Next
  PROVE  CallsFollowTheUser'
<1> SUFFICES ASSUME NEW e \in Call PROVE Follows(e)'
  BY DEF CallsFollowTheUser, Follows
<1>1. RoundsOK /\ CallTypesOK /\ Decided(e) /\ Follows(e)
  BY DEF CInv, RowsOK, CallsFollowTheUser, Follows
<1>2. PICK t \in Turns :
        \/ Start(t) \/ Inject(t) \/ Stop(t) \/ Responds(t)
        \/ \E c \in Call : \E k \in Kinds[c] : ReceiveCall(t, c, k)
        \/ StreamEnds(t) \/ Harness(t)
  BY DEF Next
<1>3. ASSUME UNCHANGED <<kind, outcome, verdict, setting, cancelled>>
      PROVE  Follows(e)'
  BY <1>1, <1>3, FollowsStays
(* A call that is denied is guarded, and was the first of a turn.          *)
<1>4. ASSUME NEW ts \in SUBSET Turns, NEW decision, Settled(ts, decision),
             \A v \in ts : calls[v] # <<>>
      PROVE  outcome'[e] # outcome[e] =>
               outcome'[e] = "denied" /\ decision = "deny" /\ e[1] \in ts /\ e = First(e[1])
  <2>1. \A c \in Call : outcome'[c] # outcome[c] =>
          /\ outcome'[c] = "denied" /\ kind[c] = "guarded" /\ decision = "deny"
          /\ c[1] \in ts /\ c = First(c[1])
    BY <1>1, <1>4, OutcomeOfSettled
  <2>2. QED
    BY <2>1
(* The calls of turns that are cancelled are denied.                       *)
<1>5. ASSUME NEW ts \in SUBSET Turns, Settled(ts, "deny"), \A v \in ts : calls[v] # <<>>,
             UNCHANGED <<kind, verdict, setting>>, ts \cup cancelled \subseteq cancelled'
      PROVE  Follows(e)'
  <2>1. CASE outcome'[e] = outcome[e]
    BY <1>1, <1>5, <2>1, FollowsStays
  <2>2. CASE outcome'[e] # outcome[e]
    <3>1. outcome'[e] = "denied" /\ e[1] \in ts
      BY <1>4, <1>5, <2>2
    <3>2. e[1] \in cancelled'
      BY <1>5, <3>1
    <3>3. QED
      BY <3>1, <3>2 DEF Follows
  <2>3. QED
    BY <2>1, <2>2
<1>6. CASE Start(t)
  <2>1. PICK ts \in SUBSET Turns :
          /\ Settled(ts, "deny") /\ ts = {u \in Conversing(t) : step[u] = "asked"}
          /\ \A v \in ts : calls[v] # <<>> /\ pc[v] = "tools"
    BY <1>6, StartSettles
  <2>2. /\ UNCHANGED <<kind, verdict, setting>>
        /\ cancelled' = cancelled \cup {u \in Turns : conv[u] = conv[t] /\ Active(u)}
    BY <1>6 DEF Start
  <2>3. ts \cup cancelled \subseteq cancelled'
    BY <2>1, <2>2 DEF Active, Conversing
  <2>4. QED
    BY <1>5, <2>1, <2>2, <2>3
<1>7. CASE Inject(t)
  BY <1>3, <1>7 DEF Inject, past
<1>8. CASE Stop(t)
  <2>1. PICK ts \in SUBSET Turns :
          /\ Settled(ts, "deny") /\ ts = {u \in {t} : step[u] = "asked"}
          /\ \A v \in ts : calls[v] # <<>>
    BY <1>8, StopSettles
  <2>2. UNCHANGED <<kind, verdict, setting>> /\ cancelled' = cancelled \cup {t}
    BY <1>8 DEF Stop
  <2>3. ts \cup cancelled \subseteq cancelled'
    BY <2>1, <2>2
  <2>4. QED
    BY <1>5, <2>1, <2>2, <2>3
<1>9. CASE Responds(t)
  <2>1. PICK c \in Call : c[1] = t /\ (Answer(c) \/ \E d \in {"allow", "deny", "always"} : Decide(c, d))
    BY <1>9 DEF Responds
  <2>2. c \in pending => calls[t] # <<>> /\ c = First(t)
    BY <1>1, <2>1, AskingIs
  <2>3. CASE Answer(c)
    <3>1. Settled({t}, "allow") /\ c \in pending /\ UNCHANGED <<kind, verdict, setting, cancelled>>
      BY <2>1, <2>3 DEF Answer
    <3>2. outcome'[e] = outcome[e]
      <4>1. PICK said : said = "allow"
        OBVIOUS
      <4>2. Settled({t}, said) /\ {t} \in SUBSET Turns /\ \A v \in {t} : calls[v] # <<>>
        BY <2>2, <3>1, <4>1
      <4>3. outcome'[e] # outcome[e] =>
              outcome'[e] = "denied" /\ said = "deny" /\ e[1] \in {t} /\ e = First(e[1])
        BY <1>4, <4>2, Zenon
      <4>4. QED
        BY <4>1, <4>3
    <3>3. QED
      BY <1>1, <3>1, <3>2, FollowsStays
  <2>4. ASSUME NEW d \in {"allow", "deny", "always"}, Decide(c, d)
        PROVE  Follows(e)'
    <3>1. PICK said : said = IF d = "deny" THEN "deny" ELSE "allow"
      OBVIOUS
    <3>2. /\ UNCHANGED <<kind, cancelled>> /\ verdict' = [verdict EXCEPT ![c] = said]
          /\ verdict'[c] = said /\ (setting = "always" => setting' = "always")
      BY <1>1, <2>4, <3>1 DEF Decide, CallTypesOK
    (* What waits for approval has no outcome.                             *)
    <3>3. outcome[c] = "none"
      BY <2>4 DEF Decide, Shown, CInv, RowsOK, Decided
    <3>4. verdict'[e] = verdict[e] \/ outcome[e] = "none"
      BY <1>1, <3>2, <3>3 DEF CallTypesOK
    <3>5. CASE outcome'[e] = outcome[e]
      BY <1>1, <3>2, <3>4, <3>5, FollowsStays
    <3>6. CASE outcome'[e] # outcome[e]
      <4>1. c \in pending
        BY <2>4, <3>6 DEF Decide
      <4>2. Settled({t}, said) /\ {t} \in SUBSET Turns /\ \A v \in {t} : calls[v] # <<>>
        BY <2>1, <2>2, <2>4, <3>2, <4>1 DEF Decide
      <4>3. outcome'[e] = "denied" /\ said = "deny" /\ e[1] \in {t} /\ e = First(e[1])
        BY <1>4, <3>6, <4>2, Zenon
      <4>4. e = c
        BY <2>2, <4>1, <4>3
      <4>5. QED
        BY <3>2, <4>3, <4>4 DEF Follows
    <3>7. QED
      BY <3>5, <3>6
  <2>5. QED
    BY <2>1, <2>3, <2>4
<1>10. ASSUME NEW c \in Call, NEW k \in Kinds[c], ReceiveCall(t, c, k)
       PROVE  Follows(e)'
  <2>1. kind' = [kind EXCEPT ![c] = k] /\ UNCHANGED <<outcome, verdict, setting, cancelled>>
    BY <1>10 DEF ReceiveCall, past
  <2>2. outcome[c] = "none"
    BY <1>10, ReceivedIsNew
  <2>3. kind'[e] = kind[e] \/ outcome[e] = "none"
    BY <1>1, <2>1, <2>2 DEF CallTypesOK
  <2>4. QED
    BY <1>1, <2>1, <2>3, FollowsStays
<1>11. CASE StreamEnds(t)
  BY <1>3, <1>11 DEF StreamEnds, StreamStops, StreamCutOff, StreamThrows,
                     StreamAsksForNothing, BeginRound, past
<1>12. CASE Harness(t)
  <2>1. CASE \/ Activate(t) \/ Assemble(t) \/ AssembleFails(t) \/ Nudge(t) \/ NoNudge(t)
             \/ Close(t) \/ EndRound(t) \/ DispatchFreely(t) \/ Ask(t)
    BY <1>3, <2>1 DEF Activate, Assemble, AssembleFails, Nudge, NoNudge, Close, EndRound,
                      DispatchFreely, Ask, past
  <2>2. CASE ConsumeEarly(t)
    <3>1. PICK c \in Call : c = First(t)
      BY <1>1, <2>2, FirstIs DEF ConsumeEarly
    <3>2. PICK said : said = early[c]
      OBVIOUS
    <3>3. /\ Settled({t}, said) /\ calls[t] # <<>> /\ said # "none"
          /\ UNCHANGED <<kind, verdict, setting, cancelled>>
      BY <2>2, <3>1, <3>2 DEF ConsumeEarly
    <3>4. verdict[c] = said
      BY <3>2, <3>3 DEF CInv, RowsOK, Decided
    <3>5. CASE outcome'[e] = outcome[e]
      BY <1>1, <3>3, <3>5, FollowsStays
    <3>6. CASE outcome'[e] # outcome[e]
      <4>1. Settled({t}, said) /\ {t} \in SUBSET Turns /\ \A v \in {t} : calls[v] # <<>>
        BY <3>3
      <4>2. outcome'[e] = "denied" /\ said = "deny" /\ e[1] \in {t} /\ e = First(e[1])
        BY <1>4, <3>6, <4>1, Zenon
      <4>3. e = c
        BY <3>1, <4>2
      <4>4. QED
        BY <3>3, <3>4, <4>2, <4>3 DEF Follows
    <3>7. QED
      BY <3>5, <3>6
  <2>3. CASE ToolReturns(t)
    <3>1. PICK c \in Call : c = First(t)
      BY <1>1, <2>3, FirstIs DEF ToolReturns, RoundsOK
    <3>2. /\ outcome' = [outcome EXCEPT ![c] = "ran"] /\ step[t] = "running"
          /\ UNCHANGED <<kind, verdict, setting, cancelled>>
      BY <2>3, <3>1 DEF ToolReturns
    <3>3. kind[c] = "guarded" => verdict[c] = "allow" \/ setting = "always"
      BY <3>1, <3>2 DEF CInv, FirstsOK, Allowed
    <3>4. CASE e = c
      <4>1. outcome'[c] = "ran"
        BY <1>1, <3>2 DEF CallTypesOK
      <4>2. QED
        BY <3>2, <3>3, <3>4, <4>1 DEF Follows
    <3>5. CASE e # c
      <4>1. outcome'[e] = outcome[e]
        BY <1>1, <3>2, <3>5 DEF CallTypesOK
      <4>2. QED
        BY <1>1, <3>2, <4>1, FollowsStays
    <3>6. QED
      BY <3>4, <3>5
  <2>4. QED
    BY <1>12, <2>1, <2>2, <2>3 DEF Harness
<1>13. QED
  BY <1>2, <1>6, <1>7, <1>8, <1>9, <1>10, <1>11, <1>12

-----------------------------------------------------------------------------
(***************************************************************************)
(* The theorems.                                                           *)
(***************************************************************************)
LEMMA InitInvariant ==
  ASSUME Init
  PROVE  CInv
<1>1. conv \in [Turns -> Conversations]
  BY ChatAssumption DEF Init
<1>2. NoRequest \in Request /\ <<>> \in Seq(Nat)
  BY DEF NoRequest, Request
<1>3. TypesOK
  BY <1>1, <1>2 DEF Init, TypesOK
<1>4. RoundsOK
  <2>1. \A t \in Turns : <<>> \in Numbers(t)
    BY DEF Numbers
  <2>2. QED
    BY <1>2, <2>1 DEF Init, RoundsOK
<1>5. CallTypesOK
  BY DEF Init, CallTypesOK
<1>6. AnswersOK
  BY DEF Init, AnswersOK, Answered
<1>7. InjectionsOK
  <2>1. ASSUME NEW t \in Turns
        PROVE  Heard(t)
    <3>1. inbox[t] = <<>> /\ told[t] = <<>> /\ request[t] = NoRequest /\ ending[t] = "none"
      BY DEF Init
    <3>2. request[t].texts = <<>>
      BY <3>1 DEF NoRequest
    <3>3. Accepted(t) = 0
      BY <3>1, <3>2 DEF Accepted
    <3>4. <<>> \o <<>> \o <<>> = UpTo(0)
      BY DEF UpTo
    <3>5. QED
      BY <3>1, <3>2, <3>3, <3>4 DEF Heard, UpTo
  <2>2. QED
    BY <2>1 DEF InjectionsOK
<1>8. CallsOK
  BY DEF Init, CallsOK, InRound
<1>9. RowsOK
  BY DEF Init, RowsOK, Decided
<1>10. FirstsOK
  BY DEF Init, FirstsOK, Allowed
<1>11. CallsFollowTheUser
  BY DEF Init, CallsFollowTheUser
<1>12. BubblesAreClosed
  BY DEF Init, BubblesAreClosed, NoRequest
<1>13. QED
  BY <1>3, <1>4, <1>5, <1>6, <1>7, <1>8, <1>9, <1>10, <1>11, <1>12 DEF CInv

LEMMA StutterKeepsInvariant ==
  ASSUME CInv, UNCHANGED vars
  PROVE  CInv'
<1>1. /\ UNCHANGED <<conv, setting, kind, awaited, pending, early, row, bubble>>
      /\ UNCHANGED <<pc, aborted, inbox, request, calls, results, step, nudged>>
      /\ UNCHANGED <<ending, told, verdict, outcome, cancelled>>
  BY DEF vars, turn, waiting, chat, past
<1>2. TypesOK'
  BY <1>1 DEF CInv, TypesOK
<1>3. RoundsOK'
  BY <1>1 DEF CInv, RoundsOK, First
<1>4. CallTypesOK'
  BY <1>1 DEF CInv, CallTypesOK
<1>5. AnswersOK'
  BY <1>1 DEF CInv, AnswersOK, Answered
<1>6. InjectionsOK'
  BY <1>1 DEF CInv, InjectionsOK, Heard, Accepted
<1>7. CallsOK'
  BY <1>1 DEF CInv, CallsOK, InRound
<1>8. RowsOK'
  BY <1>1 DEF CInv, RowsOK, Decided
<1>9. FirstsOK'
  BY <1>1 DEF CInv, FirstsOK, Allowed, First
<1>10. CallsFollowTheUser'
  BY <1>1 DEF CInv, CallsFollowTheUser
<1>11. BubblesAreClosed'
  BY <1>1 DEF CInv, BubblesAreClosed
<1>12. QED
  BY <1>2, <1>3, <1>4, <1>5, <1>6, <1>7, <1>8, <1>9, <1>10, <1>11 DEF CInv

(***************************************************************************)
(* The inductive invariant holds, for every set of turns, conversations    *)
(* and calls (chat-service.ts, tool-dispatcher.ts, pending-                *)
(* interactions.ts).                                                       *)
(***************************************************************************)
THEOREM ChatInvariant == Spec => []CInv
<1>1. Init => CInv
  BY InitInvariant
<1>2. CInv /\ [Next]_vars => CInv'
  <2>1. ASSUME CInv, Next
        PROVE  CInv'
    <3>1. TypesOK' /\ RoundsOK' /\ CallTypesOK' /\ AnswersOK' /\ InjectionsOK'
      BY <2>1, TypesStep, RoundsStep, CallTypesStep, AnswersStep, InjectionsStep
    <3>2. CallsOK' /\ RowsOK' /\ FirstsOK' /\ CallsFollowTheUser' /\ BubblesAreClosed'
      BY <2>1, CallsStep, RowsStep, FirstsStep, FollowsStep, BubblesStep
    <3>3. QED
      BY <3>1, <3>2 DEF CInv
  <2>2. QED
    BY <2>1, StutterKeepsInvariant
<1>3. QED
  BY <1>1, <1>2, PTL DEF Spec

(***************************************************************************)
(* The state of turns is as described, a turn waits for the user exactly   *)
(* while its first call is with them, and every message opened in the chat *)
(* is closed (chat-service.ts, runSubTurn).                                *)
(***************************************************************************)
THEOREM ChatStaysOK == Spec => []ChatOK
<1>1. CInv => ChatOK
  BY DEF CInv, ChatOK, ChatTypeOK, TypesOK, RoundsOK, CallTypesOK
<1>2. QED
  BY <1>1, ChatInvariant, PTL

(* The service gets a result for every call it asked for, once and in      *)
(* order (chat-service.ts, the rounds of runSubTurn).                      *)
THEOREM CallsAreAnswered == Spec => []EveryCallIsAnswered
<1>1. CInv => EveryCallIsAnswered
  BY DEF CInv, AnswersOK, Answered, EveryCallIsAnswered
<1>2. QED
  BY <1>1, ChatInvariant, PTL

(* What the user adds to a running turn reaches the model once and in      *)
(* order, and all of it before a stop (chat-service.ts, inject).           *)
THEOREM MessagesReachTheModel == Spec => []InjectionsReachTheModel
<1>1. CInv => InjectionsReachTheModel
  BY DEF CInv, InjectionsOK, Heard, InjectionsReachTheModel
<1>2. QED
  BY <1>1, ChatInvariant, PTL

(* A guarded call runs only when the user allowed it, and a call is denied *)
(* only for what happened to its own turn or conversation                  *)
(* (tool-dispatcher.ts, run; pending-interactions.ts).                     *)
THEOREM OnlyTheUserDecides == Spec => []CallsFollowTheUser
<1>1. CInv => CallsFollowTheUser
  BY DEF CInv
<1>2. QED
  BY <1>1, ChatInvariant, PTL
=============================================================================
