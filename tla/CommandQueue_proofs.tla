-------------------------- MODULE CommandQueue_proofs --------------------------
(***************************************************************************)
(* Proofs about CommandQueue, for every number of commands, writers, ends  *)
(* of a process and failed writes: the type invariant, that a command that *)
(* waits in the queue is not lost with its process and, as long as         *)
(* commands.done can be written, that no message is given to the model     *)
(* twice.                                                                  *)
(***************************************************************************)
EXTENDS CommandQueue, TLAPS, WellFoundedInduction

-----------------------------------------------------------------------------
(* A set of numbers that is not empty has a least one.                     *)
LessThan == {ss \in Nat \X Nat : ss[1] < ss[2]}

LEMMA LeastNumber ==
  ASSUME NEW T \in SUBSET Nat, T # {}
  PROVE  \E x \in T : \A y \in T : x <= y
<1>1. IsWellFoundedOn(LessThan, Nat)
  BY NatLessThanWellFounded DEF OpToRel, LessThan
<1>2. PICK x \in T : \A y \in T : ~(<<y, x>> \in LessThan)
  BY <1>1, WFMin
<1>3. ASSUME NEW y \in T, y < x
      PROVE  <<y, x>> \in LessThan
  BY <1>3 DEF LessThan
<1>4. \A y \in T : ~(y < x)
  BY <1>2, <1>3
<1>5. \A y \in T : y \in Nat /\ x \in Nat
  OBVIOUS
<1>6. \A y \in T : x <= y
  BY <1>4, <1>5
<1>7. QED
  BY <1>6

(* done moves over the numbers handled, and no further (markHandled).      *)
HandledTo(d) == [done : 0..d, above : SUBSET (1..d)]

LEMMA MarkIs ==
  ASSUME NEW d \in 0..MaxCommand, NEW p \in HandledTo(d), NEW n \in 1..d
  PROVE  /\ Mark(p, n) \in HandledTo(d)
         /\ p.done <= Mark(p, n).done
         /\ 1..Mark(p, n).done \subseteq 1..p.done \cup p.above \cup {n}
         /\ Mark(p, n).above \subseteq p.above \cup {n}
         /\ 1..p.done \cup p.above \cup {n} \subseteq 1..Mark(p, n).done \cup Mark(p, n).above
         /\ (p.done + 1)..(n - 1) \subseteq p.above => n <= Mark(p, n).done
<1>0. MaxCommand \in Nat /\ d \in Nat /\ p.done \in 0..d /\ p.above \subseteq 1..d
  BY QueueAssumption DEF HandledTo
<1>1. CASE n <= p.done
  BY <1>0, <1>1 DEF Mark
<1>2. CASE ~(n <= p.done)
  <2> DEFINE above == p.above \cup {n}
             Fits(k) == (p.done + 1)..k \subseteq above /\ k + 1 \notin above
             missing == {k \in Nat : k > p.done /\ k \notin above}
             next == CHOOSE k \in p.done..MaxCommand : Fits(k)
  <2>1. d + 1 \in missing /\ missing \in SUBSET Nat
    BY <1>0
  <2>2. PICK m \in missing : \A k \in missing : m <= k
    BY <2>1, LeastNumber
  <2>3. m - 1 \in p.done..MaxCommand /\ m - 1 <= d
    BY <1>0, <2>1, <2>2
  <2>4. (p.done + 1)..(m - 1) \subseteq above
    BY <1>0, <2>2, <2>3
  <2>5. Fits(m - 1)
    BY <2>2, <2>3, <2>4
  <2>6. next \in p.done..MaxCommand /\ Fits(next)
    BY <2>3, <2>5
  <2>7. next <= d
    BY <1>0, <2>6
  <2>8. Mark(p, n) = [done |-> next, above |-> above \ (1..next)]
    BY <1>2 DEF Mark
  <2>9. 1..next \subseteq 1..p.done \cup above
    BY <1>0, <2>6
  <2>10. above \subseteq 1..d
    BY <1>0
  <2>11. next \in 0..d /\ above \ (1..next) \subseteq 1..d
    BY <1>0, <2>6, <2>7, <2>10
  <2>12. Mark(p, n) \in HandledTo(d)
    BY <2>8, <2>11 DEF HandledTo
  <2>13. 1..p.done \cup above \subseteq 1..next \cup (above \ (1..next))
    BY <1>0, <2>6
  <2>14. (p.done + 1)..(n - 1) \subseteq p.above => n <= next
    BY <1>0, <1>2, <2>6
  <2>15. QED
    BY <1>0, <2>6, <2>8, <2>9, <2>12, <2>13, <2>14
<1>3. QED
  BY <1>1, <1>2

-----------------------------------------------------------------------------
(* The inductive invariant, in parts.                                      *)

(* A file that is not written any more, or only read from now on.          *)
Landed == {"look", "rewrite", "finished", "dead"}
Written == {"look", "rewrite", "finished"}

FilesOK ==
  /\ cmd \in Seq([kind : Kind, turn : 0..MaxCommand]) /\ Len(cmd) <= MaxCommand
  /\ \A n \in 1..Len(cmd) :
       cmd[n].kind \in {"inject", "abort"} => cmd[n].turn \in 1..Len(cmd)
  /\ writer \in [Number -> {"none", "content", "look", "rewrite", "finished", "dead"}]
  /\ seqFile \in 0..Len(cmd) /\ doneFile \in 0..Len(cmd)

(* Only commands that have landed are delivered.                           *)
ReaderOK ==
  /\ highWater \in 0..Len(cmd) /\ delivered \in 0..highWater /\ stuck \in 0..MaxCommand
  /\ \A n \in 1..Len(cmd) : n <= delivered \/ n <= doneFile => writer[n] \in Landed

PastOK ==
  /\ told \in [Number -> Nat] /\ begun \in [Number -> Nat] /\ aborts \subseteq Number
  /\ exits \in 0..MaxExits /\ failures \in 0..MaxFailures

Waiter == {"tick", "work", "nobody"}
TickStep == {"idle", "reading", "skipping", "dispatching", "marking", "stopping"}
WorkSet ==
  [n : 0..delivered, aborted : BOOLEAN,
   step : {"none", "marking", "preparing", "opening", "chatting", "closing", "files", "filed"}]

(* The runner has delivered commands only, and none without a process.     *)
RunnerOK ==
  /\ phase \in {"down", "running", "stopping"}
  /\ writes \in Seq(Waiter)
  /\ tick \in [step : TickStep, batch : Seq(1..delivered)]
  /\ queue \in Seq(1..delivered)
  /\ work \in WorkSet
  /\ work.step # "none" => work.n > 0 /\ begun[work.n] > 0
  /\ phase = "down" => queue = <<>> /\ work = NoWork /\ tick = NoTick /\ writes = <<>>

(* A command handled was begun or aborted, or is before a stop.            *)
Settled(n) == cmd[n].kind \in Queued /\ Whole(n) => begun[n] > 0 \/ n \in aborts
Accounted(d) ==
  \A n \in 1..d :
    Settled(n) \/ \E s \in 1..d : n < s /\ cmd[s].kind = "stop"

HandledOK ==
  /\ progress \in HandledTo(delivered)
  /\ Accounted(progress.done) /\ \A n \in progress.above : Settled(n)
  /\ Accounted(doneFile)

IInv == FilesOK /\ ReaderOK /\ PastOK /\ RunnerOK /\ HandledOK

-----------------------------------------------------------------------------
(* The invariant holds at the start.                                       *)
LEMMA InitOK == Init => IInv
<1> SUFFICES ASSUME Init PROVE IInv
  OBVIOUS
<1>1. MaxCommand \in Nat /\ MaxExits \in Nat /\ MaxFailures \in Nat
  BY QueueAssumption
<1>2. FilesOK /\ ReaderOK
  BY <1>1 DEF Init, FilesOK, ReaderOK, Number
<1>3. PastOK
  BY <1>1 DEF Init, PastOK, Number
<1>4. RunnerOK
  BY DEF Init, RunnerOK, WorkSet, TickStep, NoWork, NoTick
<1>5. HandledOK
  BY DEF Init, HandledOK, HandledTo, Accounted
<1>6. QED
  BY <1>2, <1>3, <1>4, <1>5 DEF IInv

(* The bounds of the counters, as the provers need them.                   *)
LEMMA Types ==
  ASSUME IInv
  PROVE  /\ MaxCommand \in Nat /\ Len(cmd) \in Nat /\ Len(cmd) <= MaxCommand
         /\ delivered \in Nat /\ delivered <= highWater /\ highWater \in Nat
         /\ highWater <= Len(cmd) /\ doneFile \in Nat /\ doneFile <= Len(cmd)
         /\ DOMAIN cmd = 1..Len(cmd)
BY QueueAssumption DEF IInv, FilesOK, ReaderOK

(* Sequences of numbers, and their elements.                               *)
LEMMA WiderSeq ==
  ASSUME NEW d \in Nat, NEW e \in Nat, d <= e, NEW s \in Seq(1..d)
  PROVE  s \in Seq(1..e)
OBVIOUS

LEMMA ElementIs ==
  ASSUME NEW S, NEW q \in Seq(S), NEW i \in 1..Len(q)
  PROVE  q[i] \in S
OBVIOUS

LEMMA HeadTail ==
  ASSUME NEW S, NEW q \in Seq(S), q # <<>>
  PROVE  Head(q) \in S /\ Tail(q) \in Seq(S)
OBVIOUS

(* What a step does to the files.                                          *)
LEMMA CreateEffect ==
  ASSUME IInv, NEW kind \in Kind, NEW turn \in 0..MaxCommand, Create(kind, turn),
         kind \in {"inject", "abort"} => turn \in 1..Len(cmd)
  PROVE  FilesOK'
<1>1. Len(cmd) + 1 <= MaxCommand /\ Len(cmd) \in Nat /\ MaxCommand \in Nat
  BY Types DEF Create
<1>2. cmd' = Append(cmd, [kind |-> kind, turn |-> turn])
  BY DEF Create
<1>3. /\ cmd' \in Seq([kind : Kind, turn : 0..MaxCommand]) /\ Len(cmd') = Len(cmd) + 1
      /\ \A n \in 1..Len(cmd) : cmd'[n] = cmd[n]
      /\ cmd'[Len(cmd) + 1] = [kind |-> kind, turn |-> turn]
  BY <1>1, <1>2 DEF IInv, FilesOK
<1>4. \A n \in 1..Len(cmd') :
         cmd'[n].kind \in {"inject", "abort"} => cmd'[n].turn \in 1..Len(cmd')
  <2> SUFFICES ASSUME NEW n \in 1..Len(cmd'), cmd'[n].kind \in {"inject", "abort"}
               PROVE  cmd'[n].turn \in 1..Len(cmd')
    OBVIOUS
  <2>1. CASE n \in 1..Len(cmd)
    <3>1. cmd'[n] = cmd[n] /\ cmd[n].kind \in {"inject", "abort"}
      BY <1>3, <2>1
    <3>2. cmd[n].turn \in 1..Len(cmd)
      BY <2>1, <3>1 DEF IInv, FilesOK
    <3>3. QED
      BY <1>1, <1>3, <3>1, <3>2
  <2>2. CASE n = Len(cmd) + 1
    BY <1>1, <1>3, <2>2
  <2>3. QED
    BY <1>1, <1>3, <2>1, <2>2
<1>5. writer' \in [Number -> {"none", "content", "look", "rewrite", "finished", "dead"}]
  BY DEF Create, IInv, FilesOK
<1>6. seqFile' \in 0..Len(cmd') /\ doneFile' \in 0..Len(cmd') /\ Len(cmd') <= MaxCommand
  BY <1>1, <1>3 DEF Create, IInv, FilesOK
<1>7. cmd' \in Seq([kind : Kind, turn : 0..MaxCommand])
  BY <1>3
<1>8. QED
  BY <1>4, <1>5, <1>6, <1>7 DEF FilesOK

(* What a client sends.                                                    *)
LEMMA SendIs ==
  ASSUME IInv, Send
  PROVE  \E kind \in Kind, turn \in 0..MaxCommand :
           /\ Create(kind, turn)
           /\ kind \in {"inject", "abort"} => turn \in 1..Len(cmd)
<1>1. PICK kind \in Kinds :
         IF kind \in {"inject", "abort"}
         THEN \E turn \in DOMAIN cmd : cmd[turn].kind \in Turns /\ Create(kind, turn)
         ELSE Create(kind, 0)
  BY DEF Send
<1>2. kind \in Kind
  BY QueueAssumption
<1>3. CASE kind \in {"inject", "abort"}
  <2>1. PICK turn \in DOMAIN cmd : Create(kind, turn)
    BY <1>1, <1>3
  <2>2. turn \in 1..Len(cmd) /\ turn \in 0..MaxCommand
    BY Types
  <2>3. QED
    BY <1>2, <2>1, <2>2
<1>4. CASE ~(kind \in {"inject", "abort"})
  <2>1. Create(kind, 0) /\ 0 \in 0..MaxCommand
    BY <1>1, <1>4, QueueAssumption
  <2>2. QED
    BY <1>2, <1>4, <2>1
<1>5. QED
  BY <1>3, <1>4

(* A writer goes on, and no other; a command that has landed stays whole,  *)
(* or broken.                                                              *)
LEMMA WriterEffect ==
  ASSUME IInv, NEW n \in DOMAIN cmd,
         WriteContent(n) \/ LookAtSeq(n) \/ RewriteSeq(n) \/ WriterDies(n)
  PROVE  /\ FilesOK'
         /\ cmd' = cmd /\ doneFile' = doneFile
         /\ \A m \in Number :
              writer[m] \in Landed =>
                writer'[m] \in Landed /\ (writer'[m] \in Written <=> writer[m] \in Written)
<1>1. n \in 1..Len(cmd) /\ n \in Number /\ Len(cmd) \in Nat
  BY Types DEF Number
<1>2. PICK from, to :
        /\ WriterGoesOn(n, from, to)
        /\ seqFile' \in {seqFile, n}
        /\ \/ from = "content" /\ to \in {"look", "dead"}
           \/ from \in {"look", "rewrite"} /\ to \in {"rewrite", "finished"}
  <2>1. CASE WriteContent(n)
    BY <2>1 DEF WriteContent
  <2>2. CASE LookAtSeq(n)
    <3>1. CASE seqFile < n
      BY <2>2, <3>1 DEF LookAtSeq
    <3>2. CASE ~(seqFile < n)
      BY <2>2, <3>2 DEF LookAtSeq
    <3>3. QED
      BY <3>1, <3>2
  <2>3. CASE RewriteSeq(n)
    BY <2>3 DEF RewriteSeq
  <2>4. CASE WriterDies(n)
    <3>1. writer[n] \in {"content", "look", "rewrite"}
      BY <2>4 DEF WriterDies, Writing
    <3>2. CASE writer[n] = "content"
      BY <2>4, <3>2 DEF WriterDies
    <3>3. CASE writer[n] # "content"
      BY <2>4, <3>1, <3>3 DEF WriterDies
    <3>4. QED
      BY <3>2, <3>3
  <2>5. QED
    BY <2>1, <2>2, <2>3, <2>4
<1>3. /\ writer[n] = from /\ writer' = [writer EXCEPT ![n] = to]
      /\ cmd' = cmd /\ doneFile' = doneFile
  BY <1>2 DEF WriterGoesOn
<1>4. FilesOK'
  BY <1>1, <1>2, <1>3 DEF IInv, FilesOK
<1>5. ASSUME NEW m \in Number, writer[m] \in Landed
      PROVE  writer'[m] \in Landed /\ (writer'[m] \in Written <=> writer[m] \in Written)
  BY <1>1, <1>2, <1>3, <1>5 DEF IInv, FilesOK, Landed, Written
<1>6. QED
  BY <1>3, <1>4, <1>5

-----------------------------------------------------------------------------
(* What the next state knows of the commands handled.                      *)
SettledNext(n) ==
  cmd'[n].kind \in Queued /\ writer'[n] \in Written => begun'[n] > 0 \/ n \in aborts'
AccountedNext(d) ==
  \A n \in 1..d :
    SettledNext(n) \/ \E s \in 1..d : n < s /\ cmd'[s].kind = "stop"
AccountsNext(p) == AccountedNext(p.done) /\ \A n \in p.above : SettledNext(n)

(* A settled command may be marked as handled.                             *)
LEMMA MarkAccounts ==
  ASSUME NEW d \in 0..MaxCommand, NEW p \in HandledTo(d), NEW n \in 1..d,
         AccountsNext(p), SettledNext(n)
  PROVE  AccountsNext(Mark(p, n))
<1> DEFINE q == Mark(p, n)
<1>1. /\ q \in HandledTo(d) /\ p.done <= q.done
      /\ 1..q.done \subseteq 1..p.done \cup p.above \cup {n}
      /\ q.above \subseteq p.above \cup {n}
  BY MarkIs
<1>2. p.done \in Nat /\ q.done \in Nat
  BY <1>1, QueueAssumption DEF HandledTo
<1> HIDE DEF q
<1>3. \A m \in q.above : SettledNext(m)
  BY <1>1 DEF AccountsNext
<1>4. ASSUME NEW m \in 1..q.done
      PROVE  SettledNext(m) \/ \E s \in 1..q.done : m < s /\ cmd'[s].kind = "stop"
  <2>1. CASE m \in p.above \cup {n}
    BY <2>1 DEF AccountsNext
  <2>2. CASE m \in 1..p.done
    <3>1. SettledNext(m) \/ \E s \in 1..p.done : m < s /\ cmd'[s].kind = "stop"
      BY <2>2 DEF AccountsNext, AccountedNext
    <3>2. 1..p.done \subseteq 1..q.done
      BY <1>1, <1>2
    <3>3. QED
      BY <3>1, <3>2
  <2>3. QED
    BY <1>1, <2>1, <2>2
<1>5. QED
  BY <1>3, <1>4 DEF AccountsNext, AccountedNext, q

(* What a command off the queue, or none, makes of the runner (drain).     *)
RunnerNext ==
  /\ writes' \in Seq(Waiter)
  /\ queue' \in Seq(1..delivered)
  /\ work' \in WorkSet
  /\ work'.step # "none" => work'.n > 0 /\ begun'[work'.n] > 0
  /\ begun' \in [Number -> Nat] /\ \A n \in Number : begun'[n] >= begun[n]

(* The next command off the queue starts, if any.                          *)
LEMMA DrainEffect ==
  ASSUME IInv, NEW q \in Seq(1..delivered), NEW p \in HandledTo(delivered),
         NEW ws \in Seq(Waiter), Drain(q, p, ws)
  PROVE  /\ RunnerNext
         /\ progress' \in HandledTo(delivered)
         /\ AccountsNext(p) => AccountsNext(progress')
<1>1. delivered \in 0..MaxCommand /\ begun \in [Number -> Nat] /\ 1..delivered \subseteq Number
  BY Types DEF IInv, PastOK, Number
<1>2. CASE q = <<>> \/ phase # "running"
  <2>1. UNCHANGED begun /\ queue' = q /\ work' = NoWork /\ progress' = p /\ writes' = ws
    BY <1>2 DEF Drain
  <2>2. NoWork \in WorkSet
    BY <1>1 DEF NoWork, WorkSet
  <2>3. QED
    BY <1>1, <2>1, <2>2 DEF RunnerNext, NoWork
<1>3. CASE q # <<>> /\ phase = "running"
  <2> DEFINE n == Head(q)
  <2>1. queue' = Tail(q) /\ Start(n, p, ws)
    BY <1>3 DEF Drain
  <2>2. n \in 1..delivered /\ Tail(q) \in Seq(1..delivered)
    BY <1>3, HeadTail
  <2> HIDE DEF n
  <2>3. begun' = [begun EXCEPT ![n] = @ + 1]
    BY <2>1 DEF Start
  <2>4. /\ begun' \in [Number -> Nat] /\ begun'[n] > 0
        /\ \A m \in Number : begun'[m] >= begun[m]
    BY <1>1, <2>2, <2>3
  <2>5. SettledNext(n)
    BY <2>4 DEF SettledNext
  <2>6. CASE cmd[n].kind \in Turns
    <3>1. /\ work' = [n |-> n, step |-> IF Advances(p, n) THEN "marking" ELSE "preparing",
                      aborted |-> FALSE]
          /\ progress' = Mark(p, n)
          /\ writes' = ws \o (IF Advances(p, n) THEN <<"work">> ELSE <<>>)
      BY <2>1, <2>6 DEF Start
    <3>2. work' \in WorkSet /\ work'.n = n
      BY <1>1, <2>2, <3>1 DEF WorkSet
    <3>3. writes' \in Seq(Waiter)
      <4>1. <<"work">> \in Seq(Waiter) /\ <<>> \in Seq(Waiter)
        BY DEF Waiter
      <4>2. QED
        BY <3>1, <4>1
    <3>4. progress' \in HandledTo(delivered) /\ (AccountsNext(p) => AccountsNext(progress'))
      BY <1>1, <2>2, <2>5, <3>1, MarkIs, MarkAccounts
    <3>5. queue' \in Seq(1..delivered) /\ work'.n > 0 /\ begun'[work'.n] > 0
      BY <2>1, <2>2, <2>4, <3>2
    <3>6. QED
      BY <2>4, <3>2, <3>3, <3>4, <3>5 DEF RunnerNext
  <2>7. CASE cmd[n].kind \notin Turns
    <3>1. /\ work' = [n |-> n, step |-> "files", aborted |-> FALSE]
          /\ progress' = p /\ writes' = ws
      BY <2>1, <2>7 DEF Start
    <3>2. work' \in WorkSet /\ work'.n = n
      BY <1>1, <2>2, <3>1 DEF WorkSet
    <3>3. QED
      BY <2>1, <2>2, <2>4, <3>1, <3>2 DEF RunnerNext
  <2>8. QED
    BY <2>6, <2>7
<1>4. QED
  BY <1>2, <1>3

(* The runner's part of a step that delivers nothing.                      *)
TickNext == tick' \in [step : TickStep, batch : Seq(1..delivered)]
ProgressNext ==
  /\ progress' \in HandledTo(delivered)
  /\ AccountsNext(progress) => AccountsNext(progress')
PastNext ==
  /\ told' \in [Number -> Nat]
  /\ aborts \subseteq aborts' /\ aborts' \subseteq Number
Effect == RunnerNext /\ TickNext /\ ProgressNext /\ PastNext

(* The command dispatched is marked as handled.                            *)
LEMMA MarkCurrentEffect ==
  ASSUME IInv, NEW p \in HandledTo(delivered), NEW ws \in Seq(Waiter),
         tick.batch # <<>>, SettledNext(Current), MarkCurrent(p, ws)
  PROVE  /\ writes' \in Seq(Waiter) /\ TickNext
         /\ progress' \in HandledTo(delivered)
         /\ AccountsNext(p) => AccountsNext(progress')
<1>1. tick.batch \in Seq(1..delivered)
  BY DEF IInv, RunnerOK
<1>2. Current \in 1..delivered /\ Tail(tick.batch) \in Seq(1..delivered)
  BY <1>1, HeadTail DEF Current
<1>3. progress' = Mark(p, Current)
  BY DEF MarkCurrent
<1>4. progress' \in HandledTo(delivered) /\ (AccountsNext(p) => AccountsNext(progress'))
  <2>1. delivered \in 0..MaxCommand
    BY Types
  <2>2. QED
    BY <1>2, <1>3, <2>1, MarkIs, MarkAccounts
<1>5. TickNext
  <2>1. Dispatched("marking") \/ Dispatched("dispatching")
    BY DEF MarkCurrent
  <2>2. PICK step \in {"marking", "dispatching"} :
           tick' = [step |-> step, batch |-> Tail(tick.batch)]
    BY <2>1 DEF Dispatched
  <2>3. step \in TickStep
    BY DEF TickStep
  <2>4. QED
    BY <1>2, <2>2, <2>3 DEF TickNext
<1>6. writes' \in Seq(Waiter)
  <2>1. Append(ws, "tick") \in Seq(Waiter)
    BY DEF Waiter
  <2>2. QED
    BY <2>1 DEF MarkCurrent
<1>7. QED
  BY <1>4, <1>5, <1>6

(* What a dispatch starts from.                                            *)
LEMMA DispatchFrom ==
  ASSUME IInv, NEW kinds, Dispatching(kinds)
  PROVE  /\ tick.batch # <<>> /\ Current \in 1..delivered /\ Current \in 1..Len(cmd)
         /\ Tail(tick.batch) \in Seq(1..delivered)
         /\ cmd[Current].kind \in kinds /\ cmd' = cmd
         /\ phase = "running" /\ phase' = phase /\ delivered' = delivered
         /\ queue \in Seq(1..delivered) /\ Append(queue, Current) \in Seq(1..delivered)
         /\ writes \in Seq(Waiter) /\ progress \in HandledTo(delivered)
         /\ told \in [Number -> Nat] /\ begun \in [Number -> Nat] /\ aborts \subseteq Number
         /\ work \in WorkSet /\ (work.step # "none" => work.n > 0 /\ begun[work.n] > 0)
<1>1. tick.batch # <<>> /\ cmd[Current].kind \in kinds /\ cmd' = cmd
      /\ phase = "running" /\ phase' = phase /\ delivered' = delivered
  BY DEF Dispatching, files
<1>2. tick.batch \in Seq(1..delivered) /\ queue \in Seq(1..delivered)
  BY DEF IInv, RunnerOK
<1>3. Current \in 1..delivered /\ Tail(tick.batch) \in Seq(1..delivered)
  BY <1>1, <1>2, HeadTail DEF Current
<1>4. Append(queue, Current) \in Seq(1..delivered)
  BY <1>2, <1>3
<1>5. Current \in 1..Len(cmd)
  BY <1>3, Types
<1>6. QED
  BY <1>1, <1>2, <1>3, <1>4, <1>5 DEF IInv, RunnerOK, HandledOK, PastOK

(* It is queued, or started at once.                                       *)
LEMMA EnqueueEffect ==
  ASSUME IInv, NEW kinds, Dispatching(kinds), Enqueue(Current)
  PROVE  RunnerNext /\ ProgressNext
<1>1. CASE Drain(Append(queue, Current), progress, writes)
  BY <1>1, DispatchFrom, DrainEffect DEF ProgressNext
<1>2. CASE queue' = Append(queue, Current) /\ UNCHANGED <<work, progress, writes, begun>>
  BY <1>2, DispatchFrom DEF RunnerNext, ProgressNext, WorkSet
<1>3. QED
  BY <1>1, <1>2 DEF Enqueue

(* The dispatch of each kind of command.                                   *)
LEMMA DispatchQueuedEffect == ASSUME IInv, DispatchQueued PROVE Effect
<1>1. Dispatching(Queued) /\ Enqueue(Current) /\ Dispatched("dispatching")
      /\ UNCHANGED <<told, aborts>>
  BY DEF DispatchQueued
<1>2. RunnerNext /\ ProgressNext
  BY <1>1, EnqueueEffect
<1>3. TickNext
  BY <1>1, DispatchFrom DEF Dispatched, TickNext, TickStep
<1>4. PastNext
  BY <1>1, DispatchFrom DEF PastNext
<1>5. QED
  BY <1>2, <1>3, <1>4 DEF Effect

LEMMA DispatchInjectEffect == ASSUME IInv, DispatchInject PROVE Effect
<1>1. /\ Dispatching({"inject"}) /\ MarkCurrent(progress, writes)
      /\ UNCHANGED <<queue, work, begun, aborts>>
      /\ told' = IF work.step = "chatting" THEN [told EXCEPT ![Current] = @ + 1] ELSE told
  BY DEF DispatchInject
<1>2. SettledNext(Current)
  BY <1>1, DispatchFrom DEF SettledNext, Queued
<1>3. writes' \in Seq(Waiter) /\ TickNext /\ ProgressNext
  BY <1>1, <1>2, DispatchFrom, MarkCurrentEffect DEF ProgressNext
<1>4. RunnerNext
  BY <1>1, <1>3, DispatchFrom DEF RunnerNext
<1>5. told' \in [Number -> Nat]
  <2>1. told \in [Number -> Nat] /\ Current \in Number
    BY <1>1, DispatchFrom, Types DEF Number
  <2>2. told' = told \/ told' = [told EXCEPT ![Current] = @ + 1]
    BY <1>1
  <2>3. QED
    BY <2>1, <2>2
<1>6. PastNext
  BY <1>1, <1>5, DispatchFrom DEF PastNext
<1>7. QED
  BY <1>3, <1>4, <1>6 DEF Effect

LEMMA DispatchLateInjectEffect == ASSUME IInv, DispatchLateInject PROVE Effect
<1>1. Dispatching({"inject"}) /\ UNCHANGED <<told, aborts>>
  BY DEF DispatchLateInject
<1>2. PastNext
  BY <1>1, DispatchFrom DEF PastNext
<1>3. CASE Enqueue(Current) /\ Dispatched("dispatching")
  <2>1. RunnerNext /\ ProgressNext
    BY <1>1, <1>3, EnqueueEffect
  <2>2. TickNext
    BY <1>1, <1>3, DispatchFrom DEF Dispatched, TickNext, TickStep
  <2>3. QED
    BY <1>2, <2>1, <2>2 DEF Effect
<1>4. CASE /\ queue' = Append(queue, Current) /\ MarkCurrent(progress, writes)
           /\ UNCHANGED <<work, begun>>
  <2>1. SettledNext(Current)
    BY <1>1, DispatchFrom DEF SettledNext, Queued
  <2>2. writes' \in Seq(Waiter) /\ TickNext /\ ProgressNext
    BY <1>1, <1>4, <2>1, DispatchFrom, MarkCurrentEffect DEF ProgressNext
  <2>3. RunnerNext
    BY <1>1, <1>4, <2>2, DispatchFrom DEF RunnerNext
  <2>4. QED
    BY <1>2, <2>2, <2>3 DEF Effect
<1>5. QED
  BY <1>3, <1>4 DEF DispatchLateInject

(* A sequence without one of its elements.                                 *)
LEMMA RemoveAtIs ==
  ASSUME NEW S, NEW q \in Seq(S), NEW i \in 1..Len(q)
  PROVE  RemoveAt(q, i) \in Seq(S)
<1>1. SubSeq(q, 1, i - 1) \in Seq(S)
  OBVIOUS
<1>2. SubSeq(q, i + 1, Len(q)) \in Seq(S)
  OBVIOUS
<1>3. QED
  BY <1>1, <1>2 DEF RemoveAt

LEMMA DispatchAbortEffect == ASSUME IInv, DispatchAbort PROVE Effect
<1> DEFINE turn == cmd[Current].turn
<1>1. /\ Dispatching({"abort"}) /\ aborts' = aborts \cup {turn}
      /\ UNCHANGED <<told, begun>>
  BY DEF DispatchAbort, Aborting
<1>2. turn \in 1..Len(cmd) /\ turn \in Number
  <2>1. cmd[Current].kind = "abort" /\ Current \in 1..Len(cmd)
    BY <1>1, DispatchFrom
  <2>2. turn \in 1..Len(cmd)
    BY <2>1 DEF IInv, FilesOK
  <2>3. QED
    BY <2>2, Types DEF Number
<1>3. PastNext
  BY <1>1, <1>2, DispatchFrom DEF PastNext
<1>4. SettledNext(Current)
  BY <1>1, DispatchFrom DEF SettledNext, Queued
<1>5. CASE AbortRunning(turn)
  <2>1. /\ MarkCurrent(progress, writes) /\ UNCHANGED queue
        /\ work' = IF work.n = turn /\ work.step \in {"preparing", "opening", "chatting"}
                   THEN [work EXCEPT !.aborted = TRUE] ELSE work
    BY <1>5 DEF AbortRunning
  <2>2. writes' \in Seq(Waiter) /\ TickNext /\ ProgressNext
    BY <1>1, <1>4, <2>1, DispatchFrom, MarkCurrentEffect DEF ProgressNext
  <2>3. work \in WorkSet /\ (work.step # "none" => work.n > 0 /\ begun[work.n] > 0)
    BY <1>1, DispatchFrom
  <2>4. work' \in WorkSet /\ work'.n = work.n /\ work'.step = work.step
    BY <2>1, <2>3 DEF WorkSet
  <2>5. RunnerNext
    BY <1>1, <2>1, <2>2, <2>3, <2>4, DispatchFrom DEF RunnerNext
  <2>6. QED
    BY <1>3, <2>2, <2>5 DEF Effect
<1>6. CASE \E i \in Queueing(turn) :
             /\ queue' = RemoveAt(queue, i)
             /\ MarkCurrent(Mark(progress, turn),
                  writes \o (IF Advances(progress, turn) THEN <<"nobody">> ELSE <<>>))
             /\ UNCHANGED work
  <2> DEFINE ws == writes \o (IF Advances(progress, turn) THEN <<"nobody">> ELSE <<>>)
             p == Mark(progress, turn)
  <2>1. PICK i \in 1..Len(queue) :
          queue[i] = turn /\ queue' = RemoveAt(queue, i) /\ MarkCurrent(p, ws) /\ UNCHANGED work
    BY <1>6 DEF Queueing, IInv, RunnerOK
  <2>2. queue \in Seq(1..delivered) /\ writes \in Seq(Waiter)
    BY DEF IInv, RunnerOK
  <2>3. turn \in 1..delivered /\ queue' \in Seq(1..delivered)
    <3>1. queue[i] \in 1..delivered
      BY <2>2, ElementIs
    <3>2. RemoveAt(queue, i) \in Seq(1..delivered)
      BY <2>2, RemoveAtIs
    <3>3. QED
      BY <2>1, <3>1, <3>2
  <2>4. ws \in Seq(Waiter)
    <3>1. <<"nobody">> \in Seq(Waiter) /\ <<>> \in Seq(Waiter)
      BY DEF Waiter
    <3>2. QED
      BY <2>2, <3>1
  <2>5. SettledNext(turn)
    BY <1>1 DEF SettledNext
  <2>6. p \in HandledTo(delivered) /\ (AccountsNext(progress) => AccountsNext(p))
    <3>1. delivered \in 0..MaxCommand /\ progress \in HandledTo(delivered)
      BY <1>1, DispatchFrom, Types
    <3>2. QED
      BY <2>3, <2>5, <3>1, MarkIs, MarkAccounts
  <2> HIDE DEF ws, p
  <2>7. /\ writes' \in Seq(Waiter) /\ TickNext /\ progress' \in HandledTo(delivered)
        /\ AccountsNext(p) => AccountsNext(progress')
    <3>1. tick.batch # <<>>
      BY <1>1, DispatchFrom
    <3>2. QED
      BY <1>4, <2>1, <2>4, <2>6, <3>1, MarkCurrentEffect
  <2>8. RunnerNext
    BY <1>1, <2>1, <2>3, <2>7, DispatchFrom DEF RunnerNext, WorkSet
  <2>9. QED
    BY <1>3, <2>6, <2>7, <2>8 DEF Effect, ProgressNext
<1>7. QED
  BY <1>5, <1>6 DEF DispatchAbort

LEMMA DispatchStopEffect == ASSUME IInv, DispatchStop PROVE Effect
<1>1. /\ Dispatching({"stop"}) /\ queue' = <<>> /\ writes' = Append(writes, "tick")
      /\ progress' = [done |-> Current, above |-> progress.above \ (1..Current)]
      /\ Dispatched("stopping") /\ UNCHANGED <<work, told, begun, aborts>>
  BY DEF DispatchStop, past
<1>2. cmd[Current].kind = "stop" /\ Current \in 1..delivered /\ cmd' = cmd
  BY <1>1, DispatchFrom
<1>3. delivered \in Nat /\ progress.above \subseteq 1..delivered
  BY Types DEF IInv, HandledOK, HandledTo
<1>4. progress' \in HandledTo(delivered)
  BY <1>1, <1>2, <1>3 DEF HandledTo
<1>5. ASSUME AccountsNext(progress)
      PROVE  AccountsNext(progress')
  <2>1. ASSUME NEW n \in 1..Current
        PROVE  SettledNext(n) \/ \E s \in 1..Current : n < s /\ cmd'[s].kind = "stop"
    <3>1. CASE n = Current
      BY <1>2, <3>1 DEF SettledNext, Queued
    <3>2. CASE n # Current
      BY <1>2, <1>3, <3>2
    <3>3. QED
      BY <3>1, <3>2
  <2>2. progress'.done = Current /\ progress'.above \subseteq progress.above
    BY <1>1
  <2>3. \A n \in progress'.above : SettledNext(n)
    BY <1>5, <2>2 DEF AccountsNext
  <2>4. AccountedNext(Current)
    BY <2>1 DEF AccountedNext
  <2>5. QED
    BY <2>2, <2>3, <2>4 DEF AccountsNext
<1>6. writes' \in Seq(Waiter)
  BY <1>1, DispatchFrom DEF Waiter
<1>7. TickNext
  BY <1>1, DispatchFrom DEF Dispatched, TickNext, TickStep
<1>8. RunnerNext
  BY <1>1, <1>6, DispatchFrom DEF RunnerNext, WorkSet
<1>9. PastNext
  BY <1>1, DispatchFrom DEF PastNext
<1>10. QED
  BY <1>4, <1>5, <1>7, <1>8, <1>9 DEF Effect, ProgressNext

-----------------------------------------------------------------------------
(* The other steps of the poll.                                            *)
LEMMA IdleRunner ==
  ASSUME IInv, UNCHANGED <<progress, writes, queue, work, told, begun, aborts>>
  PROVE  RunnerNext /\ ProgressNext /\ PastNext
BY Types DEF IInv, RunnerOK, HandledOK, PastOK, RunnerNext, ProgressNext, PastNext, WorkSet

(* What a poll does when it delivers nothing.                              *)
LEMMA PollEffect ==
  ASSUME IInv, PollSeq \/ AwaitCommand \/ EndPoll \/ EndTick
  PROVE  Effect /\ delivered' = delivered /\ cmd' = cmd /\ phase' = phase /\ phase # "down"
<1>1. tick \in [step : TickStep, batch : Seq(1..delivered)]
  BY DEF IInv, RunnerOK
<1>2. UNCHANGED <<cmd, phase, delivered, progress, writes, queue, work, told, begun, aborts>>
  BY DEF PollSeq, AwaitCommand, EndPoll, EndTick, Reading, files, reader, past
<1>3. /\ phase # "down"
      /\ tick' \in {[step |-> "reading", batch |-> <<>>], NoTick,
                    [tick EXCEPT !.step = "dispatching"]}
  <2>1. CASE PollSeq
    BY <2>1 DEF PollSeq
  <2>2. CASE AwaitCommand
    BY <2>2 DEF AwaitCommand, Reading, NoTick, IInv, RunnerOK
  <2>3. CASE EndPoll
    BY <2>3 DEF EndPoll, NoTick, IInv, RunnerOK
  <2>4. CASE EndTick
    BY <2>4 DEF EndTick, NoTick, IInv, RunnerOK
  <2>5. QED
    BY <2>1, <2>2, <2>3, <2>4
<1>4. TickNext
  <2>1. CASE tick' = [step |-> "reading", batch |-> <<>>]
    BY <2>1 DEF TickNext, TickStep
  <2>2. CASE tick' = NoTick
    BY <2>2 DEF TickNext, TickStep, NoTick
  <2>3. CASE tick' = [tick EXCEPT !.step = "dispatching"]
    BY <1>1, <2>3 DEF TickNext, TickStep
  <2>4. QED
    BY <1>3, <2>1, <2>2, <2>3
<1>5. QED
  BY <1>2, <1>3, <1>4, IdleRunner DEF Effect

-----------------------------------------------------------------------------
(* A turn, or file work.                                                   *)
LEMMA WorkStepEffect ==
  ASSUME IInv, NEW from \in {"preparing", "opening", "chatting"},
         NEW to \in {"opening", "chatting", "closing"}, WorkStep(from, to),
         told' = told \/ told' = [told EXCEPT ![work.n] = @ + 1]
  PROVE  Effect /\ phase # "down"
<1>1. /\ work.step = from /\ work' = [work EXCEPT !.step = to]
      /\ UNCHANGED <<progress, writes, tick, queue, begun, aborts>>
  BY DEF WorkStep, reader
<1>2. work \in WorkSet /\ (work.step # "none" => work.n > 0 /\ begun[work.n] > 0)
  BY DEF IInv, RunnerOK
<1>3. work' \in WorkSet /\ work'.n = work.n /\ work'.n > 0 /\ begun[work.n] > 0
  BY <1>1, <1>2 DEF WorkSet
<1>4. RunnerNext
  BY <1>1, <1>3 DEF RunnerNext, IInv, RunnerOK, PastOK
<1>5. TickNext /\ ProgressNext
  BY <1>1 DEF TickNext, ProgressNext, IInv, RunnerOK, HandledOK
<1>6. told' \in [Number -> Nat]
  <2>1. told \in [Number -> Nat]
    BY DEF IInv, PastOK
  <2>2. work.n \in Number
    BY <1>2, <1>3, Types DEF WorkSet, Number
  <2>3. QED
    BY <2>1, <2>2
<1>7. PastNext
  BY <1>1, <1>6 DEF PastNext, IInv, PastOK
<1>8. phase # "down"
  BY <1>1 DEF IInv, RunnerOK, NoWork
<1>9. QED
  BY <1>4, <1>5, <1>7, <1>8 DEF Effect

(* What follows when the runner is free again.                             *)
LEMMA FreeRunnerEffect ==
  ASSUME IInv, NEW p \in HandledTo(delivered), FreeRunner(p),
         AccountsNext(progress) => AccountsNext(p)
  PROVE  Effect
<1>1. Drain(queue, p, writes) /\ UNCHANGED <<tick, told, aborts>>
  BY DEF FreeRunner
<1>2. queue \in Seq(1..delivered) /\ writes \in Seq(Waiter)
  BY DEF IInv, RunnerOK
<1>3. RunnerNext /\ ProgressNext
  BY <1>1, <1>2, DrainEffect DEF ProgressNext
<1>4. TickNext /\ PastNext
  BY <1>1 DEF TickNext, PastNext, IInv, RunnerOK, PastOK
<1>5. QED
  BY <1>3, <1>4 DEF Effect

(* A turn or file work goes on, or ends.                                   *)
LEMMA WorkEffect == ASSUME IInv, WorkSteps PROVE Effect /\ phase # "down"
<1>1. CASE PrepareTurn
  BY <1>1, WorkStepEffect DEF PrepareTurn
<1>2. CASE OpenTurn
  BY <1>2, WorkStepEffect DEF OpenTurn
<1>3. CASE EndTurn
  BY <1>3, WorkStepEffect DEF EndTurn
<1>4. CASE CloseTurn
  <2>1. progress \in HandledTo(delivered)
    BY DEF IInv, HandledOK
  <2>2. phase # "down"
    BY <1>4 DEF CloseTurn, IInv, RunnerOK, NoWork
  <2>3. QED
    BY <1>4, <2>1, <2>2, FreeRunnerEffect DEF CloseTurn
<1>5. CASE EndFiles
  <2>1. work.step = "files" /\ phase # "down" /\ begun[work.n] > 0 /\ work \in WorkSet
    BY <1>5 DEF EndFiles, IInv, RunnerOK, NoWork
  <2>2. work.n \in 1..delivered /\ work.n \in Number
    BY <2>1, Types DEF IInv, RunnerOK, WorkSet, Number
  <2> DEFINE p == Mark(progress, work.n)
  <2>3. begun'[work.n] > 0 => (AccountsNext(progress) => AccountsNext(p))
    <3>1. delivered \in 0..MaxCommand /\ progress \in HandledTo(delivered)
      BY Types DEF IInv, HandledOK
    <3>2. begun'[work.n] > 0 => SettledNext(work.n)
      BY DEF SettledNext
    <3>3. QED
      BY <2>2, <3>1, <3>2, MarkAccounts
  <2>4. p \in HandledTo(delivered)
    BY <2>2, Types, MarkIs DEF IInv, HandledOK
  <2> HIDE DEF p
  <2>5. CASE FreeRunner(p)
    <3>1. queue \in Seq(1..delivered) /\ writes \in Seq(Waiter) /\ Drain(queue, p, writes)
      BY <2>5 DEF IInv, RunnerOK, FreeRunner
    <3>2. RunnerNext
      BY <2>4, <3>1, DrainEffect
    <3>3. begun'[work.n] > 0
      BY <2>1, <2>2, <3>2 DEF RunnerNext, IInv, PastOK
    <3>4. Effect
      BY <2>3, <2>4, <2>5, <3>3, FreeRunnerEffect
    <3>5. QED
      BY <2>1, <3>4
  <2>6. CASE /\ work' = [work EXCEPT !.step = "filed"] /\ progress' = p
             /\ writes' = Append(writes, "work")
             /\ UNCHANGED <<delivered, tick, queue, past>>
    <3>1. UNCHANGED <<tick, queue, told, begun, aborts>>
      BY <2>6 DEF past
    <3>2. ProgressNext
      BY <2>1, <2>3, <2>4, <2>6, <3>1 DEF ProgressNext
    <3>3. work' \in WorkSet /\ work'.n = work.n
      BY <2>1, <2>6 DEF WorkSet
    <3>4. writes' \in Seq(Waiter)
      BY <2>6 DEF Waiter, IInv, RunnerOK
    <3>5. RunnerNext
      BY <2>1, <2>2, <3>1, <3>3, <3>4 DEF RunnerNext, IInv, RunnerOK, PastOK
    <3>6. TickNext /\ PastNext
      BY <3>1 DEF TickNext, PastNext, IInv, RunnerOK, PastOK
    <3>7. QED
      BY <2>1, <3>2, <3>5, <3>6 DEF Effect
  <2>7. QED
    BY <1>5, <2>5, <2>6 DEF EndFiles, p
<1>6. QED
  BY <1>1, <1>2, <1>3, <1>4, <1>5 DEF WorkSteps

-----------------------------------------------------------------------------
(* The end of a write of commands.done.                                    *)
LEMMA WritesWait ==
  ASSUME IInv, writes # <<>>
  PROVE  /\ phase # "down" /\ Tail(writes) \in Seq(Waiter) /\ Head(writes) \in Waiter
         /\ queue \in Seq(1..delivered) /\ progress \in HandledTo(delivered)
         /\ work \in WorkSet /\ tick \in [step : TickStep, batch : Seq(1..delivered)]
BY HeadTail DEF IInv, RunnerOK, HandledOK

(* Work that goes on, and its command is begun.                            *)
LEMMA WorkGoesOn ==
  ASSUME IInv, UNCHANGED begun, work' \in WorkSet, work'.n = work.n,
         work'.step # "none" => work.step # "none",
         writes' \in Seq(Waiter), queue' \in Seq(1..delivered)
  PROVE  RunnerNext
BY DEF RunnerNext, IInv, RunnerOK, PastOK

(* The shutdown empties the queue and aborts the turn.                     *)
LEMMA ShutDownEffect ==
  ASSUME IInv, ShutDown, UNCHANGED begun, writes' \in Seq(Waiter)
  PROVE  RunnerNext /\ phase' = "stopping"
<1>1. work \in WorkSet
  BY DEF IInv, RunnerOK
<1>2. work' \in WorkSet /\ work'.n = work.n /\ work'.step = work.step
  BY <1>1 DEF ShutDown, WorkSet
<1>3. queue' \in Seq(1..delivered)
  BY DEF ShutDown
<1>4. QED
  BY <1>2, <1>3, WorkGoesOn DEF ShutDown

(* A write of commands.done ends or fails.                                 *)
LEMMA WriteEffect ==
  ASSUME IInv, WriteDone \/ WriteFails
  PROVE  Effect /\ phase # "down" /\ phase' \in {phase, "stopping"}
<1>1. writes # <<>> /\ UNCHANGED <<delivered, told, aborts>>
  BY DEF WriteDone, WriteFails, WriteEnds
<1>2. PastNext
  BY <1>1 DEF PastNext, IInv, PastOK
<1>3. ASSUME writes' = Tail(writes), UNCHANGED <<progress, begun, queue>>,
             work' \in WorkSet, work'.n = work.n, work'.step # "none" => work.step # "none",
             TickNext
      PROVE  Effect
  <2>1. RunnerNext
    BY <1>1, <1>3, WritesWait, WorkGoesOn
  <2>2. ProgressNext
    BY <1>1, <1>3, WritesWait DEF ProgressNext
  <2>3. QED
    BY <1>2, <1>3, <2>1, <2>2 DEF Effect
<1>4. ASSUME Drain(queue, progress, Tail(writes)), UNCHANGED tick
      PROVE  Effect
  <2>1. RunnerNext /\ ProgressNext
    BY <1>1, <1>4, WritesWait, DrainEffect DEF ProgressNext
  <2>2. TickNext
    BY <1>1, <1>4, WritesWait DEF TickNext
  <2>3. QED
    BY <1>2, <2>1, <2>2 DEF Effect
<1>5. ASSUME NEW step \in TickStep, tick' = [tick EXCEPT !.step = step]
      PROVE  TickNext
  BY <1>1, <1>5, WritesWait DEF TickNext
<1>6. phase # "down"
  BY <1>1, WritesWait
<1>7. ASSUME WriteDone
      PROVE  Effect /\ phase' \in {phase, "stopping"}
  <2>1. CASE \E step \in {"reading", "dispatching"} :
               WakeTick(step) /\ UNCHANGED <<phase, queue, work>>
    <3>1. PICK step \in {"reading", "dispatching"} :
            WakeTick(step) /\ UNCHANGED <<phase, queue, work>>
      BY <2>1
    <3>2. TickNext
      BY <1>5, <3>1 DEF WakeTick, TickStep
    <3>3. QED
      BY <1>1, <1>3, <3>1, <3>2, WritesWait DEF WakeTick
  <2>2. CASE WakeTick("dispatching") /\ ShutDown
    <3>1. TickNext
      BY <1>5, <2>2 DEF WakeTick, TickStep
    <3>2. RunnerNext /\ phase' = "stopping"
      BY <1>1, <2>2, WritesWait, ShutDownEffect DEF WakeTick
    <3>3. ProgressNext
      BY <1>1, <2>2, WritesWait DEF ProgressNext, WakeTick
    <3>4. QED
      BY <1>2, <3>1, <3>2, <3>3 DEF Effect
  <2>3. CASE /\ work.step = "marking" /\ work' = [work EXCEPT !.step = "preparing"]
             /\ writes' = Tail(writes)
             /\ UNCHANGED <<progress, phase, tick, queue, begun>>
    <3>1. TickNext
      BY <1>1, <2>3, WritesWait DEF TickNext
    <3>2. work' \in WorkSet /\ work'.n = work.n
      BY <1>1, <2>3, WritesWait DEF WorkSet
    <3>3. QED
      BY <1>3, <2>3, <3>1, <3>2
  <2>4. CASE Drain(queue, progress, Tail(writes)) /\ UNCHANGED <<phase, tick>>
    BY <1>4, <2>4
  <2>5. CASE writes' = Tail(writes) /\ UNCHANGED <<progress, runner, begun>>
    <3>1. UNCHANGED <<progress, phase, tick, queue, work, begun>>
      BY <2>5 DEF runner
    <3>2. TickNext
      BY <1>1, <3>1, WritesWait DEF TickNext
    <3>3. QED
      BY <1>1, <1>3, <2>5, <3>1, <3>2, WritesWait
  <2>6. QED
    BY <1>7, <2>1, <2>2, <2>3, <2>4, <2>5 DEF WriteDone
<1>8. ASSUME WriteFails
      PROVE  Effect /\ phase' = phase
  <2>1. CASE /\ tick' = IF tick.step = "stopping" THEN [tick EXCEPT !.step = "dispatching"]
                        ELSE NoTick
             /\ writes' = Tail(writes) /\ UNCHANGED <<progress, phase, queue, work, begun>>
    <3>1. CASE tick' = NoTick
      <4>1. TickNext
        BY <3>1 DEF TickNext, NoTick, TickStep
      <4>2. QED
        BY <1>1, <1>3, <2>1, <4>1, WritesWait
    <3>2. CASE tick' = [tick EXCEPT !.step = "dispatching"]
      <4>1. TickNext
        BY <1>5, <3>2 DEF TickStep
      <4>2. QED
        BY <1>1, <1>3, <2>1, <4>1, WritesWait
    <3>3. QED
      BY <2>1, <3>1, <3>2
  <2>2. CASE Drain(queue, progress, Tail(writes)) /\ UNCHANGED <<phase, tick>>
    BY <1>4, <2>2
  <2>3. CASE writes' = Tail(writes) /\ UNCHANGED <<progress, runner, begun>>
    <3>1. UNCHANGED <<progress, phase, tick, queue, work, begun>>
      BY <2>3 DEF runner
    <3>2. TickNext
      BY <1>1, <3>1, WritesWait DEF TickNext
    <3>3. QED
      BY <1>1, <1>3, <2>3, <3>1, <3>2, WritesWait
  <2>4. QED
    BY <1>8, <2>1, <2>2, <2>3 DEF WriteFails
<1>9. QED
  BY <1>6, <1>7, <1>8

-----------------------------------------------------------------------------
(* Every step: the files, the counts.                                      *)
FilesKept ==
  /\ Len(cmd) <= Len(cmd')
  /\ \A n \in 1..Len(cmd) :
       /\ cmd'[n] = cmd[n]
       /\ writer[n] \in Landed =>
            writer'[n] \in Landed /\ (writer'[n] \in Written <=> writer[n] \in Written)

HarnessSteps ==
  \/ TickSteps \/ WorkSteps \/ WriteDone \/ WriteFails
  \/ Open \/ Terminate \/ Exit \/ Crash \/ UNCHANGED vars

(* The harness writes no file but commands.done.                           *)
LEMMA HarnessFiles ==
  ASSUME IInv, HarnessSteps
  PROVE  UNCHANGED <<cmd, writer, seqFile>> /\ doneFile' \in {doneFile, progress.done}
<1>1. CASE TickSteps
  <2>1. UNCHANGED files
    BY <1>1 DEF TickSteps, PollSeq, ReadCommand, AwaitCommand, SkipCommand, EndPoll, Reading,
         DispatchQueued, DispatchInject, DispatchLateInject, DispatchAbort, Aborting,
         DispatchStop, Dispatching, EndTick
  <2>2. QED
    BY <2>1 DEF files
<1>2. CASE WorkSteps
  <2>1. UNCHANGED files
    BY <1>2 DEF WorkSteps, PrepareTurn, OpenTurn, EndTurn, WorkStep, CloseTurn, EndFiles,
         FreeRunner
  <2>2. QED
    BY <2>1 DEF files
<1>3. CASE WriteDone \/ WriteFails
  BY <1>3 DEF WriteDone, WriteFails, WriteEnds
<1>4. CASE Open \/ Terminate \/ Exit \/ Crash \/ UNCHANGED vars
  <2>1. UNCHANGED files
    BY <1>4 DEF Open, Terminate, Exit, Crash, vars
  <2>2. QED
    BY <2>1 DEF files
<1>5. QED
  BY <1>1, <1>2, <1>3, <1>4 DEF HarnessSteps

(* No command is taken back or changed once it has landed.                 *)
LEMMA FilesStep == ASSUME IInv, [Next]_vars PROVE FilesOK' /\ FilesKept
<1>1. CASE Send
  <2>1. PICK kind \in Kind, turn \in 0..MaxCommand :
          /\ Create(kind, turn)
          /\ kind \in {"inject", "abort"} => turn \in 1..Len(cmd)
    BY <1>1, SendIs
  <2>2. FilesOK'
    BY <2>1, CreateEffect
  <2>3. /\ cmd' = Append(cmd, [kind |-> kind, turn |-> turn])
        /\ writer' = [writer EXCEPT ![Len(cmd) + 1] = "content"]
    BY <2>1 DEF Create
  <2>4. Len(cmd) <= Len(cmd') /\ \A n \in 1..Len(cmd) : cmd'[n] = cmd[n]
    BY <2>3 DEF IInv, FilesOK
  <2>5. \A n \in 1..Len(cmd) : writer'[n] = writer[n]
    BY <2>3, Types DEF IInv, FilesOK, Number
  <2>6. QED
    BY <2>2, <2>4, <2>5 DEF FilesKept
<1>2. CASE WriterSteps
  <2>1. PICK n \in DOMAIN cmd :
          WriteContent(n) \/ LookAtSeq(n) \/ RewriteSeq(n) \/ WriterDies(n)
    BY <1>2 DEF WriterSteps
  <2>2. /\ FilesOK' /\ cmd' = cmd
        /\ \A m \in Number :
             writer[m] \in Landed =>
                writer'[m] \in Landed /\ (writer'[m] \in Written <=> writer[m] \in Written)
    BY <2>1, WriterEffect
  <2>3. 1..Len(cmd) \subseteq Number
    BY Types DEF Number
  <2>4. QED
    BY <2>2, <2>3, Types DEF FilesKept
<1>3. CASE HarnessSteps
  <2>1. UNCHANGED <<cmd, writer, seqFile>> /\ doneFile' \in {doneFile, progress.done}
    BY <1>3, HarnessFiles
  <2>2. doneFile' \in 0..Len(cmd)
    BY <2>1, Types DEF IInv, FilesOK, HandledOK, HandledTo
  <2>3. FilesOK'
    BY <2>1, <2>2 DEF IInv, FilesOK
  <2>4. FilesKept
    BY <2>1, Types DEF FilesKept
  <2>5. QED
    BY <2>3, <2>4
<1>4. QED
  BY <1>1, <1>2, <1>3 DEF Next, HarnessSteps

(* The bounds of crashes and failures.                                     *)
LEMMA CountsStep ==
  ASSUME IInv, [Next]_vars
  PROVE  exits' \in 0..MaxExits /\ failures' \in 0..MaxFailures /\ failures <= failures'
<1>1. /\ exits \in 0..MaxExits /\ failures \in 0..MaxFailures
      /\ MaxExits \in Nat /\ MaxFailures \in Nat
  BY QueueAssumption DEF IInv, PastOK
<1>2. CASE Send
  <2>1. PICK kind \in Kind, turn \in 0..MaxCommand : Create(kind, turn)
    BY <1>2, SendIs
  <2>2. QED
    BY <1>1, <2>1 DEF Create
<1>3. CASE WriterSteps
  BY <1>1, <1>3 DEF WriterSteps, WriteContent, LookAtSeq, RewriteSeq, WriterDies, WriterGoesOn
<1>4. CASE TickSteps
  BY <1>1, <1>4 DEF TickSteps, PollSeq, ReadCommand, AwaitCommand, SkipCommand, EndPoll,
       Reading, DispatchQueued, DispatchInject, DispatchLateInject, DispatchAbort, Aborting,
       DispatchStop, Dispatching, EndTick
<1>5. CASE WorkSteps
  BY <1>1, <1>5 DEF WorkSteps, PrepareTurn, OpenTurn, EndTurn, WorkStep, CloseTurn, EndFiles,
       FreeRunner
<1>6. CASE WriteDone \/ WriteFails
  BY <1>1, <1>6 DEF WriteDone, WriteFails, WriteEnds
<1>7. CASE Open \/ Exit \/ UNCHANGED vars
  BY <1>1, <1>7 DEF Open, Exit, vars
<1>8. CASE Terminate \/ Crash
  BY <1>1, <1>8 DEF Terminate, Crash
<1>9. QED
  BY <1>2, <1>3, <1>4, <1>5, <1>6, <1>7, <1>8 DEF Next

(* What was settled stays settled.                                         *)
LEMMA StillAccounted ==
  ASSUME IInv, FilesKept, begun' \in [Number -> Nat],
         \A n \in Number : begun'[n] >= begun[n], aborts \subseteq aborts'
  PROVE  AccountsNext(progress) /\ AccountedNext(doneFile)
<1>1. ASSUME NEW n \in 1..Len(cmd), n <= delivered \/ n <= doneFile, Settled(n)
      PROVE  SettledNext(n)
  <2>1. writer[n] \in Landed /\ n \in Number
    BY <1>1, Types DEF IInv, ReaderOK, Number
  <2>2. cmd'[n] = cmd[n] /\ (writer'[n] \in Written <=> writer[n] \in Written)
    BY <2>1 DEF FilesKept
  <2>3. begun[n] > 0 => begun'[n] > 0
    BY <2>1 DEF IInv, PastOK
  <2>4. QED
    BY <1>1, <2>2, <2>3 DEF Settled, SettledNext, Whole, Written
<1>2. ASSUME NEW d \in Nat, d <= Len(cmd), d <= delivered \/ d <= doneFile, Accounted(d)
      PROVE  AccountedNext(d)
  <2>1. SUFFICES ASSUME NEW n \in 1..d
                 PROVE  SettledNext(n) \/ \E s \in 1..d : n < s /\ cmd'[s].kind = "stop"
    BY DEF AccountedNext
  <2>2. n \in 1..Len(cmd) /\ (n <= delivered \/ n <= doneFile)
    BY <1>2, Types
  <2>3. CASE Settled(n)
    BY <1>1, <2>2, <2>3
  <2>4. CASE \E s \in 1..d : n < s /\ cmd[s].kind = "stop"
    <3>1. \A s \in 1..d : s \in 1..Len(cmd)
      BY <1>2, Types
    <3>2. QED
      BY <2>4, <3>1 DEF FilesKept
  <2>5. QED
    BY <1>2, <2>3, <2>4 DEF Accounted
<1>3. progress.done \in 0..delivered /\ progress.above \subseteq 1..delivered
  BY DEF IInv, HandledOK, HandledTo
<1>4. AccountedNext(progress.done) /\ AccountedNext(doneFile)
  BY <1>2, <1>3, Types DEF IInv, HandledOK
<1>5. \A n \in progress.above : SettledNext(n)
  BY <1>1, <1>3, Types DEF IInv, HandledOK
<1>6. QED
  BY <1>4, <1>5 DEF AccountsNext

(* The reader's part, from what it has delivered.                          *)
LEMMA ReaderKeeps ==
  ASSUME IInv, FilesOK', FilesKept, highWater' \in 0..Len(cmd'), delivered' \in 0..highWater',
         stuck' \in 0..MaxCommand,
         \A n \in 1..Len(cmd) : n <= delivered' \/ n <= doneFile' => writer[n] \in Landed,
         delivered' <= Len(cmd), doneFile' <= Len(cmd)
  PROVE  ReaderOK'
<1>1. \A n \in 1..Len(cmd') :
         n <= delivered' \/ n <= doneFile' => n \in 1..Len(cmd) /\ writer'[n] \in Landed
  <2>1. Len(cmd) \in Nat /\ Len(cmd') \in Nat /\ delivered' \in Int /\ doneFile' \in Int
    BY Types DEF FilesOK
  <2>2. QED
    BY <2>1 DEF FilesKept
<1>2. QED
  BY <1>1 DEF ReaderOK

(* The commands handled, from what the next state knows of them.           *)
LEMMA HandledKeeps ==
  ASSUME progress' \in HandledTo(delivered'), AccountsNext(progress'), AccountedNext(doneFile')
  PROVE  HandledOK'
BY DEF HandledOK, AccountsNext, AccountedNext, Accounted, SettledNext, Settled, Whole, Written

(* A step that delivers nothing.                                           *)
LEMMA EffectKeeps ==
  ASSUME IInv, [Next]_vars, Effect, delivered' = delivered,
         highWater' = highWater \/ highWater' \in highWater..Len(cmd),
         stuck' \in 0..MaxCommand, doneFile' \in {doneFile, progress.done},
         \/ phase' \in {"running", "stopping"}
         \/ UNCHANGED <<phase, queue, work, tick, writes>>
  PROVE  IInv'
<1>1. FilesOK' /\ FilesKept /\ exits' \in 0..MaxExits /\ failures' \in 0..MaxFailures
  BY FilesStep, CountsStep
<1>2. PastOK'
  BY <1>1 DEF Effect, PastNext, RunnerNext, PastOK
<1>3. RunnerOK'
  <2>1. RunnerNext /\ TickNext
    BY DEF Effect
  <2>2. work' \in WorkSet'
    BY <2>1 DEF RunnerNext, WorkSet
  <2>3. phase' \in {"down", "running", "stopping"}
    BY DEF IInv, RunnerOK
  <2>4. phase' = "down" => queue' = <<>> /\ work' = NoWork /\ tick' = NoTick /\ writes' = <<>>
    BY DEF IInv, RunnerOK
  <2>5. QED
    BY <2>1, <2>2, <2>3, <2>4 DEF RunnerOK, RunnerNext, TickNext, NoWork, NoTick
<1>4. progress.done <= delivered /\ progress.done \in Nat
  BY Types DEF IInv, HandledOK, HandledTo
<1>5. ReaderOK'
  <2>1. Len(cmd') \in Nat /\ Len(cmd) <= Len(cmd')
    BY <1>1 DEF FilesOK, FilesKept
  <2>2. highWater' \in 0..Len(cmd') /\ delivered' \in 0..highWater'
    BY <2>1, Types
  <2>3. \A n \in 1..Len(cmd) : n <= delivered' \/ n <= doneFile' => writer[n] \in Landed
    BY <1>4, Types DEF IInv, ReaderOK
  <2>4. delivered' <= Len(cmd) /\ doneFile' <= Len(cmd)
    BY <1>4, Types
  <2>5. QED
    BY <1>1, <2>2, <2>3, <2>4, ReaderKeeps
<1>6. HandledOK'
  <2>1. AccountsNext(progress) /\ AccountedNext(doneFile)
    BY <1>1, StillAccounted DEF Effect, RunnerNext, PastNext
  <2>2. AccountsNext(progress') /\ progress' \in HandledTo(delivered')
    BY <2>1 DEF Effect, ProgressNext
  <2>3. AccountedNext(doneFile')
    BY <2>1 DEF AccountsNext
  <2>4. QED
    BY <2>2, <2>3, HandledKeeps
<1>7. QED
  BY <1>1, <1>2, <1>3, <1>5, <1>6 DEF IInv

(* The greater of two numbers.                                             *)
LEMMA MaxIs ==
  ASSUME NEW a \in Nat, NEW b \in Nat
  PROVE  Max({a, b}) \in {a, b} /\ Max({a, b}) >= a
<1>1. \E x \in {a, b} : \A y \in {a, b} : x >= y
  <2>1. CASE a >= b
    BY <2>1
  <2>2. CASE b >= a
    BY <2>2
  <2>3. QED
    BY <2>1, <2>2
<1>2. Max({a, b}) \in {a, b} /\ \A y \in {a, b} : Max({a, b}) >= y
  BY <1>1 DEF Max
<1>3. QED
  BY <1>2

(* A step that delivers a command.                                         *)
LEMMA DeliverKeeps == ASSUME IInv, ReadCommand \/ SkipCommand PROVE IInv'
<1>1. [Next]_vars
  BY DEF Next, TickSteps
<1>2. FilesOK' /\ FilesKept /\ exits' \in 0..MaxExits /\ failures' \in 0..MaxFailures
  BY <1>1, FilesStep, CountsStep
<1>3. /\ delivered < highWater /\ delivered' = Next1
      /\ UNCHANGED <<cmd, writer, doneFile, highWater, phase, queue, work, told, begun, aborts>>
  BY DEF ReadCommand, SkipCommand, Reading, files, past
<1>4. /\ Next1 \in Nat /\ delivered < Next1 /\ Next1 <= highWater /\ Next1 \in 1..Len(cmd)
      /\ Next1 \in 1..Next1 /\ Next1 \in 0..MaxCommand /\ Next1 = delivered + 1
  BY <1>3, Types DEF Next1
<1>5. writer[Next1] \in Landed
  BY DEF ReadCommand, SkipCommand, Whole, Landed
<1>6. phase # "down"
  BY DEF ReadCommand, SkipCommand, Reading, IInv, RunnerOK, NoTick
<1>7. PastOK'
  BY <1>2, <1>3 DEF IInv, PastOK
<1>8. ReaderOK'
  <2>1. highWater' \in 0..Len(cmd') /\ delivered' \in 0..highWater' /\ stuck' \in 0..MaxCommand
    BY <1>3, <1>4, Types DEF ReadCommand, SkipCommand, IInv, ReaderOK
  <2>2. \A n \in 1..Len(cmd) : n <= delivered' \/ n <= doneFile' => writer[n] \in Landed
    <3>1. ASSUME NEW n \in 1..Len(cmd), n <= delivered' \/ n <= doneFile'
          PROVE  n <= delivered \/ n <= doneFile \/ n = Next1
      BY <1>3, <1>4, <3>1, Types
    <3>2. QED
      BY <1>5, <3>1 DEF IInv, ReaderOK
  <2>3. delivered' <= Len(cmd) /\ doneFile' <= Len(cmd)
    BY <1>3, <1>4, Types
  <2>4. QED
    BY <1>2, <2>1, <2>2, <2>3, ReaderKeeps
<1>9. \A s \in Seq(1..delivered) : s \in Seq(1..Next1)
  BY <1>4, Types, WiderSeq
<1>10. progress \in HandledTo(Next1)
  BY <1>4, Types DEF IInv, HandledOK, HandledTo
<1>11. AccountsNext(progress) /\ AccountedNext(doneFile)
  <2>1. begun' \in [Number -> Nat] /\ \A n \in Number : begun'[n] >= begun[n]
    BY <1>3 DEF IInv, PastOK
  <2>2. QED
    BY <1>2, <1>3, <2>1, StillAccounted
<1>12. progress' \in HandledTo(Next1) /\ AccountsNext(progress')
  <2>1. CASE ReadCommand
    BY <1>10, <1>11, <2>1 DEF ReadCommand
  <2>2. CASE SkipCommand
    <3>1. progress' = Mark(progress, Next1)
      BY <2>2 DEF SkipCommand
    <3>2. SettledNext(Next1)
      <4>1. cmd[Next1].kind = "invalid" \/ writer[Next1] = "dead"
        BY <2>2 DEF SkipCommand
      <4>2. QED
        BY <1>3, <4>1 DEF SettledNext, Queued, Written
    <3>3. QED
      BY <1>4, <1>10, <1>11, <3>1, <3>2, MarkIs, MarkAccounts
  <2>3. QED
    BY <2>1, <2>2
<1>13. HandledOK'
  BY <1>3, <1>11, <1>12, HandledKeeps
<1>14. tick' \in [step : TickStep, batch : Seq(1..Next1)] /\ writes' \in Seq(Waiter)
  <2>1. tick \in [step : TickStep, batch : Seq(1..Next1)] /\ writes \in Seq(Waiter)
    BY <1>9 DEF IInv, RunnerOK
  <2>2. CASE ReadCommand
    <3>1. tick' = [tick EXCEPT !.batch = Append(@, Next1)] /\ writes' = writes
      BY <2>2 DEF ReadCommand
    <3>2. tick.batch \in Seq(1..Next1)
      BY <2>1
    <3>3. Append(tick.batch, Next1) \in Seq(1..Next1)
      BY <1>4, <3>2
    <3>4. QED
      BY <2>1, <3>1, <3>3
  <2>3. CASE SkipCommand
    <3>1. CASE UNCHANGED <<writes, tick>>
      BY <2>1, <3>1
    <3>2. CASE writes' = Append(writes, "tick") /\ tick' = [tick EXCEPT !.step = "skipping"]
      BY <2>1, <3>2 DEF Waiter, TickStep
    <3>3. QED
      BY <2>3, <3>1, <3>2 DEF SkipCommand
  <2>4. QED
    BY <2>2, <2>3
<1>15. RunnerOK'
  <2>1. queue' \in Seq(1..delivered')
    BY <1>3, <1>9 DEF IInv, RunnerOK
  <2>2. work' \in WorkSet'
    BY <1>3, <1>4, Types DEF IInv, RunnerOK, WorkSet
  <2>3. phase' \in {"down", "running", "stopping"} /\ phase' # "down"
    BY <1>3, <1>6 DEF IInv, RunnerOK
  <2>4. work'.step # "none" => work'.n > 0 /\ begun'[work'.n] > 0
    BY <1>3 DEF IInv, RunnerOK
  <2>5. tick' \in [step : TickStep, batch : Seq(1..delivered')] /\ writes' \in Seq(Waiter)
    BY <1>3, <1>14
  <2>6. QED
    BY <2>1, <2>2, <2>3, <2>4, <2>5 DEF RunnerOK
<1>16. QED
  BY <1>2, <1>7, <1>8, <1>13, <1>15 DEF IInv

-----------------------------------------------------------------------------
(* Clients and their writers, or nothing.                                  *)
LEMMA QuietStep ==
  ASSUME IInv, Send \/ WriterSteps \/ UNCHANGED vars
  PROVE  Effect /\ UNCHANGED <<highWater, delivered, stuck, doneFile, phase, queue, work, tick,
                              writes>>
<1>1. /\ UNCHANGED <<progress, writes, queue, work, told, begun, aborts, tick>>
      /\ UNCHANGED <<highWater, delivered, stuck, doneFile, phase>>
  <2>1. CASE Send
    <3>1. PICK kind \in Kind, turn \in 0..MaxCommand : Create(kind, turn)
      BY <2>1, SendIs
    <3>2. QED
      BY <3>1 DEF Create, reader, runner, past
  <2>2. CASE WriterSteps
    BY <2>2 DEF WriterSteps, WriteContent, LookAtSeq, RewriteSeq, WriterDies, WriterGoesOn,
         reader, runner, past
  <2>3. CASE UNCHANGED vars
    BY <2>3 DEF vars, files, reader, runner, past
  <2>4. QED
    BY <2>1, <2>2, <2>3
<1>2. TickNext
  BY <1>1 DEF TickNext, IInv, RunnerOK
<1>3. QED
  BY <1>1, <1>2, IdleRunner DEF Effect

(* Any dispatch.                                                           *)
LEMMA DispatchEffect ==
  ASSUME IInv,
         \/ DispatchQueued \/ DispatchInject \/ DispatchLateInject
         \/ DispatchAbort \/ DispatchStop
  PROVE  Effect /\ UNCHANGED <<highWater, delivered, stuck, doneFile, phase>> /\ phase # "down"
<1>1. Effect
  BY DispatchQueuedEffect, DispatchInjectEffect, DispatchLateInjectEffect,
     DispatchAbortEffect, DispatchStopEffect
<1>2. \E kinds : Dispatching(kinds)
  BY DEF DispatchQueued, DispatchInject, DispatchLateInject, DispatchAbort, Aborting, DispatchStop
<1>3. UNCHANGED <<highWater, delivered, stuck, doneFile, phase>> /\ phase # "down"
  BY <1>2 DEF Dispatching, files
<1>4. QED
  BY <1>1, <1>3

(* The end of a process, and a new start.                                  *)
LEMMA GoneKeeps == ASSUME IInv, Exit \/ Crash PROVE IInv'
<1>1. [Next]_vars
  BY DEF Next
<1>2. /\ Gone /\ UNCHANGED <<files, past>>
  BY DEF Exit, Crash
<1>3. FilesOK' /\ FilesKept /\ exits' \in 0..MaxExits /\ failures' \in 0..MaxFailures
  BY <1>1, FilesStep, CountsStep
<1>4. /\ UNCHANGED <<cmd, doneFile, told, begun, aborts>>
      /\ highWater' = 0 /\ delivered' = 0 /\ stuck' = 0
  BY <1>2 DEF Gone, files, past
<1>5. PastOK'
  BY <1>3, <1>4 DEF IInv, PastOK
<1>6. RunnerOK'
  BY <1>2 DEF Gone, RunnerOK, NoWork, NoTick, WorkSet, TickStep
<1>7. ReaderOK'
  BY <1>3, <1>4, Types, ReaderKeeps DEF IInv, ReaderOK
<1>8. AccountedNext(doneFile)
  BY <1>3, <1>4, StillAccounted DEF IInv, PastOK
<1>9. HandledOK'
  <2>1. progress' \in HandledTo(delivered') /\ AccountsNext(progress')
    BY <1>2, <1>4 DEF Gone, HandledTo, AccountsNext, AccountedNext
  <2>2. QED
    BY <1>4, <1>8, <2>1, HandledKeeps
<1>10. QED
  BY <1>3, <1>5, <1>6, <1>7, <1>9 DEF IInv

LEMMA OpenKeeps == ASSUME IInv, Open PROVE IInv'
<1>1. [Next]_vars
  BY DEF Next
<1>2. /\ phase = "down" /\ phase' = "running"
      /\ progress' = [done |-> doneFile, above |-> {}]
      /\ delivered' = doneFile /\ highWater' = doneFile
      /\ UNCHANGED <<cmd, doneFile, stuck, writes, tick, queue, work, told, begun, aborts>>
  BY DEF Open, files, past
<1>3. FilesOK' /\ FilesKept /\ exits' \in 0..MaxExits /\ failures' \in 0..MaxFailures
  BY <1>1, FilesStep, CountsStep
<1>4. PastOK'
  BY <1>2, <1>3 DEF IInv, PastOK
<1>5. RunnerOK'
  <2>1. queue' = <<>> /\ work' = NoWork /\ tick' = NoTick /\ writes' = <<>>
    BY <1>2 DEF IInv, RunnerOK
  <2>2. doneFile \in Nat
    BY Types
  <2>3. QED
    BY <1>2, <2>1, <2>2 DEF RunnerOK, NoWork, NoTick, WorkSet, TickStep
<1>6. ReaderOK'
  BY <1>2, <1>3, Types, ReaderKeeps DEF IInv, ReaderOK
<1>7. AccountedNext(doneFile)
  BY <1>2, <1>3, StillAccounted DEF IInv, PastOK
<1>8. HandledOK'
  <2>1. progress' \in HandledTo(delivered')
    BY <1>2, Types DEF HandledTo
  <2>2. AccountsNext(progress')
    BY <1>2, <1>7 DEF AccountsNext
  <2>3. QED
    BY <1>2, <1>7, <2>1, <2>2, HandledKeeps
<1>9. QED
  BY <1>3, <1>4, <1>5, <1>6, <1>8 DEF IInv

(* A signal, an idle exit.                                                 *)
LEMMA TerminateEffect ==
  ASSUME IInv, Terminate
  PROVE  Effect /\ UNCHANGED <<highWater, delivered, stuck, doneFile>> /\ phase' = "stopping"
<1>1. ShutDown /\ UNCHANGED <<files, reader, writes, tick, past>>
  BY DEF Terminate
<1>2. UNCHANGED <<highWater, delivered, stuck, doneFile, progress, writes, tick, told, begun,
                  aborts>>
  BY <1>1 DEF files, reader, past
<1>3. RunnerNext /\ phase' = "stopping"
  BY <1>1, <1>2, ShutDownEffect DEF IInv, RunnerOK
<1>4. TickNext /\ ProgressNext /\ PastNext
  BY <1>2 DEF TickNext, ProgressNext, PastNext, IInv, RunnerOK, HandledOK, PastOK
<1>5. QED
  BY <1>2, <1>3, <1>4 DEF Effect

(* Every step.                                                             *)
LEMMA StepKeeps == ASSUME IInv, [Next]_vars PROVE IInv'
<1>0. stuck \in 0..MaxCommand /\ phase \in {"down", "running", "stopping"}
  BY DEF IInv, ReaderOK, RunnerOK
<1>1. CASE Send \/ WriterSteps \/ UNCHANGED vars
  BY <1>0, <1>1, QuietStep, EffectKeeps
<1>2. CASE TickSteps
  <2>1. CASE ReadCommand \/ SkipCommand
    BY <2>1, DeliverKeeps
  <2>2. CASE \/ DispatchQueued \/ DispatchInject \/ DispatchLateInject
             \/ DispatchAbort \/ DispatchStop
    <3>1. /\ Effect /\ UNCHANGED <<highWater, delivered, stuck, doneFile, phase>>
          /\ phase # "down"
      BY <2>2, DispatchEffect
    <3>2. QED
      BY <1>0, <3>1, EffectKeeps
  <2>3. CASE PollSeq \/ AwaitCommand \/ EndPoll \/ EndTick
    <3>1. Effect /\ delivered' = delivered /\ phase' = phase /\ phase # "down"
      BY <2>3, PollEffect
    <3>2. doneFile' = doneFile
      BY <2>3 DEF PollSeq, AwaitCommand, EndPoll, EndTick, Reading, files
    <3>3. stuck' \in 0..MaxCommand
      <4>1. CASE AwaitCommand
        BY <4>1, Types DEF AwaitCommand, Reading, Next1
      <4>2. CASE PollSeq \/ EndPoll \/ EndTick
        BY <1>0, <4>2 DEF PollSeq, EndPoll, EndTick, reader
      <4>3. QED
        BY <2>3, <4>1, <4>2
    <3>4. highWater' = highWater \/ highWater' \in highWater..Len(cmd)
      <4>1. CASE PollSeq
        <5>1. highWater' = Max({highWater, seqFile})
          BY <4>1 DEF PollSeq
        <5>2. highWater \in Nat /\ seqFile \in Nat /\ highWater <= Len(cmd) /\ seqFile <= Len(cmd)
              /\ Len(cmd) \in Nat
          BY Types DEF IInv, FilesOK
        <5>3. QED
          BY <5>1, <5>2, MaxIs
      <4>2. CASE AwaitCommand \/ EndPoll \/ EndTick
        BY <4>2 DEF AwaitCommand, EndPoll, EndTick, Reading, reader
      <4>3. QED
        BY <2>3, <4>1, <4>2
    <3>5. QED
      BY <1>0, <3>1, <3>2, <3>3, <3>4, EffectKeeps
  <2>4. QED
    BY <1>2, <2>1, <2>2, <2>3 DEF TickSteps
<1>3. CASE WorkSteps \/ WriteDone \/ WriteFails
  <2>1. Effect /\ phase # "down" /\ phase' \in {phase, "stopping"}
    <3>1. CASE WorkSteps
      <4>1. phase' = phase
        BY <3>1 DEF WorkSteps, PrepareTurn, OpenTurn, EndTurn, WorkStep, CloseTurn, EndFiles,
             FreeRunner
      <4>2. QED
        BY <3>1, <4>1, WorkEffect
    <3>2. CASE WriteDone \/ WriteFails
      BY <3>2, WriteEffect
    <3>3. QED
      BY <1>3, <3>1, <3>2
  <2>2. UNCHANGED <<highWater, delivered, stuck>>
    BY <1>3 DEF WorkSteps, PrepareTurn, OpenTurn, EndTurn, WorkStep, CloseTurn, EndFiles,
         FreeRunner, WriteDone, WriteFails, WriteEnds, reader
  <2>3. doneFile' \in {doneFile, progress.done}
    BY <1>3, HarnessFiles DEF HarnessSteps
  <2>4. QED
    BY <1>0, <2>1, <2>2, <2>3, EffectKeeps
<1>4. CASE Terminate
  BY <1>0, <1>4, TerminateEffect, EffectKeeps
<1>5. CASE Open
  BY <1>5, OpenKeeps
<1>6. CASE Exit \/ Crash
  BY <1>6, GoneKeeps
<1>7. QED
  BY <1>1, <1>2, <1>3, <1>4, <1>5, <1>6 DEF Next

(* The type invariant, and QueuedCommandsSurvive.                          *)
LEMMA InvariantSays == IInv => QueueOK
<1> SUFFICES ASSUME IInv PROVE QueueOK
  OBVIOUS
<1>2. \A s \in Seq(1..delivered) : s \in Seq(Number)
  BY Types, WiderSeq DEF Number
<1>3. QueueTypeOK
  <2>1. /\ highWater \in 0..MaxCommand /\ delivered \in 0..highWater
        /\ seqFile \in 0..MaxCommand /\ doneFile \in 0..MaxCommand
    BY Types DEF IInv, FilesOK
  <2>2. tick \in [step : TickStep, batch : Seq(Number)] /\ queue \in Seq(Number)
    BY <1>2 DEF IInv, RunnerOK
  <2>3. work \in [n : 0..MaxCommand, aborted : BOOLEAN,
                  step : {"none", "marking", "preparing", "opening", "chatting",
                          "closing", "files", "filed"}]
    BY Types DEF IInv, RunnerOK, WorkSet
  <2>4. QED
    BY <2>1, <2>2, <2>3
    DEF IInv, FilesOK, ReaderOK, PastOK, RunnerOK, HandledOK, HandledTo, TickStep, Waiter,
        QueueTypeOK
<1>4. QueuedCommandsSurvive
  <2> SUFFICES ASSUME NEW n \in DOMAIN cmd, n <= doneFile, cmd[n].kind \in Queued, Whole(n)
               PROVE  begun[n] > 0 \/ n \in aborts \/ Stopped(n)
    BY DEF QueuedCommandsSurvive
  <2>1. n \in 1..doneFile
    BY Types
  <2>2. CASE Settled(n)
    BY <2>2 DEF Settled
  <2>3. CASE \E s \in 1..doneFile : n < s /\ cmd[s].kind = "stop"
    BY <2>3, Types DEF Stopped
  <2>4. QED
    BY <2>1, <2>2, <2>3 DEF IInv, HandledOK, Accounted
<1>5. QED
  BY <1>3, <1>4 DEF QueueOK

-----------------------------------------------------------------------------
(***************************************************************************)
(* What each command handled was settled by, for every number of commands, *)
(* crashes and failed writes: the inductive invariant.                     *)
(***************************************************************************)
THEOREM HandledIsAccounted == Spec => []IInv
<1>1. Init => IInv
  BY InitOK
<1>2. IInv /\ [Next]_vars => IInv'
  BY StepKeeps
<1>3. QED
  BY <1>1, <1>2, PTL DEF Spec

(***************************************************************************)
(* The state of the command queue keeps its shape, and no message or file  *)
(* command is past commands.done that was not taken off the queue, aborted *)
(* or stopped: what waits in the queue survives its process (runner.ts,    *)
(* finish; command-reader.ts, markHandled).                                *)
(***************************************************************************)
THEOREM QueueSurvives == Spec => []QueueOK
<1>1. IInv => QueueOK
  BY InvariantSays
<1>2. QED
  BY <1>1, HandledIsAccounted, PTL

-----------------------------------------------------------------------------
(* Lines: sequences of numbers that increase.                              *)
Elements(s) == {s[i] : i \in 1..Len(s)}
Increasing(s) == \A i, j \in 1..Len(s) : i < j => s[i] < s[j]

LEMMA AppendToLine ==
  ASSUME NEW s \in Seq(Nat), NEW n \in Nat, Increasing(s), \A x \in Elements(s) : x < n
  PROVE  Increasing(Append(s, n)) /\ Elements(Append(s, n)) = Elements(s) \cup {n}
<1>1. /\ Len(Append(s, n)) = Len(s) + 1 /\ Append(s, n)[Len(s) + 1] = n
      /\ \A i \in 1..Len(s) : Append(s, n)[i] = s[i]
  OBVIOUS
<1>2. Elements(Append(s, n)) = Elements(s) \cup {n}
  BY <1>1 DEF Elements
<1>3. \A i \in 1..Len(s) : s[i] < n
  BY DEF Elements
<1>4. QED
  BY <1>1, <1>2, <1>3 DEF Increasing

LEMMA TailOfLine ==
  ASSUME NEW s \in Seq(Nat), s # <<>>, Increasing(s)
  PROVE  /\ Increasing(Tail(s)) /\ Elements(Tail(s)) = Elements(s) \ {Head(s)}
         /\ Head(s) \in Elements(s) /\ \A x \in Elements(Tail(s)) : Head(s) < x
<1>1. /\ Len(s) \in Nat /\ Len(s) > 0 /\ Len(Tail(s)) = Len(s) - 1 /\ Head(s) = s[1]
      /\ \A i \in 1..(Len(s) - 1) : Tail(s)[i] = s[i + 1]
  OBVIOUS
<1>2. Increasing(Tail(s))
  BY <1>1 DEF Increasing
<1>3. \A x \in Elements(Tail(s)) : Head(s) < x /\ x \in Elements(s)
  BY <1>1 DEF Increasing, Elements
<1>4. Head(s) \in Elements(s) /\ Head(s) \in Nat
  BY <1>1 DEF Elements
<1>5. ASSUME NEW x \in Elements(s), x # Head(s)
      PROVE  x \in Elements(Tail(s))
  <2>1. PICK i \in 1..Len(s) : x = s[i]
    BY <1>5 DEF Elements
  <2>2. i - 1 \in 1..(Len(s) - 1) /\ Tail(s)[i - 1] = x
    BY <1>1, <1>5, <2>1
  <2>3. QED
    BY <1>1, <2>2 DEF Elements
<1>6. QED
  BY <1>2, <1>3, <1>4, <1>5

LEMMA ConcatIs ==
  ASSUME NEW a \in Seq(Nat), NEW b \in Seq(Nat)
  PROVE  /\ Len(a \o b) = Len(a) + Len(b)
         /\ \A k \in 1..Len(a) : (a \o b)[k] = a[k]
         /\ \A k \in (Len(a) + 1)..Len(a \o b) : (a \o b)[k] = b[k - Len(a)]
OBVIOUS

LEMMA RemoveFromLine ==
  ASSUME NEW s \in Seq(Nat), NEW i \in 1..Len(s), Increasing(s)
  PROVE  Increasing(RemoveAt(s, i)) /\ Elements(RemoveAt(s, i)) = Elements(s) \ {s[i]}
<1> DEFINE r == RemoveAt(s, i)
<1>1. /\ Len(s) \in Nat /\ Len(r) = Len(s) - 1
      /\ \A k \in 1..Len(r) : r[k] = IF k < i THEN s[k] ELSE s[k + 1]
  <2> DEFINE a == SubSeq(s, 1, i - 1)
             b == SubSeq(s, i + 1, Len(s))
  <2>1. /\ a \in Seq(Nat) /\ Len(a) = i - 1
        /\ \A k \in 1..(i - 1) : a[k] = s[k]
    OBVIOUS
  <2>2. /\ b \in Seq(Nat) /\ Len(b) = Len(s) - i
        /\ \A k \in 1..(Len(s) - i) : b[k] = s[k + i]
    OBVIOUS
  <2>3. r = a \o b
    BY DEF RemoveAt
  <2>4. Len(s) \in Nat /\ i \in 1..Len(s)
    OBVIOUS
  <2> HIDE DEF a, b, r
  <2>5. Len(r) = Len(s) - 1 /\ \A k \in 1..Len(r) : r[k] = IF k < i THEN a[k] ELSE b[k - i + 1]
    <3>1. Len(r) = Len(s) - 1
      BY <2>1, <2>2, <2>3, <2>4, ConcatIs
    <3>2. \A k \in 1..Len(a) : r[k] = a[k]
      BY <2>1, <2>2, <2>3, ConcatIs
    <3>3. \A k \in (Len(a) + 1)..Len(r) : r[k] = b[k - Len(a)]
      BY <2>1, <2>2, <2>3, ConcatIs
    <3>4. \A k \in 1..Len(r) : k < i => r[k] = a[k]
      BY <2>1, <2>4, <3>1, <3>2
    <3>5. \A k \in 1..Len(r) : ~(k < i) => r[k] = b[k - i + 1]
      <4>1. ASSUME NEW k \in 1..Len(r), ~(k < i)
            PROVE  k \in (Len(a) + 1)..Len(r) /\ k - Len(a) = k - i + 1
        BY <2>1, <2>4, <3>1, <4>1
      <4>2. QED
        BY <3>3, <4>1
    <3>6. QED
      BY <3>1, <3>4, <3>5
  <2>6. ASSUME NEW k \in 1..Len(r)
        PROVE  r[k] = IF k < i THEN s[k] ELSE s[k + 1]
    <3>1. CASE k < i
      BY <2>1, <2>4, <2>5, <3>1
    <3>2. CASE ~(k < i)
      <4>1. k - i + 1 \in 1..(Len(s) - i) /\ k - i + 1 + i = k + 1
        BY <2>4, <2>5, <3>2
      <4>2. b[k - i + 1] = s[k + 1]
        BY <2>2, <4>1
      <4>3. QED
        BY <2>5, <3>2, <4>2
    <3>3. QED
      BY <3>1, <3>2
  <2>7. QED
    BY <2>4, <2>5, <2>6
<1> HIDE DEF r
<1>2. Increasing(r)
  <2> SUFFICES ASSUME NEW j \in 1..Len(r), NEW k \in 1..Len(r), j < k
               PROVE  r[j] < r[k]
    BY DEF Increasing
  <2>1. CASE k < i
    <3>1. j \in 1..Len(s) /\ k \in 1..Len(s) /\ r[j] = s[j] /\ r[k] = s[k]
      BY <1>1, <2>1
    <3>2. QED
      BY <3>1 DEF Increasing
  <2>2. CASE j < i /\ ~(k < i)
    <3>1. j \in 1..Len(s) /\ k + 1 \in 1..Len(s) /\ j < k + 1 /\ r[j] = s[j] /\ r[k] = s[k + 1]
      BY <1>1, <2>2
    <3>2. QED
      BY <3>1 DEF Increasing
  <2>3. CASE ~(j < i)
    <3>1. j + 1 \in 1..Len(s) /\ k + 1 \in 1..Len(s) /\ j + 1 < k + 1 /\ ~(k < i)
      BY <1>1, <2>3
    <3>2. s[j + 1] < s[k + 1]
      BY <3>1 DEF Increasing
    <3>3. QED
      BY <1>1, <2>3, <3>1, <3>2
  <2>4. QED
    BY <1>1, <2>1, <2>2, <2>3
<1>3. ASSUME NEW x \in Elements(r)
      PROVE  x \in Elements(s) /\ x # s[i]
  <2>1. PICK k \in 1..Len(r) : x = r[k]
    BY DEF Elements
  <2>2. CASE k < i
    <3>1. k \in 1..Len(s) /\ x = s[k] /\ s[k] < s[i] /\ s[i] \in Nat /\ s[k] \in Nat
      BY <1>1, <2>1, <2>2 DEF Increasing
    <3>2. QED
      BY <3>1 DEF Elements
  <2>3. CASE ~(k < i)
    <3>1. k + 1 \in 1..Len(s) /\ x = s[k + 1] /\ i < k + 1
      BY <1>1, <2>1, <2>3
    <3>2. s[i] < s[k + 1] /\ s[i] \in Nat /\ s[k + 1] \in Nat
      BY <3>1 DEF Increasing
    <3>3. QED
      BY <3>1, <3>2 DEF Elements
  <2>4. QED
    BY <2>2, <2>3
<1>4. ASSUME NEW x \in Elements(s), x # s[i]
      PROVE  x \in Elements(r)
  <2>1. PICK k \in 1..Len(s) : x = s[k] /\ k # i
    BY <1>4 DEF Elements
  <2>2. CASE k < i
    <3>1. k \in 1..Len(r) /\ r[k] = x
      BY <1>1, <2>1, <2>2
    <3>2. QED
      BY <3>1 DEF Elements
  <2>3. CASE k > i
    <3>1. k - 1 \in 1..Len(r) /\ r[k - 1] = x
      BY <1>1, <2>1, <2>3
    <3>2. QED
      BY <3>1 DEF Elements
  <2>4. QED
    BY <2>1, <2>2, <2>3
<1>5. QED
  BY <1>2, <1>3, <1>4 DEF r

-----------------------------------------------------------------------------
(* The inductive invariant, while commands.done can be written: of the     *)
(* commands c, the queue q, the batch b, what was handled p, the work w.   *)
Handled(p) == 1..p.done \cup p.above

(* What waits is in order, each number once, and nothing of it is handled, *)
(* but injects that became messages.                                       *)
Lines(c, q, b, p, n) ==
  /\ Increasing(q) /\ Increasing(b)
  /\ \A x \in Elements(q), y \in Elements(b) : x < y
  /\ \A y \in Elements(b) : y \notin Handled(p)
  /\ \A x \in Elements(q) : c[x].kind \in Queued => x \notin Handled(p)
  /\ n \notin Elements(q) \cup Elements(b)

(* Nothing that was delivered is forgotten.                                *)
Complete(q, b, p, n, d) ==
  \A m \in 1..d : m \in Handled(p) \cup Elements(q) \cup Elements(b) \cup {n}

(* A message is handled, and on disk, before its turn starts, and none     *)
(* sent after it was told.                                                 *)
Works(c, w, p, t, f) ==
  /\ w.step \notin {"none", "files"} => w.n \in Handled(p)
  /\ w.step \in {"marking", "preparing", "opening"} /\ c[w.n].kind = "message" =>
       /\ \A n \in 1..Len(c) : w.n <= n /\ c[n].kind = "message" => t[n] = 0
       /\ w.n <= IF w.step = "marking" THEN p.done ELSE f

(* What was told is handled up to f.                                       *)
Told(c, t, f) ==
  /\ \A n \in Number : n > Len(c) => t[n] = 0
  /\ \A n \in 1..Len(c) :
       c[n].kind = "message" => t[n] <= 1 /\ (t[n] > 0 => n <= f)

OnceInv ==
  /\ Lines(cmd, queue, tick.batch, progress, work.n)
  /\ tick.step = "idle" => tick.batch = <<>>
  /\ phase = "running" => Complete(queue, tick.batch, progress, work.n, delivered)
  /\ Works(cmd, work, progress, told, doneFile)
  /\ phase # "down" => doneFile <= progress.done
  /\ Told(cmd, told, doneFile)

OnceIInv == IInv /\ (DoneIsWritten => OnceInv)

-----------------------------------------------------------------------------
(* What each operation makes of the lines.                                 *)
LEMMA ElementsIn ==
  ASSUME NEW d \in Nat, NEW s \in Seq(1..d)
  PROVE  s \in Seq(Nat) /\ Elements(s) \subseteq 1..d /\ Elements(s) \subseteq Nat
BY DEF Elements

(* The first of the batch goes to the end of the queue.                    *)
LEMMA QueueHead ==
  ASSUME NEW d \in Nat, NEW c, NEW q \in Seq(1..d), NEW b \in Seq(1..d), NEW p, NEW n,
         b # <<>>, Lines(c, q, b, p, n)
  PROVE  /\ Lines(c, Append(q, Head(b)), Tail(b), p, n)
         /\ \A e : Complete(q, b, p, n, e) => Complete(Append(q, Head(b)), Tail(b), p, n, e)
<1> DEFINE h == Head(b)
<1>1. /\ Increasing(Tail(b)) /\ Elements(Tail(b)) = Elements(b) \ {h}
      /\ h \in Elements(b) /\ \A x \in Elements(Tail(b)) : h < x
  BY ElementsIn, TailOfLine DEF Lines
<1>2. h \in Nat /\ \A x \in Elements(q) : x < h
  BY <1>1, ElementsIn DEF Lines
<1>3. Increasing(Append(q, h)) /\ Elements(Append(q, h)) = Elements(q) \cup {h}
  BY <1>2, ElementsIn, AppendToLine DEF Lines
<1> HIDE DEF h
<1>4. Lines(c, Append(q, h), Tail(b), p, n)
  BY <1>1, <1>3 DEF Lines
<1>5. ASSUME NEW e, Complete(q, b, p, n, e)
      PROVE  Complete(Append(q, h), Tail(b), p, n, e)
  BY <1>1, <1>3, <1>5 DEF Complete
<1>6. QED
  BY <1>4, <1>5 DEF h

(* The first of the batch is marked as handled.                            *)
LEMMA MarkHead ==
  ASSUME NEW d \in 0..MaxCommand, NEW c, NEW q \in Seq(1..d), NEW b \in Seq(1..d),
         NEW p \in HandledTo(d), NEW n, b # <<>>, Lines(c, q, b, p, n)
  PROVE  /\ Lines(c, q, Tail(b), Mark(p, Head(b)), n)
         /\ \A e : Complete(q, b, p, n, e) => Complete(q, Tail(b), Mark(p, Head(b)), n, e)
         /\ Handled(Mark(p, Head(b))) = Handled(p) \cup {Head(b)}
<1> DEFINE h == Head(b)
<1>0. d \in Nat
  BY QueueAssumption
<1>1. /\ Increasing(Tail(b)) /\ Elements(Tail(b)) = Elements(b) \ {h}
      /\ h \in Elements(b) /\ \A x \in Elements(Tail(b)) : h < x
  BY <1>0, ElementsIn, TailOfLine DEF Lines
<1>2. h \in 1..d
  BY <1>0, <1>1, ElementsIn
<1> HIDE DEF h
<1>3. Handled(Mark(p, h)) = Handled(p) \cup {h}
  BY <1>2, MarkIs DEF Handled
<1>4. \A x \in Elements(q) : x < h /\ x \in Nat /\ h \in Nat
  BY <1>0, <1>1, <1>2, ElementsIn DEF Lines
<1>5. Lines(c, q, Tail(b), Mark(p, h), n)
  BY <1>1, <1>3, <1>4 DEF Lines
<1>6. ASSUME NEW e, Complete(q, b, p, n, e)
      PROVE  Complete(q, Tail(b), Mark(p, h), n, e)
  BY <1>1, <1>3, <1>6 DEF Complete
<1>7. QED
  BY <1>3, <1>5, <1>6 DEF h

(* A command in the queue is marked as handled, and leaves it.             *)
LEMMA MarkQueued ==
  ASSUME NEW d \in 0..MaxCommand, NEW c, NEW q \in Seq(1..d), NEW b \in Seq(1..d),
         NEW p \in HandledTo(d), NEW n, NEW i \in 1..Len(q), Lines(c, q, b, p, n)
  PROVE  /\ Lines(c, RemoveAt(q, i), b, Mark(p, q[i]), n)
         /\ \A e : Complete(q, b, p, n, e) => Complete(RemoveAt(q, i), b, Mark(p, q[i]), n, e)
         /\ Handled(Mark(p, q[i])) = Handled(p) \cup {q[i]}
<1> DEFINE h == q[i]
<1>0. d \in Nat
  BY QueueAssumption
<1>1. Increasing(RemoveAt(q, i)) /\ Elements(RemoveAt(q, i)) = Elements(q) \ {h}
  BY <1>0, ElementsIn, RemoveFromLine DEF Lines
<1>2. h \in Elements(q) /\ h \in 1..d
  BY <1>0, ElementsIn DEF Elements
<1> HIDE DEF h
<1>3. Handled(Mark(p, h)) = Handled(p) \cup {h}
  BY <1>2, MarkIs DEF Handled
<1>4. \A y \in Elements(b) : h < y /\ y \in Nat /\ h \in Nat
  BY <1>0, <1>2, ElementsIn DEF Lines
<1>5. Lines(c, RemoveAt(q, i), b, Mark(p, h), n)
  BY <1>1, <1>3, <1>4 DEF Lines
<1>6. ASSUME NEW e, Complete(q, b, p, n, e)
      PROVE  Complete(RemoveAt(q, i), b, Mark(p, h), n, e)
  BY <1>1, <1>3, <1>6 DEF Complete
<1>7. QED
  BY <1>3, <1>5, <1>6 DEF h

(* The first of the queue starts.                                          *)
LEMMA StartHead ==
  ASSUME NEW d \in 0..MaxCommand, NEW c, NEW q \in Seq(1..d), NEW b \in Seq(1..d),
         NEW p \in HandledTo(d), NEW n, q # <<>>, Lines(c, q, b, p, n),
         Complete(q, b, p, n, d), n = 0 \/ n \in Handled(p)
  PROVE  LET h == Head(q)
         IN  /\ h \in 1..d
             /\ Lines(c, Tail(q), b, p, h) /\ Complete(Tail(q), b, p, h, d)
             /\ Lines(c, Tail(q), b, Mark(p, h), h)
             /\ Complete(Tail(q), b, Mark(p, h), h, d)
             /\ Handled(Mark(p, h)) = Handled(p) \cup {h}
             /\ c[h].kind \in Queued => p.done < h /\ h <= Mark(p, h).done
<1> DEFINE h == Head(q)
<1>0. d \in Nat /\ p.done \in 0..d /\ p.above \subseteq 1..d
  BY QueueAssumption DEF HandledTo
<1>1. /\ Increasing(Tail(q)) /\ Elements(Tail(q)) = Elements(q) \ {h}
      /\ h \in Elements(q) /\ \A x \in Elements(Tail(q)) : h < x
  BY <1>0, ElementsIn, TailOfLine DEF Lines
<1>2. h \in 1..d
  BY <1>0, <1>1, ElementsIn
<1> HIDE DEF h
<1>3. \A y \in Elements(b) : h < y /\ y \in Nat
  BY <1>0, <1>1, ElementsIn DEF Lines
<1>4. Lines(c, Tail(q), b, p, h)
  BY <1>1, <1>2, <1>3 DEF Lines
<1>5. Complete(Tail(q), b, p, h, d)
  BY <1>1 DEF Complete, Handled
<1>6. h \notin Elements(Tail(q)) \cup Elements(b)
  BY <1>1, <1>2, <1>3
<1>7. /\ Lines(c, Tail(q), b, Mark(p, h), h)
      /\ Complete(Tail(q), b, Mark(p, h), h, d)
      /\ Handled(Mark(p, h)) = Handled(p) \cup {h}
  <2>1. Handled(Mark(p, h)) = Handled(p) \cup {h}
    BY <1>2, MarkIs DEF Handled
  <2>2. Lines(c, Tail(q), b, Mark(p, h), h)
    BY <1>4, <1>6, <2>1 DEF Lines
  <2>3. Complete(Tail(q), b, Mark(p, h), h, d)
    BY <1>5, <2>1 DEF Complete
  <2>4. QED
    BY <2>1, <2>2, <2>3
<1>8. ASSUME c[h].kind \in Queued
      PROVE  p.done < h /\ h <= Mark(p, h).done
  <2>1. h \notin Handled(p)
    BY <1>1, <1>8 DEF Lines
  <2>2. p.done < h
    BY <1>0, <1>2, <2>1 DEF Handled
  <2>3. (p.done + 1)..(h - 1) \subseteq p.above
    <3>1. ASSUME NEW m \in (p.done + 1)..(h - 1)
          PROVE  m \in p.above
      <4>1. m \in 1..d /\ m < h /\ p.done < m
        BY <1>0, <1>2, <3>1
      <4>2. m \notin Elements(Tail(q)) /\ m \notin Elements(b) /\ m # h
        BY <1>0, <1>1, <1>2, <1>3, <4>1
      <4>3. m \notin Elements(q)
        BY <1>1, <4>2
      <4>4. m \in Handled(p)
        BY <4>1, <4>2, <4>3 DEF Complete
      <4>5. QED
        BY <1>0, <4>1, <4>4 DEF Handled
    <3>2. QED
      BY <3>1
  <2>4. QED
    BY <1>2, <2>2, <2>3, MarkIs
<1>9. c[h].kind \in Queued => p.done < h /\ h <= Mark(p, h).done
  BY <1>8
<1>10. QED
  BY ONLY <1>2, <1>4, <1>5, <1>7, <1>9 DEF h

(* The next command off the queue starts, if any (drain).                  *)
LEMMA DrainOnce ==
  ASSUME IInv, NEW q \in Seq(1..delivered), NEW b \in Seq(1..delivered),
         NEW p \in HandledTo(delivered), NEW ws, NEW n, NEW f,
         Lines(cmd, q, b, p, n), n = 0 \/ n \in Handled(p),
         phase = "running" => Complete(q, b, p, n, delivered),
         Told(cmd, told, p.done), Drain(q, p, ws)
  PROVE  /\ Lines(cmd, queue', b, progress', work'.n)
         /\ phase = "running" => Complete(queue', b, progress', work'.n, delivered)
         /\ Works(cmd, work', progress', told, f)
         /\ p.done <= progress'.done
<1>0. delivered \in 0..MaxCommand /\ delivered \in Nat /\ p.done \in 0..delivered
      /\ DOMAIN cmd = 1..Len(cmd) /\ Len(cmd) \in Nat /\ delivered <= Len(cmd)
  BY Types DEF HandledTo
<1>1. CASE q = <<>> \/ phase # "running"
  <2>1. queue' = q /\ work' = NoWork /\ progress' = p
    BY <1>1 DEF Drain
  <2>2. work'.n = 0 /\ work'.step = "none"
    BY <2>1 DEF NoWork
  <2>3. Lines(cmd, queue', b, progress', 0)
    <3>1. 0 \notin Elements(q) \cup Elements(b)
      BY <1>0, ElementsIn
    <3>2. QED
      BY <2>1, <3>1 DEF Lines
  <2>4. phase = "running" => Complete(queue', b, progress', 0, delivered)
    BY <1>0, <2>1 DEF Complete
  <2>5. Works(cmd, work', progress', told, f)
    BY <2>2 DEF Works
  <2>6. QED
    BY <1>0, <2>1, <2>2, <2>3, <2>4, <2>5
<1>2. CASE q # <<>> /\ phase = "running"
  <2> DEFINE h == Head(q)
  <2>1. queue' = Tail(q) /\ Start(h, p, ws)
    BY <1>2 DEF Drain
  <2>2. /\ h \in 1..delivered
        /\ Lines(cmd, Tail(q), b, p, h) /\ Complete(Tail(q), b, p, h, delivered)
        /\ Lines(cmd, Tail(q), b, Mark(p, h), h)
        /\ Complete(Tail(q), b, Mark(p, h), h, delivered)
        /\ Handled(Mark(p, h)) = Handled(p) \cup {h}
        /\ cmd[h].kind \in Queued => p.done < h /\ h <= Mark(p, h).done
    BY <1>0, <1>2, StartHead
  <2> HIDE DEF h
  <2>3. CASE cmd[h].kind \in Turns
    <3>1. /\ work' = [n |-> h, step |-> IF Advances(p, h) THEN "marking" ELSE "preparing",
                      aborted |-> FALSE]
          /\ progress' = Mark(p, h)
      BY <2>1, <2>3 DEF Start
    <3>2. p.done <= progress'.done
      BY <1>0, <2>2, <3>1, MarkIs
    <3>3. ASSUME cmd[h].kind = "message"
          PROVE  /\ work'.step = "marking" /\ h <= progress'.done
                 /\ \A m \in 1..Len(cmd) : h <= m /\ cmd[m].kind = "message" => told[m] = 0
      <4>1. p.done < h /\ h <= Mark(p, h).done
        BY <2>2, <3>3 DEF Queued
      <4>2. Mark(p, h).done \in 0..delivered
        BY <1>0, <2>2, MarkIs DEF HandledTo
      <4>3. Advances(p, h)
        BY <1>0, <2>2, <4>1, <4>2 DEF Advances
      <4>4. \A m \in 1..Len(cmd) : h <= m /\ cmd[m].kind = "message" => told[m] = 0
        <5>1. ASSUME NEW m \in 1..Len(cmd), h <= m, cmd[m].kind = "message"
              PROVE  told[m] = 0
          <6>1. told[m] \in Nat
            <7>1. told \in [Number -> Nat]
              BY DEF IInv, PastOK
            <7>2. m \in Number
              BY Types DEF Number
            <7>3. QED
              BY <7>1, <7>2
          <6>2. told[m] > 0 => m <= p.done
            BY <5>1 DEF Told
          <6>3. QED
            BY <1>0, <2>2, <4>1, <5>1, <6>1, <6>2
        <5>2. QED
          BY <5>1
      <4>5. QED
        BY <3>1, <4>1, <4>3, <4>4
    <3>4. Works(cmd, work', progress', told, f)
      <4>1. work'.n = h /\ h \in Handled(progress')
        BY <2>2, <3>1
      <4>2. QED
        BY <3>3, <4>1 DEF Works
    <3>5. QED
      BY <2>1, <2>2, <3>1, <3>2, <3>4
  <2>4. CASE cmd[h].kind \notin Turns
    <3>1. work' = [n |-> h, step |-> "files", aborted |-> FALSE] /\ progress' = p
      BY <2>1, <2>4 DEF Start
    <3>2. Works(cmd, work', progress', told, f)
      BY <3>1 DEF Works
    <3>3. QED
      BY <1>0, <2>1, <2>2, <3>1, <3>2
  <2>5. QED
    BY <2>3, <2>4
<1>3. QED
  BY <1>1, <1>2

-----------------------------------------------------------------------------
(* What all the steps need.                                                *)
LEMMA OnceTypes ==
  ASSUME IInv
  PROVE  /\ delivered \in 0..MaxCommand /\ delivered \in Nat
         /\ queue \in Seq(1..delivered) /\ tick.batch \in Seq(1..delivered)
         /\ progress \in HandledTo(delivered) /\ progress.done \in Nat
         /\ progress.done <= delivered /\ Handled(progress) \subseteq 1..delivered
         /\ work.n \in 0..delivered /\ work.n \in Nat
         /\ Elements(queue) \subseteq 1..delivered /\ Elements(tick.batch) \subseteq 1..delivered
<1>1. /\ delivered \in 0..MaxCommand /\ delivered \in Nat
      /\ queue \in Seq(1..delivered) /\ tick.batch \in Seq(1..delivered)
      /\ progress \in HandledTo(delivered) /\ work.n \in 0..delivered
  BY Types DEF IInv, RunnerOK, HandledOK, WorkSet
<1>2. Elements(queue) \subseteq 1..delivered /\ Elements(tick.batch) \subseteq 1..delivered
  BY <1>1, ElementsIn
<1>3. /\ progress.done \in Nat /\ progress.done <= delivered
      /\ Handled(progress) \subseteq 1..delivered
  BY <1>1 DEF HandledTo, Handled
<1>4. QED
  BY <1>1, <1>2, <1>3

LEMMA WorksGrows ==
  ASSUME NEW c, NEW w, NEW p, NEW t, NEW f \in Nat, Works(c, w, p, t, f), w.n \in Nat,
         NEW r, NEW g \in Nat, Handled(p) \subseteq Handled(r), p.done \in Nat, r.done \in Nat,
         p.done <= r.done, f <= g
  PROVE  Works(c, w, r, t, g)
BY DEF Works

LEMMA ToldGrows ==
  ASSUME NEW c, NEW t, NEW f \in Nat, NEW g \in Nat, f <= g, Told(c, t, f), Len(c) \in Nat
  PROVE  Told(c, t, g)
BY DEF Told

(* Steps of others, and none.                                              *)
LEMMA OthersOnce ==
  ASSUME OnceInv, UNCHANGED <<cmd, doneFile, phase, delivered, progress, tick, queue, work, told>>
  PROVE  OnceInv'
BY DEF OnceInv

LEMMA SendOnce == ASSUME IInv, OnceInv, Send PROVE OnceInv'
<1>1. PICK kind \in Kind, turn \in 0..MaxCommand : Create(kind, turn)
  BY SendIs
<1>2. /\ UNCHANGED <<doneFile, phase, delivered, progress, tick, queue, work, told>>
      /\ cmd' = Append(cmd, [kind |-> kind, turn |-> turn]) /\ Len(cmd) + 1 <= MaxCommand
  BY <1>1 DEF Create, reader, runner, past
<1>3. /\ Len(cmd') = Len(cmd) + 1 /\ \A n \in 1..Len(cmd) : cmd'[n] = cmd[n]
      /\ Len(cmd) \in Nat /\ delivered <= Len(cmd) /\ MaxCommand \in Nat
  BY <1>2, Types DEF IInv, FilesOK
<1>4. Lines(cmd, queue, tick.batch, progress, work.n)
      => Lines(cmd', queue, tick.batch, progress, work.n)
  <2>1. \A x \in Elements(queue) : cmd'[x] = cmd[x]
    BY <1>3, OnceTypes
  <2>2. QED
    BY <2>1 DEF Lines
<1>5. \A n \in Number : n > Len(cmd) => told[n] = 0
  BY DEF OnceInv, Told
<1>6. Told(cmd', told, doneFile)
  <2>1. \A n \in Number : n > Len(cmd') => told[n] = 0
    BY <1>3, <1>5 DEF Number
  <2>2. ASSUME NEW n \in 1..Len(cmd'), cmd'[n].kind = "message"
        PROVE  told[n] <= 1 /\ (told[n] > 0 => n <= doneFile)
    <3>1. CASE n \in 1..Len(cmd)
      BY <1>3, <2>2, <3>1 DEF OnceInv, Told
    <3>2. CASE n = Len(cmd) + 1
      <4>1. told[n] = 0
        BY <1>2, <1>3, <1>5, <3>2 DEF Number
      <4>2. QED
        BY <4>1
    <3>3. QED
      BY <1>3, <3>1, <3>2
  <2>3. QED
    BY <2>1, <2>2 DEF Told
<1>7. Works(cmd', work, progress, told, doneFile)
  <2>1. ASSUME work.step \in {"marking", "preparing", "opening"}, cmd'[work.n].kind = "message"
        PROVE  /\ \A n \in 1..Len(cmd') : work.n <= n /\ cmd'[n].kind = "message" => told[n] = 0
               /\ work.n <= IF work.step = "marking" THEN progress.done ELSE doneFile
    <3>1. work.n \in 1..Len(cmd) /\ cmd[work.n].kind = "message"
      BY <1>3, <2>1, OnceTypes DEF IInv, RunnerOK
    <3>2. /\ \A n \in 1..Len(cmd) : work.n <= n /\ cmd[n].kind = "message" => told[n] = 0
          /\ work.n <= IF work.step = "marking" THEN progress.done ELSE doneFile
      BY <2>1, <3>1 DEF OnceInv, Works
    <3>3. told[Len(cmd) + 1] = 0
      BY <1>2, <1>3, <1>5 DEF Number
    <3>4. QED
      BY <1>3, <3>2, <3>3
  <2>2. QED
    BY <2>1 DEF OnceInv, Works
<1>8. QED
  BY <1>2, <1>4, <1>6, <1>7 DEF OnceInv

(* A poll that delivers nothing.                                           *)
LEMMA PollOnce ==
  ASSUME IInv, OnceInv, PollSeq \/ AwaitCommand \/ EndPoll \/ EndTick
  PROVE  OnceInv'
<1>1. UNCHANGED <<cmd, doneFile, phase, delivered, progress, queue, work, told>>
  BY DEF PollSeq, AwaitCommand, EndPoll, EndTick, Reading, files, reader, past
<1>2. /\ tick'.batch = tick.batch \/ (tick'.batch = <<>> /\ phase # "running")
      /\ tick'.step = "idle" => tick'.batch = <<>>
  <2>1. CASE PollSeq
    <3>1. tick.step = "idle" /\ tick' = [step |-> "reading", batch |-> <<>>]
      BY <2>1 DEF PollSeq
    <3>2. tick.batch = <<>>
      BY <3>1 DEF OnceInv
    <3>3. tick'.batch = <<>>
      BY <3>1
    <3>4. QED
      BY <3>2, <3>3
  <2>2. CASE AwaitCommand \/ EndPoll
    <3>1. tick' = [tick EXCEPT !.step = "dispatching"]
      BY <2>2 DEF AwaitCommand, EndPoll
    <3>2. tick \in [step : TickStep, batch : Seq(1..delivered)]
      BY DEF IInv, RunnerOK
    <3>3. tick'.batch = tick.batch /\ tick'.step = "dispatching"
      BY <3>1, <3>2
    <3>4. QED
      BY <3>3
  <2>3. CASE EndTick
    <3>1. tick' = NoTick /\ (tick.batch = <<>> \/ phase # "running")
      BY <2>3 DEF EndTick
    <3>2. tick'.batch = <<>>
      BY <3>1 DEF NoTick
    <3>3. QED
      BY <3>1, <3>2
  <2>4. QED
    BY <2>1, <2>2, <2>3
<1>3. Lines(cmd, queue, tick'.batch, progress, work.n)
  <2>1. CASE tick'.batch = tick.batch
    BY <2>1 DEF OnceInv
  <2>2. CASE tick'.batch = <<>>
    <3>1. Increasing(<<>>) /\ Elements(<<>>) = {}
      BY DEF Increasing, Elements
    <3>2. QED
      BY <2>2, <3>1 DEF OnceInv, Lines
  <2>3. QED
    BY <1>2, <2>1, <2>2
<1>4. phase = "running" => Complete(queue, tick'.batch, progress, work.n, delivered)
  BY <1>2 DEF OnceInv
<1>5. QED
  BY <1>1, <1>2, <1>3, <1>4 DEF OnceInv

(* A command is delivered, or skipped.                                     *)
LEMMA DeliverOnce == ASSUME IInv, OnceInv, ReadCommand \/ SkipCommand PROVE OnceInv'
<1>1. /\ delivered < highWater /\ delivered' = Next1 /\ Next1 = delivered + 1
      /\ UNCHANGED <<cmd, doneFile, phase, queue, work, told>>
  BY DEF ReadCommand, SkipCommand, Reading, files, past, Next1
<1>2. /\ Next1 \in 0..MaxCommand /\ Next1 \in Nat /\ Next1 \in 1..Next1 /\ Next1 \notin 1..delivered
      /\ delivered \in Nat /\ \A m \in 1..Next1 : m \in 1..delivered \/ m = Next1
  BY <1>1, Types
<1>3. /\ Elements(queue) \subseteq 1..delivered /\ Elements(tick.batch) \subseteq 1..delivered
      /\ Handled(progress) \subseteq 1..delivered /\ work.n \in 0..delivered
      /\ tick.batch \in Seq(1..delivered)
  BY OnceTypes
<1>4. tick \in [step : TickStep, batch : Seq(1..delivered)] /\ tick.step = "reading"
  BY DEF IInv, RunnerOK, ReadCommand, SkipCommand, Reading
<1>5. CASE ReadCommand
  <2>1. tick' = [tick EXCEPT !.batch = Append(@, Next1)] /\ progress' = progress
    BY <1>5 DEF ReadCommand
  <2>2. tick'.batch = Append(tick.batch, Next1) /\ tick'.step = "reading"
    BY <1>4, <2>1
  <2>3. \A x \in Elements(tick.batch) \cup Elements(queue) : x < Next1
    BY <1>1, <1>2, <1>3
  <2>4. tick.batch \in Seq(Nat) /\ Increasing(tick.batch)
    BY <1>2, <1>3, ElementsIn DEF OnceInv, Lines
  <2>5. /\ Increasing(tick'.batch)
        /\ Elements(tick'.batch) = Elements(tick.batch) \cup {Next1}
    BY <1>2, <2>2, <2>3, <2>4, AppendToLine
  <2>6. Next1 \notin Handled(progress) /\ Next1 # work.n
    BY <1>1, <1>2, <1>3
  <2>7. Lines(cmd, queue, tick'.batch, progress, work.n)
    BY <2>3, <2>5, <2>6 DEF OnceInv, Lines
  <2>8. ASSUME phase = "running"
        PROVE  Complete(queue, tick'.batch, progress, work.n, Next1)
    BY <1>2, <2>5, <2>8 DEF OnceInv, Complete
  <2>9. QED
    BY <1>1, <2>1, <2>2, <2>7, <2>8 DEF OnceInv
<1>6. CASE SkipCommand
  <2>1. progress' = Mark(progress, Next1)
    BY <1>6 DEF SkipCommand
  <2>2. tick'.batch = tick.batch /\ (tick'.step = "idle" => FALSE)
    <3>1. tick' = tick \/ tick' = [tick EXCEPT !.step = "skipping"]
      BY <1>6 DEF SkipCommand
    <3>2. QED
      BY <1>4, <3>1
  <2>3. progress \in HandledTo(Next1)
    BY <1>1, <1>2, OnceTypes DEF HandledTo
  <2>4. Handled(progress') = Handled(progress) \cup {Next1} /\ progress.done <= progress'.done
        /\ progress'.done \in Nat
    BY <1>2, <2>1, <2>3, MarkIs DEF Handled, HandledTo
  <2>5. Next1 \notin Elements(queue) \cup Elements(tick.batch)
    BY <1>2, <1>3
  <2>6. Lines(cmd, queue, tick.batch, progress', work.n)
    BY <2>4, <2>5 DEF OnceInv, Lines
  <2>7. ASSUME phase = "running"
        PROVE  Complete(queue, tick.batch, progress', work.n, Next1)
    BY <1>2, <2>4, <2>7 DEF OnceInv, Complete
  <2>8. /\ progress.done \in Nat /\ doneFile \in Nat /\ work.n \in Nat
    BY Types, OnceTypes
  <2>9. Works(cmd, work, progress', told, doneFile)
    BY <2>4, <2>8, WorksGrows DEF OnceInv
  <2>10. phase # "down" => doneFile <= progress'.done
    BY <2>4, <2>8 DEF OnceInv
  <2>11. QED
    BY <1>1, <2>2, <2>6, <2>7, <2>9, <2>10 DEF OnceInv
<1>7. QED
  BY <1>5, <1>6

-----------------------------------------------------------------------------
(* The dispatch of each kind of command.                                   *)
LEMMA DispatchStart ==
  ASSUME IInv, OnceInv, NEW kinds, Dispatching(kinds)
  PROVE  /\ UNCHANGED <<cmd, doneFile, phase, delivered>> /\ phase = "running"
         /\ tick.batch # <<>> /\ Current = Head(tick.batch) /\ Current \in 1..delivered
         /\ cmd[Current].kind \in kinds /\ Tail(tick.batch) \in Seq(1..delivered)
         /\ Lines(cmd, queue, tick.batch, progress, work.n)
         /\ Complete(queue, tick.batch, progress, work.n, delivered)
         /\ Works(cmd, work, progress, told, doneFile)
         /\ doneFile <= progress.done /\ doneFile \in Nat /\ Told(cmd, told, doneFile)
         /\ Told(cmd, told, progress.done)
<1>1. UNCHANGED doneFile
  BY DEF Dispatching, files
<1>2. Told(cmd, told, progress.done)
  <2>1. doneFile <= progress.done
    BY DispatchFrom DEF OnceInv
  <2>2. QED
    BY <2>1, Types, OnceTypes, ToldGrows DEF OnceInv
<1>3. QED
  BY <1>1, <1>2, DispatchFrom, Types DEF OnceInv, Current

(* The types, after a step.                                                *)
LEMMA NextTypes ==
  ASSUME IInv'
  PROVE  /\ progress'.done \in Nat /\ doneFile' \in Nat /\ work'.n \in Nat
         /\ Len(cmd') \in Nat
<1>1. doneFile' \in 0..Len(cmd') /\ Len(cmd') \in Nat
  BY DEF IInv, FilesOK
<1>2. delivered' \in Nat
  BY <1>1 DEF IInv, ReaderOK
<1>3. progress' \in [done : 0..delivered', above : SUBSET (1..delivered')]
  BY DEF IInv, HandledOK, HandledTo
<1>4. work'.n \in 0..delivered'
  BY DEF IInv, RunnerOK, WorkSet
<1>5. QED
  BY <1>1, <1>2, <1>3, <1>4

(* One more command in the queue, or at once at work.                      *)
LEMMA EnqueueOnce ==
  ASSUME IInv, IInv', OnceInv, NEW kinds, Dispatching(kinds), Enqueue(Current),
         Dispatched("dispatching"), UNCHANGED told
  PROVE  OnceInv'
<1> DEFINE q == Append(queue, Current)
           b == Tail(tick.batch)
<1>1. tick'.batch = b /\ tick'.step # "idle"
  BY DEF Dispatched
<1>2. q \in Seq(1..delivered) /\ b \in Seq(1..delivered)
  BY DispatchFrom
<1>3. Lines(cmd, q, b, progress, work.n) /\ Complete(q, b, progress, work.n, delivered)
  <2>1. /\ Lines(cmd, queue, tick.batch, progress, work.n) /\ tick.batch # <<>>
        /\ Complete(queue, tick.batch, progress, work.n, delivered)
        /\ Current = Head(tick.batch) /\ delivered \in Nat
        /\ queue \in Seq(1..delivered) /\ tick.batch \in Seq(1..delivered)
    BY DispatchStart, OnceTypes
  <2>2. QED
    BY <2>1, QueueHead
<1> HIDE DEF q, b
<1>4. CASE work = NoWork /\ Drain(q, progress, writes)
  <2>1. work.n = 0
    BY <1>4 DEF NoWork
  <2>2. /\ Lines(cmd, queue', b, progress', work'.n)
        /\ Complete(queue', b, progress', work'.n, delivered)
        /\ Works(cmd, work', progress', told, doneFile)
        /\ progress.done <= progress'.done
    BY <1>2, <1>3, <1>4, <2>1, DispatchStart, OnceTypes, DrainOnce
  <2>3. doneFile <= progress'.done
    BY <2>2, DispatchStart, OnceTypes, NextTypes
  <2>4. QED
    BY <1>1, <2>2, <2>3, DispatchStart DEF OnceInv
<1>5. CASE queue' = q /\ UNCHANGED <<work, progress>>
  BY <1>1, <1>3, <1>5, DispatchStart DEF OnceInv
<1>6. QED
  BY <1>4, <1>5 DEF Enqueue, q

(* A dispatch that ends with markHandled, from progress p.                 *)
LEMMA MarkCurrentOnce ==
  ASSUME IInv, IInv', OnceInv, NEW kinds, Dispatching(kinds),
         NEW p \in HandledTo(delivered), NEW ws, MarkCurrent(p, ws),
         Lines(cmd, queue', Tail(tick.batch), Mark(p, Current), work.n),
         Complete(queue', Tail(tick.batch), Mark(p, Current), work.n, delivered),
         progress.done <= p.done, Handled(progress) \subseteq Handled(p),
         work'.n = work.n, work'.step = work.step,
         \A n \in 1..Len(cmd) : cmd[n].kind = "message" => told'[n] = told[n],
         \A n \in Number : n > Len(cmd) => told'[n] = told[n]
  PROVE  OnceInv'
<1>1. progress' = Mark(p, Current) /\ tick'.batch = Tail(tick.batch) /\ tick'.step # "idle"
  <2>1. progress' = Mark(p, Current) /\ (Dispatched("marking") \/ Dispatched("dispatching"))
    BY DEF MarkCurrent
  <2>2. CASE Dispatched("marking")
    BY <2>1, <2>2 DEF Dispatched
  <2>3. CASE Dispatched("dispatching")
    BY <2>1, <2>3 DEF Dispatched
  <2>4. QED
    BY <2>1, <2>2, <2>3
<1>2. Current \in 1..delivered /\ delivered \in 0..MaxCommand
  BY DispatchFrom, OnceTypes
<1>3. progress.done <= progress'.done /\ Handled(progress) \subseteq Handled(progress')
  <2>1. /\ p.done <= Mark(p, Current).done
        /\ Handled(p) \subseteq Handled(Mark(p, Current))
    BY <1>2, MarkIs DEF Handled
  <2>2. p.done \in Nat
    BY <1>2, OnceTypes DEF HandledTo
  <2>3. QED
    BY <1>1, <2>1, <2>2, OnceTypes, NextTypes
<1>4. Works(cmd, work, progress, told, doneFile) /\ Told(cmd, told, doneFile)
      /\ doneFile <= progress.done /\ doneFile \in Nat
  BY DispatchStart
<1>5. Works(cmd, work, progress', told, doneFile)
  BY <1>3, <1>4, OnceTypes, NextTypes, WorksGrows
<1>6. Works(cmd, work', progress', told', doneFile)
  BY <1>5 DEF Works
<1>7. Told(cmd, told', doneFile)
  BY <1>4 DEF Told
<1>8. doneFile <= progress'.done
  BY <1>3, <1>4, OnceTypes, NextTypes
<1>9. QED
  BY <1>1, <1>6, <1>7, <1>8, DispatchStart DEF OnceInv

LEMMA DispatchQueuedOnce == ASSUME IInv, IInv', OnceInv, DispatchQueued PROVE OnceInv'
BY EnqueueOnce DEF DispatchQueued

LEMMA DispatchInjectOnce == ASSUME IInv, IInv', OnceInv, DispatchInject PROVE OnceInv'
<1>1. /\ Dispatching({"inject"}) /\ MarkCurrent(progress, writes)
      /\ UNCHANGED <<queue, work>>
      /\ told' = told \/ told' = [told EXCEPT ![Current] = @ + 1]
  BY DEF DispatchInject
<1>2. /\ Lines(cmd, queue, Tail(tick.batch), Mark(progress, Current), work.n)
      /\ Complete(queue, Tail(tick.batch), Mark(progress, Current), work.n, delivered)
  <2>1. /\ Lines(cmd, queue, tick.batch, progress, work.n) /\ tick.batch # <<>>
        /\ Complete(queue, tick.batch, progress, work.n, delivered)
        /\ Current = Head(tick.batch)
    BY <1>1, DispatchStart
  <2>2. QED
    BY <2>1, OnceTypes, MarkHead
<1>3. /\ \A n \in 1..Len(cmd) : cmd[n].kind = "message" => told'[n] = told[n]
      /\ \A n \in Number : n > Len(cmd) => told'[n] = told[n]
  <2>1. cmd[Current].kind = "inject" /\ Current \in 1..Len(cmd) /\ told \in [Number -> Nat]
    BY <1>1, DispatchFrom
  <2>2. Len(cmd) \in Nat /\ \A n \in 1..Len(cmd) : n \in Number
    BY Types DEF Number
  <2>3. QED
    BY <1>1, <2>1, <2>2
<1>4. QED
  BY <1>1, <1>2, <1>3, OnceTypes, MarkCurrentOnce

LEMMA DispatchLateInjectOnce == ASSUME IInv, IInv', OnceInv, DispatchLateInject PROVE OnceInv'
<1>1. Dispatching({"inject"}) /\ UNCHANGED told
  BY DEF DispatchLateInject
<1>2. CASE Enqueue(Current) /\ Dispatched("dispatching")
  BY <1>1, <1>2, EnqueueOnce
<1>3. CASE queue' = Append(queue, Current) /\ MarkCurrent(progress, writes) /\ UNCHANGED work
  <2> DEFINE q == Append(queue, Current)
             b == Tail(tick.batch)
  <2>1. /\ Lines(cmd, queue, tick.batch, progress, work.n) /\ tick.batch # <<>>
        /\ Complete(queue, tick.batch, progress, work.n, delivered)
        /\ Current = Head(tick.batch) /\ cmd[Current].kind = "inject" /\ Current \in 1..delivered
    BY <1>1, DispatchStart
  <2>2. Lines(cmd, q, b, progress, work.n) /\ Complete(q, b, progress, work.n, delivered)
    BY <2>1, OnceTypes, QueueHead
  <2>3. Current \in Elements(q)
    <3>1. Len(q) = Len(queue) + 1 /\ q[Len(q)] = Current /\ Len(q) \in 1..Len(q)
      BY OnceTypes
    <3>2. QED
      BY <3>1 DEF Elements
  <2>4. b \in Seq(1..delivered) /\ Elements(b) \subseteq Nat
    BY <1>1, DispatchFrom, OnceTypes, ElementsIn
  <2> HIDE DEF q, b
  <2>5. \A y \in Elements(b) : y # Current
    BY <2>1, <2>2, <2>3, <2>4, OnceTypes DEF Lines
  <2>6. Handled(Mark(progress, Current)) = Handled(progress) \cup {Current}
    BY <2>1, OnceTypes, MarkIs DEF Handled
  <2>7. Lines(cmd, q, b, Mark(progress, Current), work.n)
    BY <2>1, <2>2, <2>5, <2>6 DEF Lines, Queued
  <2>8. Complete(q, b, Mark(progress, Current), work.n, delivered)
    BY <2>2, <2>6 DEF Complete
  <2>9. QED
    BY <1>1, <1>3, <2>7, <2>8, OnceTypes, MarkCurrentOnce DEF q, b
<1>4. QED
  BY <1>2, <1>3 DEF DispatchLateInject

LEMMA DispatchAbortOnce == ASSUME IInv, IInv', OnceInv, DispatchAbort PROVE OnceInv'
<1> DEFINE turn == cmd[Current].turn
           b == Tail(tick.batch)
<1>1. Dispatching({"abort"}) /\ UNCHANGED told
  BY DEF DispatchAbort, Aborting
<1>2. /\ Lines(cmd, queue, tick.batch, progress, work.n) /\ tick.batch # <<>>
      /\ Complete(queue, tick.batch, progress, work.n, delivered)
      /\ Current = Head(tick.batch)
  BY <1>1, DispatchStart
<1>3. CASE AbortRunning(turn)
  <2>1. queue' = queue /\ MarkCurrent(progress, writes)
        /\ (work' = work \/ work' = [work EXCEPT !.aborted = TRUE])
    BY <1>3 DEF AbortRunning
  <2>2. work'.n = work.n /\ work'.step = work.step
    <3>1. work \in WorkSet
      BY DEF IInv, RunnerOK
    <3>2. QED
      BY <2>1, <3>1 DEF WorkSet
  <2>3. /\ Lines(cmd, queue, b, Mark(progress, Current), work.n)
        /\ Complete(queue, b, Mark(progress, Current), work.n, delivered)
    BY <1>2, OnceTypes, MarkHead
  <2>4. QED
    BY <1>1, <2>1, <2>2, <2>3, OnceTypes, MarkCurrentOnce
<1>4. ASSUME NEW ws, NEW i \in DOMAIN queue, queue[i] = turn, queue' = RemoveAt(queue, i),
             MarkCurrent(Mark(progress, turn), ws), UNCHANGED work
      PROVE  OnceInv'
  <2> DEFINE p == Mark(progress, turn)
             q == RemoveAt(queue, i)
  <2>1. i \in 1..Len(queue) /\ turn \in 1..delivered
    BY <1>4, OnceTypes, ElementIs
  <2>2. p \in HandledTo(delivered) /\ progress.done <= p.done
    BY <2>1, OnceTypes, MarkIs
  <2>3. /\ Lines(cmd, q, tick.batch, p, work.n)
        /\ Complete(q, tick.batch, p, work.n, delivered)
        /\ Handled(p) = Handled(progress) \cup {turn}
    <3>1. /\ Lines(cmd, q, tick.batch, Mark(progress, queue[i]), work.n)
          /\ Complete(queue, tick.batch, progress, work.n, delivered)
               => Complete(q, tick.batch, Mark(progress, queue[i]), work.n, delivered)
          /\ Handled(Mark(progress, queue[i])) = Handled(progress) \cup {queue[i]}
      <4>1. /\ delivered \in 0..MaxCommand /\ queue \in Seq(1..delivered)
            /\ tick.batch \in Seq(1..delivered) /\ progress \in HandledTo(delivered)
        BY OnceTypes
      <4>2. i \in 1..Len(queue) /\ Lines(cmd, queue, tick.batch, progress, work.n)
        BY <1>2, <2>1
      <4>3. Lines(cmd, RemoveAt(queue, i), tick.batch, Mark(progress, queue[i]), work.n)
        BY <4>1, <4>2, MarkQueued
      <4>4. Complete(queue, tick.batch, progress, work.n, delivered)
               => Complete(RemoveAt(queue, i), tick.batch, Mark(progress, queue[i]), work.n, delivered)
        BY <4>1, <4>2, MarkQueued
      <4>5. Handled(Mark(progress, queue[i])) = Handled(progress) \cup {queue[i]}
        BY <1>4, <2>1, <4>1, MarkIs DEF Handled
      <4>6. QED
        BY <4>3, <4>4, <4>5
    <3>2. QED
      BY <1>2, <1>4, <3>1
  <2>4. q \in Seq(1..delivered)
    BY <2>1, OnceTypes, RemoveAtIs
  <2> HIDE DEF p, q
  <2>5. /\ Lines(cmd, q, b, Mark(p, Current), work.n)
        /\ Complete(q, b, Mark(p, Current), work.n, delivered)
    BY <1>2, <2>2, <2>3, <2>4, OnceTypes, MarkHead
  <2>6. MarkCurrent(p, ws) /\ queue' = q
    BY <1>4 DEF p, q
  <2>7. QED
    BY <1>1, <1>4, <2>2, <2>3, <2>5, <2>6, MarkCurrentOnce
<1>5. QED
  BY <1>3, <1>4 DEF DispatchAbort, Queueing

LEMMA DispatchStopOnce == ASSUME IInv, IInv', OnceInv, DispatchStop PROVE OnceInv'
<1> DEFINE b == Tail(tick.batch)
<1>1. /\ Dispatching({"stop"}) /\ UNCHANGED <<work, told>> /\ queue' = <<>>
      /\ progress' = [done |-> Current, above |-> progress.above \ (1..Current)]
      /\ tick'.batch = b /\ tick'.step # "idle"
  BY DEF DispatchStop, Dispatched, past
<1>2. /\ Lines(cmd, queue, tick.batch, progress, work.n) /\ tick.batch # <<>>
      /\ Complete(queue, tick.batch, progress, work.n, delivered)
      /\ Current = Head(tick.batch) /\ Current \in 1..delivered
      /\ Works(cmd, work, progress, told, doneFile) /\ doneFile <= progress.done
      /\ doneFile \in Nat
  BY <1>1, DispatchStart
<1>3. /\ Increasing(b) /\ Elements(b) = Elements(tick.batch) \ {Current}
      /\ Current \in Elements(tick.batch) /\ \A y \in Elements(b) : Current < y
  BY <1>2, OnceTypes, ElementsIn, TailOfLine DEF Lines
<1>4. progress.done < Current /\ Current \in Nat
  BY <1>2, <1>3, OnceTypes DEF Lines, Handled
<1>5. Handled(progress') = Handled(progress) \cup 1..Current
  BY <1>1, <1>4, OnceTypes DEF Handled
<1>6. Lines(cmd, <<>>, b, progress', work.n)
  <2>1. Increasing(<<>>) /\ Elements(<<>>) = {}
    BY DEF Increasing, Elements
  <2>2. \A y \in Elements(b) : y \in Nat /\ y \notin 1..Current
    BY <1>3, <1>4, OnceTypes
  <2>3. QED
    BY <1>2, <1>3, <1>5, <2>1, <2>2 DEF Lines
<1>7. Complete(<<>>, b, progress', work.n, delivered)
  <2>1. \A x \in Elements(queue) : x \in 1..Current
    BY <1>2, <1>3, <1>4, OnceTypes DEF Lines
  <2>2. Current \in 1..Current
    BY <1>2, OnceTypes
  <2>3. QED
    BY <1>2, <1>3, <1>5, <2>1, <2>2 DEF Complete
<1>8. Works(cmd, work, progress', told, doneFile)
  <2>1. progress'.done = Current /\ Handled(progress) \subseteq Handled(progress')
    BY <1>1, <1>5
  <2>2. QED
    BY <1>2, <1>4, <2>1, OnceTypes, WorksGrows
<1>9. doneFile <= progress'.done
  BY <1>1, <1>2, <1>4, OnceTypes
<1>10. QED
  BY <1>1, <1>6, <1>7, <1>8, <1>9, DispatchStart DEF OnceInv

-----------------------------------------------------------------------------
(* A turn, or file work, from start to end.                                *)
LEMMA FreeRunnerOnce ==
  ASSUME IInv, IInv', OnceInv, phase # "down", NEW p \in HandledTo(delivered), FreeRunner(p),
         Lines(cmd, queue, tick.batch, p, work.n), work.n \in Handled(p),
         phase = "running" => Complete(queue, tick.batch, p, work.n, delivered),
         progress.done <= p.done
  PROVE  OnceInv'
<1>1. /\ Drain(queue, p, writes)
      /\ UNCHANGED <<cmd, doneFile, delivered, phase, tick, told>>
  BY DEF FreeRunner, files
<1>2. p.done \in Nat /\ doneFile \in Nat /\ doneFile <= progress.done /\ doneFile <= p.done
  BY Types, OnceTypes DEF HandledTo, OnceInv
<1>3. Told(cmd, told, p.done)
  BY <1>2, Types, ToldGrows DEF OnceInv
<1>4. /\ Lines(cmd, queue', tick.batch, progress', work'.n)
      /\ phase = "running" => Complete(queue', tick.batch, progress', work'.n, delivered)
      /\ Works(cmd, work', progress', told, doneFile)
      /\ p.done <= progress'.done
  BY <1>1, <1>3, OnceTypes, DrainOnce
<1>5. doneFile <= progress'.done
  BY <1>2, <1>4, NextTypes
<1>6. QED
  BY <1>1, <1>4, <1>5 DEF OnceInv

(* Work is at hand only in a process.                                      *)
LEMMA WorkIs ==
  ASSUME IInv, OnceInv, work.step # "none"
  PROVE  /\ phase # "down" /\ work.n \in 1..delivered /\ work.n \in 1..Len(cmd)
         /\ work \in WorkSet /\ told \in [Number -> Nat] /\ 1..Len(cmd) \subseteq Number
         /\ doneFile <= progress.done /\ Works(cmd, work, progress, told, doneFile)
         /\ Told(cmd, told, doneFile)
<1>1. phase # "down" /\ work \in WorkSet /\ work.n > 0
  BY DEF IInv, RunnerOK, NoWork
<1>2. work.n \in 1..delivered /\ work.n \in 1..Len(cmd) /\ 1..Len(cmd) \subseteq Number
  BY <1>1, Types, OnceTypes DEF Number
<1>3. told \in [Number -> Nat]
  BY DEF IInv, PastOK
<1>4. QED
  BY <1>1, <1>2, <1>3 DEF OnceInv

LEMMA WorkStepOnce ==
  ASSUME IInv, OnceInv, NEW from, NEW to, from # "none", WorkStep(from, to),
         Works(cmd, work', progress, told', doneFile), Told(cmd, told', doneFile)
  PROVE  OnceInv'
<1>1. UNCHANGED <<cmd, doneFile, delivered, progress, phase, tick, queue>>
  BY DEF WorkStep, files, reader
<1>2. work'.n = work.n
  BY WorkIs DEF WorkStep, WorkSet
<1>3. QED
  BY <1>1, <1>2 DEF OnceInv

LEMMA TurnOnce == ASSUME IInv, IInv', OnceInv, PrepareTurn \/ OpenTurn \/ EndTurn PROVE OnceInv'
<1>1. ASSUME NEW from \in {"preparing", "opening", "chatting"},
             NEW to \in {"opening", "chatting", "closing"}, WorkStep(from, to)
      PROVE  /\ work'.n = work.n /\ work.step = from /\ work'.step = to
             /\ Works(cmd, work, progress, told, doneFile) /\ Told(cmd, told, doneFile)
             /\ work.n \in 1..Len(cmd) /\ told \in [Number -> Nat]
             /\ 1..Len(cmd) \subseteq Number /\ Len(cmd) \in Nat
  BY <1>1, WorkIs, Types DEF WorkStep, WorkSet
<1>2. CASE PrepareTurn
  <2>1. WorkStep("preparing", "opening") /\ told' = told
    BY <1>2 DEF PrepareTurn
  <2>2. Works(cmd, work', progress, told', doneFile) /\ Told(cmd, told', doneFile)
    BY <1>1, <2>1 DEF Works
  <2>3. QED
    BY <2>1, <2>2, WorkStepOnce
<1>3. CASE EndTurn
  <2>1. WorkStep("chatting", "closing") /\ told' = told
    BY <1>3 DEF EndTurn
  <2>2. Works(cmd, work', progress, told', doneFile) /\ Told(cmd, told', doneFile)
    BY <1>1, <2>1 DEF Works
  <2>3. QED
    BY <2>1, <2>2, WorkStepOnce
<1>4. CASE OpenTurn /\ WorkStep("opening", "closing") /\ told' = told
  <2>1. Works(cmd, work', progress, told', doneFile) /\ Told(cmd, told', doneFile)
    BY <1>1, <1>4 DEF Works
  <2>2. QED
    BY <1>4, <2>1, WorkStepOnce
<1>5. CASE OpenTurn /\ WorkStep("opening", "chatting") /\ told' = [told EXCEPT ![work.n] = @ + 1]
  <2>1. Works(cmd, work', progress, told', doneFile)
    BY <1>1, <1>5 DEF Works
  <2>2. /\ \A n \in Number : n # work.n => told'[n] = told[n]
        /\ told'[work.n] = told[work.n] + 1 /\ work.n \in 1..Len(cmd)
    BY <1>1, <1>5
  <2>3. cmd[work.n].kind = "message" => told[work.n] = 0 /\ work.n <= doneFile
    BY <1>1, <1>5 DEF Works
  <2>4. Told(cmd, told', doneFile)
    <3>1. \A n \in Number : n > Len(cmd) => told'[n] = 0
      BY <1>1, <1>5, <2>2 DEF Told
    <3>2. ASSUME NEW n \in 1..Len(cmd), cmd[n].kind = "message"
          PROVE  told'[n] <= 1 /\ (told'[n] > 0 => n <= doneFile)
      <4>1. CASE n = work.n
        BY <2>2, <2>3, <3>2, <4>1
      <4>2. CASE n # work.n
        BY <1>1, <1>5, <2>2, <3>2, <4>2 DEF Told
      <4>3. QED
        BY <4>1, <4>2
    <3>3. QED
      BY <3>1, <3>2 DEF Told
  <2>5. QED
    BY <1>5, <2>1, <2>4, WorkStepOnce
<1>6. QED
  BY <1>2, <1>3, <1>4, <1>5 DEF OpenTurn

LEMMA CloseOnce == ASSUME IInv, IInv', OnceInv, CloseTurn \/ EndFiles PROVE OnceInv'
<1>1. CASE CloseTurn
  <2>1. work.step = "closing" /\ FreeRunner(progress)
    BY <1>1 DEF CloseTurn
  <2>2. phase # "down" /\ work.n \in Handled(progress)
    BY <2>1, WorkIs DEF Works
  <2>3. progress.done <= progress.done
    BY OnceTypes
  <2>4. QED
    BY <2>1, <2>2, <2>3, OnceTypes, FreeRunnerOnce DEF OnceInv
<1>2. CASE EndFiles
  <2> DEFINE p == Mark(progress, work.n)
  <2>1. work.step = "files" /\ phase # "down" /\ work.n \in 1..delivered
    BY <1>2, WorkIs DEF EndFiles
  <2>2. p \in HandledTo(delivered) /\ progress.done <= p.done
    BY <2>1, OnceTypes, MarkIs
  <2>3. /\ Lines(cmd, queue, tick.batch, p, work.n)
        /\ \A e : Complete(queue, tick.batch, progress, work.n, e)
                    => Complete(queue, tick.batch, p, work.n, e)
        /\ Handled(p) = Handled(progress) \cup {work.n}
    <3>1. /\ Lines(cmd, queue, tick.batch, progress, work.n)
          /\ work.n \notin Elements(queue) \cup Elements(tick.batch)
      BY DEF OnceInv, Lines
    <3>2. Handled(p) = Handled(progress) \cup {work.n}
      BY <2>1, OnceTypes, MarkIs DEF Handled
    <3> HIDE DEF p
    <3>3. QED
      BY <3>1, <3>2 DEF Lines, Complete
  <2> HIDE DEF p
  <2>4. phase = "running" => Complete(queue, tick.batch, p, work.n, delivered)
    BY <2>3 DEF OnceInv
  <2>5. CASE /\ work' = [work EXCEPT !.step = "filed"] /\ progress' = p
             /\ UNCHANGED <<cmd, doneFile, delivered, phase, tick, queue, told>>
    <3>1. work'.n = work.n /\ work'.step = "filed"
      BY <2>1, <2>5, WorkIs DEF WorkSet
    <3>2. Works(cmd, work', progress', told, doneFile)
      BY <2>3, <2>5, <3>1 DEF Works
    <3>3. doneFile <= progress'.done
      BY <2>1, <2>2, <2>5, WorkIs, Types, OnceTypes, NextTypes
    <3>4. QED
      BY <2>3, <2>4, <2>5, <3>1, <3>2, <3>3 DEF OnceInv
  <2>6. CASE FreeRunner(p)
    BY <2>1, <2>2, <2>3, <2>4, <2>6, FreeRunnerOnce
  <2>7. QED
    BY <1>2, <2>5, <2>6 DEF EndFiles, files, past, p
<1>3. QED
  BY <1>1, <1>2

LEMMA WorkOnce == ASSUME IInv, IInv', OnceInv, WorkSteps PROVE OnceInv'
BY TurnOnce, CloseOnce DEF WorkSteps

-----------------------------------------------------------------------------
(* A write of commands.done, and the ends of a process.                    *)
LEMMA ShutDownOnce ==
  ASSUME IInv, OnceInv, ShutDown, UNCHANGED <<cmd, delivered, progress, told>>,
         tick'.batch = tick.batch, tick'.step = "idle" => tick.step = "idle",
         doneFile' <= progress.done, Works(cmd, work, progress, told, doneFile'),
         Told(cmd, told, doneFile')
  PROVE  OnceInv'
<1>1. phase' = "stopping" /\ queue' = <<>> /\ work'.n = work.n /\ work'.step = work.step
  <2>1. work \in WorkSet
    BY DEF IInv, RunnerOK
  <2>2. QED
    BY <2>1 DEF ShutDown, WorkSet
<1>2. Lines(cmd, <<>>, tick.batch, progress, work.n)
  <2>1. Increasing(<<>>) /\ Elements(<<>>) = {}
    BY DEF Increasing, Elements
  <2>2. QED
    BY <2>1 DEF OnceInv, Lines
<1>3. Works(cmd, work', progress, told, doneFile')
  BY <1>1 DEF Works
<1>4. QED
  BY <1>1, <1>2, <1>3 DEF OnceInv

LEMMA WriteOnce == ASSUME IInv, IInv', OnceInv, WriteDone PROVE OnceInv'
<1>1. /\ writes # <<>> /\ UNCHANGED <<cmd, delivered, told>> /\ doneFile' = progress.done
      /\ phase # "down" /\ work \in WorkSet
      /\ tick \in [step : TickStep, batch : Seq(1..delivered)]
  BY WritesWait DEF WriteDone, WriteEnds
<1>2. /\ doneFile <= doneFile' /\ doneFile' \in Nat /\ doneFile \in Nat
      /\ doneFile' <= progress.done
  BY <1>1, Types, OnceTypes DEF OnceInv
<1>3. Works(cmd, work, progress, told, doneFile') /\ Told(cmd, told, doneFile')
  <2>1. Handled(progress) \subseteq Handled(progress) /\ progress.done <= progress.done
    BY OnceTypes
  <2>2. Works(cmd, work, progress, told, doneFile) /\ Told(cmd, told, doneFile)
    BY DEF OnceInv
  <2>3. QED
    BY <1>2, <2>1, <2>2, Types, OnceTypes, WorksGrows, ToldGrows
<1>4. ASSUME NEW step \in TickStep \ {"idle"}, WakeTick(step), UNCHANGED <<phase, queue, work>>
      PROVE  OnceInv'
  <2>1. tick'.batch = tick.batch /\ tick'.step # "idle" /\ progress' = progress
    BY <1>1, <1>4 DEF WakeTick
  <2>2. QED
    BY <1>1, <1>2, <1>3, <1>4, <2>1 DEF OnceInv
<1>5. CASE WakeTick("dispatching") /\ ShutDown
  <2>1. tick'.batch = tick.batch /\ tick'.step # "idle" /\ progress' = progress
    BY <1>1, <1>5 DEF WakeTick
  <2>2. QED
    BY <1>1, <1>2, <1>3, <1>5, <2>1, ShutDownOnce
<1>6. CASE /\ work.step = "marking" /\ work' = [work EXCEPT !.step = "preparing"]
           /\ UNCHANGED <<progress, phase, tick, queue>>
  <2>1. work'.n = work.n /\ work'.step = "preparing"
    BY <1>1, <1>6 DEF WorkSet
  <2>2. Works(cmd, work', progress, told, doneFile')
    BY <1>1, <1>3, <1>6, <2>1 DEF Works
  <2>3. QED
    BY <1>1, <1>2, <1>3, <1>6, <2>1, <2>2 DEF OnceInv
<1>7. CASE work.step = "filed" /\ Drain(queue, progress, Tail(writes)) /\ UNCHANGED <<phase, tick>>
  <2>1. work.n \in Handled(progress)
    BY <1>3, <1>7 DEF Works
  <2>2. /\ Lines(cmd, queue, tick.batch, progress, work.n)
        /\ phase = "running" => Complete(queue, tick.batch, progress, work.n, delivered)
        /\ Told(cmd, told, progress.done)
    BY <1>1, <1>3 DEF OnceInv
  <2>3. /\ Lines(cmd, queue', tick.batch, progress', work'.n)
        /\ phase = "running" => Complete(queue', tick.batch, progress', work'.n, delivered)
        /\ Works(cmd, work', progress', told, doneFile')
        /\ progress.done <= progress'.done
    BY <1>7, <2>1, <2>2, OnceTypes, DrainOnce
  <2>4. QED
    BY <1>1, <1>3, <1>7, <2>3 DEF OnceInv
<1>8. CASE UNCHANGED <<progress, phase, tick, queue, work>>
  BY <1>1, <1>2, <1>3, <1>8 DEF OnceInv
<1>9. \/ /\ WakeTick("reading") \/ WakeTick("dispatching")
         /\ UNCHANGED <<phase, queue, work>>
      \/ WakeTick("dispatching") /\ ShutDown
      \/ /\ work.step = "marking" /\ work' = [work EXCEPT !.step = "preparing"]
         /\ UNCHANGED <<progress, phase, tick, queue>>
      \/ work.step = "filed" /\ Drain(queue, progress, Tail(writes)) /\ UNCHANGED <<phase, tick>>
      \/ UNCHANGED <<progress, phase, tick, queue, work>>
  BY DEF WriteDone, runner
<1>10. QED
  BY <1>4, <1>5, <1>6, <1>7, <1>8, <1>9 DEF TickStep

LEMMA EndsOnce == ASSUME IInv, IInv', OnceInv, Terminate \/ Exit \/ Crash \/ Open PROVE OnceInv'
<1>0. Increasing(<<>>) /\ Elements(<<>>) = {}
  BY DEF Increasing, Elements
<1>1. CASE Terminate
  <2>1. /\ ShutDown /\ phase = "running"
        /\ UNCHANGED <<cmd, doneFile, delivered, progress, told, tick>>
    BY <1>1 DEF Terminate, files, reader, past
  <2>2. /\ doneFile <= progress.done /\ Works(cmd, work, progress, told, doneFile)
        /\ Told(cmd, told, doneFile)
    BY <2>1 DEF OnceInv
  <2>3. QED
    BY <2>1, <2>2, ShutDownOnce
<1>2. CASE Exit \/ Crash
  <2>1. Gone /\ UNCHANGED <<cmd, doneFile, told>>
    BY <1>2 DEF Exit, Crash, files, past
  <2>2. /\ phase' = "down" /\ queue' = <<>> /\ tick'.batch = <<>> /\ tick'.step = "idle"
        /\ work'.n = 0 /\ work'.step = "none"
    BY <2>1 DEF Gone, NoTick, NoWork
  <2>3. Lines(cmd, queue', tick'.batch, progress', work'.n)
    BY <1>0, <2>2 DEF Lines
  <2>4. Works(cmd, work', progress', told, doneFile)
    BY <2>2 DEF Works
  <2>5. QED
    BY <2>1, <2>2, <2>3, <2>4 DEF OnceInv
<1>3. CASE Open
  <2>1. /\ queue = <<>> /\ work = NoWork /\ tick = NoTick
    BY <1>3 DEF Open, IInv, RunnerOK
  <2>2. /\ UNCHANGED <<cmd, doneFile, told>> /\ phase' = "running"
        /\ queue' = <<>> /\ tick'.batch = <<>> /\ work'.n = 0 /\ work'.step = "none"
        /\ progress'.done = doneFile /\ delivered' = doneFile
    BY <1>3, <2>1 DEF Open, files, past, NoTick, NoWork
  <2>3. Lines(cmd, queue', tick'.batch, progress', work'.n)
    BY <1>0, <2>2 DEF Lines
  <2>4. Complete(queue', tick'.batch, progress', work'.n, delivered')
    BY <2>2 DEF Complete, Handled
  <2>5. Works(cmd, work', progress', told, doneFile)
    BY <2>2 DEF Works
  <2>6. doneFile <= progress'.done
    BY <2>2, Types
  <2>7. QED
    BY <2>2, <2>3, <2>4, <2>5, <2>6 DEF OnceInv
<1>4. QED
  BY <1>1, <1>2, <1>3

-----------------------------------------------------------------------------
(* The invariant is inductive.                                             *)
LEMMA OnceInit == Init => OnceIInv
<1> SUFFICES ASSUME Init PROVE OnceIInv
  OBVIOUS
<1>1. IInv
  BY InitOK
<1>2. /\ queue = <<>> /\ tick.batch = <<>> /\ work.n = 0 /\ work.step = "none"
      /\ progress.above = {} /\ phase = "down" /\ doneFile = 0 /\ progress.done = 0
      /\ told = [n \in Number |-> 0] /\ cmd = <<>>
  BY DEF Init, NoTick, NoWork
<1>3. Increasing(<<>>) /\ Elements(<<>>) = {}
  BY DEF Increasing, Elements
<1>4. Lines(cmd, queue, tick.batch, progress, work.n)
  BY <1>2, <1>3 DEF Lines
<1>5. Works(cmd, work, progress, told, doneFile) /\ Told(cmd, told, doneFile)
  BY <1>2 DEF Works, Told
<1>6. QED
  BY <1>1, <1>2, <1>4, <1>5 DEF OnceIInv, OnceInv

LEMMA OnceKeeps == ASSUME OnceIInv, [Next]_vars PROVE OnceIInv'
<1>1. IInv /\ IInv'
  BY StepKeeps DEF OnceIInv
<1> SUFFICES ASSUME failures' = 0 PROVE OnceInv'
  BY <1>1 DEF OnceIInv, DoneIsWritten
<1>2. OnceInv
  <2>1. failures \in Nat /\ failures <= failures'
    BY <1>1, CountsStep, QueueAssumption DEF IInv, PastOK
  <2>2. failures = 0
    BY <2>1
  <2>3. QED
    BY <2>2 DEF OnceIInv, DoneIsWritten
<1>3. ~WriteFails
  BY <1>1, QueueAssumption DEF WriteFails, IInv, PastOK
<1>4. CASE Send
  BY <1>1, <1>2, <1>4, SendOnce
<1>5. CASE WriterSteps \/ UNCHANGED vars
  <2>1. UNCHANGED <<cmd, doneFile, phase, delivered, progress, tick, queue, work, told>>
    BY <1>5 DEF WriterSteps, WriteContent, LookAtSeq, RewriteSeq, WriterDies, WriterGoesOn,
         vars, files, reader, runner, past
  <2>2. QED
    BY <1>2, <2>1, OthersOnce
<1>6. CASE TickSteps
  BY <1>1, <1>2, <1>6, PollOnce, DeliverOnce, DispatchQueuedOnce, DispatchInjectOnce,
     DispatchLateInjectOnce, DispatchAbortOnce, DispatchStopOnce DEF TickSteps
<1>7. CASE WorkSteps \/ WriteDone
  BY <1>1, <1>2, <1>7, WorkOnce, WriteOnce
<1>8. CASE Open \/ Terminate \/ Exit \/ Crash
  BY <1>1, <1>2, <1>8, EndsOnce
<1>9. QED
  BY <1>3, <1>4, <1>5, <1>6, <1>7, <1>8 DEF Next

(* What is said to the model is said by two steps.                         *)
LEMMA ToldSteps ==
  ASSUME IInv, [Next]_vars
  PROVE  told' = told \/ OpenTurn \/ DispatchInject
<1>1. CASE Send
  <2>1. PICK kind \in Kind, turn \in 0..MaxCommand : Create(kind, turn)
    BY <1>1, SendIs
  <2>2. QED
    BY <2>1 DEF Create, past
<1>2. CASE WriterSteps
  BY <1>2 DEF WriterSteps, WriteContent, LookAtSeq, RewriteSeq, WriterDies, WriterGoesOn, past
<1>3. CASE TickSteps
  BY <1>3 DEF TickSteps, PollSeq, ReadCommand, AwaitCommand, SkipCommand, EndPoll, Reading,
       DispatchQueued, DispatchLateInject, DispatchAbort, Aborting, DispatchStop, EndTick, past
<1>4. CASE WorkSteps
  BY <1>4 DEF WorkSteps, PrepareTurn, EndTurn, CloseTurn, EndFiles, FreeRunner, past
<1>5. CASE WriteDone \/ WriteFails
  BY <1>5 DEF WriteDone, WriteFails, WriteEnds
<1>6. CASE Open \/ Terminate \/ Exit \/ Crash \/ UNCHANGED vars
  BY <1>6 DEF Open, Terminate, Exit, Crash, vars, past
<1>7. QED
  BY <1>1, <1>2, <1>3, <1>4, <1>5, <1>6 DEF Next

(***************************************************************************)
(* What waits is in order and complete, and a message is handled on disk   *)
(* before its turn starts, while commands.done can be written: the         *)
(* inductive invariant.                                                    *)
(***************************************************************************)
THEOREM HandledBeforeTold == Spec => []OnceIInv
<1>1. Init => OnceIInv
  BY OnceInit
<1>2. OnceIInv /\ [Next]_vars => OnceIInv'
  BY OnceKeeps
<1>3. QED
  BY <1>1, <1>2, PTL DEF Spec

(***************************************************************************)
(* No message is given to the model a second time, however often its       *)
(* process ends, while commands.done can be written (runner.ts, runQueued).*)
(***************************************************************************)
THEOREM MessageIsToldOnce == Spec => []MessageRunsOnce
<1>1. OnceIInv => MessageRunsOnce
  BY Types DEF OnceIInv, OnceInv, Told, MessageRunsOnce
<1>2. QED
  BY <1>1, HandledBeforeTold, PTL

(***************************************************************************)
(* Messages become turns in the order they were sent (command-reader.ts,   *)
(* poll; runner.ts, drain): when one is given to the model the first time, *)
(* no later one was.                                                       *)
(***************************************************************************)
THEOREM TurnsKeepTheirOrder == Spec => TurnsInOrder
<1> DEFINE Ordered ==
             DoneIsWritten => \A m, n \in DOMAIN cmd :
               /\ m < n /\ cmd[m].kind = "message" /\ cmd[n].kind = "message"
               /\ told[m] = 0 /\ told'[m] > 0
               => told[n] = 0
<1>1. OnceIInv /\ [Next]_vars => [Ordered]_vars
  <2> SUFFICES ASSUME OnceIInv, [Next]_vars, DoneIsWritten,
                      NEW m \in DOMAIN cmd, NEW n \in DOMAIN cmd, m < n,
                      cmd[m].kind = "message", cmd[n].kind = "message",
                      told[m] = 0, told'[m] > 0
               PROVE  told[n] = 0
    OBVIOUS
  <2>1. IInv /\ OnceInv /\ m \in 1..Len(cmd) /\ n \in 1..Len(cmd) /\ Len(cmd) \in Nat
    BY Types DEF OnceIInv
  <2>2. told \in [Number -> Nat] /\ m \in Number
    BY <2>1, Types DEF IInv, PastOK, Number
  <2>3. told'[m] # told[m]
    OBVIOUS
  <2>4. told' = told \/ OpenTurn \/ DispatchInject
    BY ToldSteps, <2>1
  <2>5. CASE DispatchInject
    <3>1. /\ Dispatching({"inject"})
          /\ told' = told \/ told' = [told EXCEPT ![Current] = @ + 1]
      BY <2>5 DEF DispatchInject
    <3>2. cmd[Current].kind = "inject"
      BY <3>1, <2>1, DispatchFrom
    <3>3. QED
      BY <2>2, <2>3, <3>1, <3>2
  <2>6. CASE OpenTurn
    <3>1. work.step = "opening" /\ told' = [told EXCEPT ![work.n] = @ + 1]
      BY <2>3, <2>6 DEF OpenTurn, WorkStep
    <3>2. work.n = m
      BY <2>2, <2>3, <3>1
    <3>3. QED
      BY <2>1, <3>1, <3>2 DEF OnceInv, Works
  <2>7. QED
    BY <2>3, <2>4, <2>5, <2>6
<1>2. QED
  BY <1>1, HandledBeforeTold, PTL DEF TurnsInOrder, Spec
=============================================================================
