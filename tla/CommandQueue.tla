---------------------------- MODULE CommandQueue ----------------------------
(***************************************************************************)
(* The commands clients send to a session, and what the harness makes of   *)
(* them: writers (the Sessions API, external, or `send' of dev.ts) create  *)
(* state/commands/<n>.json and rewrite commands.seq; CommandReader         *)
(* (command-reader.ts) hands the commands out in order and keeps           *)
(* commands.done; Runner (runner.ts) runs messages and file work one at a  *)
(* time from a queue and deals with the other commands at once.            *)
(*                                                                         *)
(* The poll, the turn and the writes of commands.done interleave at every  *)
(* await; the process may end between any two steps and is started again.  *)
(* Prompts, answers and files are abstracted to the command's number.      *)
(***************************************************************************)
EXTENDS Integers, Sequences, FiniteSets, SequencesExt

CONSTANTS
  Kinds,        \* the kinds of command clients send, a subset of Kind
  MaxCommand,   \* commands sent (bounds the model)
  MaxWriters,   \* writers at work at a time (bounds the model)
  MaxExits,     \* crashes, signals and idle exits (bounds the model)
  MaxFailures   \* writes of commands.done that fail (bounds the model)

(***************************************************************************)
(* files: rollback, apply-bundle and add-files.  An abort of a turn that   *)
(* is not there stands for answer and mcp-credentials too, which are dealt *)
(* with at once and change nothing here.  invalid: refused by the parser.  *)
(***************************************************************************)
Kind == {"message", "files", "inject", "abort", "stop", "invalid"}

ASSUME QueueAssumption ==
  /\ Kinds \subseteq Kind
  /\ MaxCommand \in Nat /\ MaxWriters \in Nat /\ MaxExits \in Nat /\ MaxFailures \in Nat

VARIABLES
  cmd,        \* the commands created so far: cmd[n] is <n>.json
  writer,     \* writer[n]: what the writer of <n>.json does next
  seqFile,    \* commands.seq
  doneFile,   \* commands.done
  phase,      \* Runner.phase; "down": there is no process
  highWater,  \* CommandReader.highWater
  delivered,  \* CommandReader.delivered
  progress,   \* CommandReader.done and handledAbove
  stuck,      \* CommandReader.stuckSince: the number waited for, or 0
  writes,     \* who waits for each write of commands.done under way
  tick,       \* Runner.tick: its step and the commands still to dispatch
  queue,      \* Runner.queue
  work,       \* Runner.working: the command, its step, whether it is aborted
  told,       \* told[n]: how often the model was given n's text
  begun,      \* begun[n]: how often n was taken off the queue
  aborts,     \* turns an abort was dispatched for
  exits, failures

files  == <<cmd, writer, seqFile, doneFile>>
reader == <<highWater, delivered, progress, stuck>>
runner == <<phase, tick, queue, work>>
past   == <<told, begun, aborts>>
vars == <<files, reader, writes, runner, past, exits, failures>>

Number == 1..MaxCommand
Turns  == {"message", "inject"}   \* ... that may run as a turn of their own
Queued == {"message", "files"}    \* QUEUED_COMMANDS

NoWork == [n |-> 0, step |-> "none", aborted |-> FALSE]
NoTick == [step |-> "idle", batch |-> <<>>]

QueueTypeOK ==
  /\ cmd \in Seq([kind : Kind, turn : 0..MaxCommand]) /\ Len(cmd) <= MaxCommand
  /\ writer \in [Number -> {"none", "content", "look", "rewrite", "finished", "dead"}]
  /\ seqFile \in 0..MaxCommand /\ doneFile \in 0..MaxCommand
  /\ phase \in {"down", "running", "stopping"}
  /\ highWater \in 0..MaxCommand /\ delivered \in 0..highWater
  /\ progress \in [done : 0..delivered, above : SUBSET (1..delivered)]
  /\ stuck \in 0..MaxCommand
  /\ writes \in Seq({"tick", "work", "nobody"})
  /\ tick \in [step : {"idle", "reading", "skipping", "dispatching", "marking", "stopping"},
               batch : Seq(Number)]
  /\ queue \in Seq(Number)
  /\ work \in [n : 0..MaxCommand, aborted : BOOLEAN,
               step : {"none", "marking", "preparing", "opening", "chatting",
                       "closing", "files", "filed"}]
  /\ told \in [Number -> Nat] /\ begun \in [Number -> Nat]
  /\ aborts \subseteq Number
  /\ exits \in 0..MaxExits /\ failures \in 0..MaxFailures

\* No process: its memory is gone.
Gone ==
  /\ phase' = "down"
  /\ highWater' = 0 /\ delivered' = 0 /\ stuck' = 0
  /\ progress' = [done |-> 0, above |-> {}]
  /\ writes' = <<>> /\ tick' = NoTick /\ queue' = <<>> /\ work' = NoWork

Init ==
  /\ cmd = <<>> /\ writer = [n \in Number |-> "none"] /\ seqFile = 0 /\ doneFile = 0
  /\ phase = "down"
  /\ highWater = 0 /\ delivered = 0 /\ stuck = 0
  /\ progress = [done |-> 0, above |-> {}]
  /\ writes = <<>> /\ tick = NoTick /\ queue = <<>> /\ work = NoWork
  /\ told = [n \in Number |-> 0] /\ begun = [n \in Number |-> 0] /\ aborts = {}
  /\ exits = 0 /\ failures = 0

-----------------------------------------------------------------------------
(* Writers (dev.ts sendCommand, as the Sessions API does it).              *)

Writing == {n \in Number : writer[n] \in {"content", "look", "rewrite"}}

\* Exclusive-create the next number that is free.
Create(kind, turn) ==
  LET n == Len(cmd) + 1
  IN
  /\ n <= MaxCommand /\ Cardinality(Writing) < MaxWriters
  /\ cmd' = Append(cmd, [kind |-> kind, turn |-> turn])
  /\ writer' = [writer EXCEPT ![n] = "content"]
  /\ UNCHANGED <<seqFile, doneFile, reader, writes, runner, past, exits, failures>>

\* An inject or abort names a turn its client has seen.
Send ==
  \E kind \in Kinds :
    IF kind \in {"inject", "abort"}
    THEN \E turn \in DOMAIN cmd : cmd[turn].kind \in Turns /\ Create(kind, turn)
    ELSE Create(kind, 0)

WriterGoesOn(n, from, to) ==
  /\ writer[n] = from
  /\ writer' = [writer EXCEPT ![n] = to]
  /\ UNCHANGED <<cmd, doneFile, reader, writes, runner, past, exits, failures>>

WriteContent(n) == WriterGoesOn(n, "content", "look") /\ UNCHANGED seqFile

\* Rewrite commands.seq, unless it is as high already.
LookAtSeq(n) ==
  /\ WriterGoesOn(n, "look", IF seqFile < n THEN "rewrite" ELSE "finished")
  /\ UNCHANGED seqFile

RewriteSeq(n) == WriterGoesOn(n, "rewrite", "finished") /\ seqFile' = n

WriterDies(n) ==
  /\ n \in Writing
  /\ WriterGoesOn(n, writer[n], IF writer[n] = "content" THEN "dead" ELSE "finished")
  /\ UNCHANGED seqFile

Whole(n) == writer[n] \in {"look", "rewrite", "finished"}

-----------------------------------------------------------------------------
(* commands.done (CommandReader.markHandled, persist).                     *)

\* MUTANT of Mark: the highest number handled, gaps or not.
MarkHighest(p, n) ==
  IF n <= p.done THEN p ELSE [done |-> n, above |-> {}]

\* done moves over the numbers handled without a gap.
Mark(p, n) ==
  IF n <= p.done THEN p
  ELSE LET above == p.above \cup {n}
           next  == CHOOSE k \in p.done..MaxCommand :
                      (p.done + 1)..k \subseteq above /\ k + 1 \notin above
       IN  [done |-> next, above |-> above \ (1..next)]

Advances(p, n) == Mark(p, n).done > p.done

-----------------------------------------------------------------------------
(* The queue (Runner.drain, runQueued).                                    *)

\* MUTANT of Start: a message's turn starts before the message is handled.
StartUnmarked(n, p, ws) ==
  /\ begun' = [begun EXCEPT ![n] = @ + 1]
  /\ work' = [n |-> n, step |-> IF cmd[n].kind \in Turns THEN "preparing" ELSE "files",
              aborted |-> FALSE]
  /\ progress' = p /\ writes' = ws

\* runQueued: a message is handled before its turn starts, the rest after.
Start(n, p, ws) ==
  /\ begun' = [begun EXCEPT ![n] = @ + 1]
  /\ \/ /\ cmd[n].kind \in Turns
        /\ work' = [n |-> n, step |-> IF Advances(p, n) THEN "marking" ELSE "preparing",
                    aborted |-> FALSE]
        /\ progress' = Mark(p, n)
        /\ writes' = ws \o (IF Advances(p, n) THEN <<"work">> ELSE <<>>)
     \/ /\ cmd[n].kind \notin Turns
        /\ work' = [n |-> n, step |-> "files", aborted |-> FALSE]
        /\ progress' = p /\ writes' = ws

\* drain, when nothing is running and the queue is q.
Drain(q, p, ws) ==
  \/ /\ q # <<>> /\ phase = "running"
     /\ queue' = Tail(q)
     /\ Start(Head(q), p, ws)
  \/ /\ q = <<>> \/ phase # "running"
     /\ queue' = q /\ work' = NoWork /\ progress' = p /\ writes' = ws
     /\ UNCHANGED begun

\* MUTANT of Enqueue: the newest command goes first.
EnqueueFirst(n) ==
  \/ /\ work = NoWork
     /\ Drain(<<n>> \o queue, progress, writes)
  \/ /\ work # NoWork
     /\ queue' = <<n>> \o queue
     /\ UNCHANGED <<work, progress, writes, begun>>

\* One more command in the queue, run at once when nothing else is.
Enqueue(n) ==
  \/ /\ work = NoWork
     /\ Drain(Append(queue, n), progress, writes)
  \/ /\ work # NoWork
     /\ queue' = Append(queue, n)
     /\ UNCHANGED <<work, progress, writes, begun>>

-----------------------------------------------------------------------------
(* A turn, or file work, from start to end (Runner.runTurn, runQueued).    *)

WorkStep(from, to) ==
  /\ work.step = from
  /\ work' = [work EXCEPT !.step = to]
  /\ UNCHANGED <<files, reader, writes, phase, tick, queue, begun, aborts, exits, failures>>

\* Attachments are loaded, beforeTurn hooks run: activeTurn is set.
PrepareTurn == WorkStep("preparing", "opening") /\ UNCHANGED told

\* The state is written; then the turn goes to the chat service, unless it
\* was aborted meanwhile.
OpenTurn ==
  \/ /\ ~work.aborted
     /\ WorkStep("opening", "chatting")
     /\ told' = [told EXCEPT ![work.n] = @ + 1]
  \/ /\ work.aborted
     /\ WorkStep("opening", "closing")
     /\ UNCHANGED told

\* The turn is over or aborted; afterTurn hooks and the flush follow.
EndTurn == WorkStep("chatting", "closing") /\ UNCHANGED told

FreeRunner(p) ==
  /\ Drain(queue, p, writes)
  /\ UNCHANGED <<files, highWater, delivered, stuck, phase, tick, told, aborts,
                 exits, failures>>

CloseTurn == work.step = "closing" /\ FreeRunner(progress)

\* Rollback, apply-bundle or add-files, done or failed, and then handled.
EndFiles ==
  /\ work.step = "files"
  /\ \/ /\ Advances(progress, work.n)
        /\ work' = [work EXCEPT !.step = "filed"]
        /\ progress' = Mark(progress, work.n)
        /\ writes' = Append(writes, "work")
        /\ UNCHANGED <<files, highWater, delivered, stuck, phase, tick, queue, past,
                       exits, failures>>
     \/ /\ ~Advances(progress, work.n)
        /\ FreeRunner(Mark(progress, work.n))

-----------------------------------------------------------------------------
(* The poll (CommandReader.poll) and the dispatch (Runner.tick, dispatch). *)

PollSeq ==
  /\ phase = "running" /\ tick.step = "idle"
  /\ tick' = [step |-> "reading", batch |-> <<>>]
  /\ highWater' = Max({highWater, seqFile})
  /\ UNCHANGED <<files, delivered, progress, stuck, writes, phase, queue, work, past,
                 exits, failures>>

Next1 == delivered + 1

Reading ==
  /\ tick.step = "reading" /\ delivered < highWater
  /\ UNCHANGED <<files, highWater, phase, queue, work, past, exits, failures>>

ReadCommand ==
  /\ Reading
  /\ Whole(Next1) /\ cmd[Next1].kind # "invalid"
  /\ delivered' = Next1 /\ stuck' = 0
  /\ tick' = [tick EXCEPT !.batch = Append(@, Next1)]
  /\ UNCHANGED <<progress, writes>>

\* Not readable yet: the poll ends here, and the next one tries again.
AwaitCommand ==
  /\ Reading
  /\ ~Whole(Next1) /\ ~(stuck = Next1 /\ writer[Next1] = "dead")
  /\ stuck' = Next1
  /\ tick' = [tick EXCEPT !.step = "dispatching"]
  /\ UNCHANGED <<delivered, progress, writes>>

\* Invalid, or not readable within the grace period, which a writer that is
\* alive does not exceed: the command is skipped, as handled.
SkipCommand ==
  /\ Reading
  /\ \/ Whole(Next1) /\ cmd[Next1].kind = "invalid" /\ UNCHANGED stuck
     \/ stuck = Next1 /\ writer[Next1] = "dead" /\ stuck' = 0
  /\ delivered' = Next1
  /\ progress' = Mark(progress, Next1)
  /\ \/ /\ Advances(progress, Next1)
        /\ writes' = Append(writes, "tick")
        /\ tick' = [tick EXCEPT !.step = "skipping"]
     \/ /\ ~Advances(progress, Next1)
        /\ UNCHANGED <<writes, tick>>

EndPoll ==
  /\ tick.step = "reading" /\ delivered = highWater
  /\ tick' = [tick EXCEPT !.step = "dispatching"]
  /\ UNCHANGED <<files, reader, writes, phase, queue, work, past, exits, failures>>

\* The command to dispatch next, and the batch without it.
Current == Head(tick.batch)
Dispatching(kind) ==
  /\ tick.step = "dispatching" /\ phase = "running" /\ tick.batch # <<>>
  /\ cmd[Current].kind \in kind
  /\ UNCHANGED <<files, highWater, delivered, stuck, phase, exits, failures>>
Dispatched(step) == tick' = [step |-> step, batch |-> Tail(tick.batch)]

\* The end of dispatch: markHandled, from progress p and writes ws.
MarkCurrent(p, ws) ==
  /\ progress' = Mark(p, Current)
  /\ \/ Advances(p, Current) /\ writes' = Append(ws, "tick") /\ Dispatched("marking")
     \/ ~Advances(p, Current) /\ writes' = ws /\ Dispatched("dispatching")

DispatchQueued ==
  /\ Dispatching(Queued)
  /\ Enqueue(Current)
  /\ Dispatched("dispatching")
  /\ UNCHANGED <<told, aborts>>

\* An inject for the active turn goes to the chat service, which drops it
\* while it has not taken the turn itself yet.
DispatchInject ==
  /\ Dispatching({"inject"})
  /\ work.n = cmd[Current].turn /\ work.step \in {"opening", "chatting"}
  /\ told' = IF work.step = "chatting" THEN [told EXCEPT ![Current] = @ + 1] ELSE told
  /\ MarkCurrent(progress, writes)
  /\ UNCHANGED <<queue, work, begun, aborts>>

\* Any other becomes a message of its own, queued; it is handled all the same.
DispatchLateInject ==
  /\ Dispatching({"inject"})
  /\ ~(work.n = cmd[Current].turn /\ work.step \in {"opening", "chatting"})
  /\ \/ /\ work = NoWork
        /\ Enqueue(Current)
        /\ Dispatched("dispatching")
     \/ /\ work # NoWork
        /\ queue' = Append(queue, Current)
        /\ MarkCurrent(progress, writes)
        /\ UNCHANGED <<work, begun>>
  /\ UNCHANGED <<told, aborts>>

Queueing(turn) == {i \in DOMAIN queue : queue[i] = turn}

\* The abort of a turn that is not in the queue: it stops when it has come
\* so far.  While its message is being marked, nothing remembers the abort.
AbortRunning(turn) ==
  /\ Queueing(turn) = {}
  /\ work' = IF work.n = turn /\ work.step \in {"preparing", "opening", "chatting"}
             THEN [work EXCEPT !.aborted = TRUE] ELSE work
  /\ MarkCurrent(progress, writes)
  /\ UNCHANGED queue

Aborting ==
  /\ Dispatching({"abort"})
  /\ aborts' = aborts \cup {cmd[Current].turn}
  /\ UNCHANGED <<told, begun>>

\* MUTANT of DispatchAbort: a message taken out of the queue is not handled.
DispatchAbortUnmarked ==
  LET turn == cmd[Current].turn
  IN
  /\ Aborting
  /\ \/ AbortRunning(turn)
     \/ /\ \E i \in Queueing(turn) : queue' = RemoveAt(queue, i)
        /\ MarkCurrent(progress, writes)
        /\ UNCHANGED work

\* An abort takes the turn out of the queue, as handled, or stops it.
DispatchAbort ==
  LET turn == cmd[Current].turn
  IN
  /\ Aborting
  /\ \/ AbortRunning(turn)
     \/ /\ \E i \in Queueing(turn) : queue' = RemoveAt(queue, i)
        /\ MarkCurrent(Mark(progress, turn),
                       writes \o (IF Advances(progress, turn) THEN <<"nobody">> ELSE <<>>))
        /\ UNCHANGED work

\* stop: what is queued is discarded, as handled; the shutdown follows.
DispatchStop ==
  /\ Dispatching({"stop"})
  /\ queue' = <<>>
  /\ progress' = [done |-> Current, above |-> progress.above \ (1..Current)]
  /\ writes' = Append(writes, "tick")
  /\ Dispatched("stopping")
  /\ UNCHANGED <<work, past>>

EndTick ==
  /\ tick.step = "dispatching" /\ (tick.batch = <<>> \/ phase # "running")
  /\ tick' = NoTick
  /\ UNCHANGED <<files, reader, writes, phase, queue, work, past, exits, failures>>

-----------------------------------------------------------------------------
(* A write of commands.done ends; the writes go out one at a time, each    *)
(* with the latest value.                                                  *)

\* finish: nothing new starts, the turn under way is aborted.
ShutDown ==
  /\ phase' = "stopping"
  /\ queue' = <<>>
  /\ work' = IF work.step \in {"preparing", "opening", "chatting"}
             THEN [work EXCEPT !.aborted = TRUE] ELSE work

WriteEnds ==
  /\ writes # <<>>
  /\ UNCHANGED <<cmd, writer, seqFile, highWater, delivered, stuck, told, aborts, exits>>

WakeTick(step) ==
  /\ tick' = [tick EXCEPT !.step = step]
  /\ writes' = Tail(writes)
  /\ UNCHANGED <<progress, begun>>

WriteDone ==
  /\ WriteEnds
  /\ doneFile' = progress.done
  /\ \/ /\ Head(writes) = "tick" /\ tick.step = "skipping"
        /\ WakeTick("reading")
        /\ UNCHANGED <<phase, queue, work>>
     \/ /\ Head(writes) = "tick" /\ tick.step = "marking"
        /\ WakeTick("dispatching")
        /\ UNCHANGED <<phase, queue, work>>
     \/ /\ Head(writes) = "tick" /\ tick.step = "stopping"
        /\ WakeTick("dispatching")
        /\ ShutDown
     \/ /\ Head(writes) = "work" /\ work.step = "marking"
        /\ work' = [work EXCEPT !.step = "preparing"]
        /\ writes' = Tail(writes)
        /\ UNCHANGED <<progress, phase, tick, queue, begun>>
     \/ /\ Head(writes) = "work" /\ work.step = "filed"
        /\ Drain(queue, progress, Tail(writes))
        /\ UNCHANGED <<phase, tick>>
     \/ /\ Head(writes) = "nobody"
        /\ writes' = Tail(writes)
        /\ UNCHANGED <<progress, runner, begun>>
  /\ UNCHANGED failures

\* It fails: the tick drops the rest of its batch (after a stop it goes on
\* with it, and does not stop), a message's turn does not run.
WriteFails ==
  /\ WriteEnds
  /\ failures < MaxFailures /\ failures' = failures + 1
  /\ \/ /\ Head(writes) = "tick"
        /\ tick' = IF tick.step = "stopping" THEN [tick EXCEPT !.step = "dispatching"]
                   ELSE NoTick
        /\ writes' = Tail(writes)
        /\ UNCHANGED <<progress, phase, queue, work, begun>>
     \/ /\ Head(writes) = "work"
        /\ Drain(queue, progress, Tail(writes))
        /\ UNCHANGED <<phase, tick>>
     \/ /\ Head(writes) = "nobody"
        /\ writes' = Tail(writes)
        /\ UNCHANGED <<progress, runner, begun>>
  /\ UNCHANGED doneFile

-----------------------------------------------------------------------------
(* Processes.                                                              *)

\* A start of the session: reading goes on after what was handled.
Open ==
  /\ phase = "down" /\ phase' = "running"
  /\ progress' = [done |-> doneFile, above |-> {}]
  /\ delivered' = doneFile /\ highWater' = doneFile
  /\ UNCHANGED <<files, stuck, writes, tick, queue, work, past, exits, failures>>

\* A signal, an idle exit, a lost key chain, an unhandled error.
Terminate ==
  /\ phase = "running" /\ exits < MaxExits /\ exits' = exits + 1
  /\ ShutDown
  /\ UNCHANGED <<files, reader, writes, tick, past, failures>>

\* The end of the shutdown, which waits only so long for the turn.
Exit ==
  /\ phase = "stopping" /\ Gone
  /\ UNCHANGED <<files, past, exits, failures>>

Crash ==
  /\ phase # "down" /\ exits < MaxExits /\ exits' = exits + 1
  /\ Gone
  /\ UNCHANGED <<files, past, failures>>

-----------------------------------------------------------------------------

WriterSteps ==
  \E n \in DOMAIN cmd : WriteContent(n) \/ LookAtSeq(n) \/ RewriteSeq(n) \/ WriterDies(n)

TickSteps ==
  \/ PollSeq \/ ReadCommand \/ AwaitCommand \/ SkipCommand \/ EndPoll
  \/ DispatchQueued \/ DispatchInject \/ DispatchLateInject \/ DispatchAbort
  \/ DispatchStop \/ EndTick

WorkSteps == PrepareTurn \/ OpenTurn \/ EndTurn \/ CloseTurn \/ EndFiles

Next ==
  \/ Send \/ WriterSteps
  \/ TickSteps \/ WorkSteps \/ WriteDone \/ WriteFails
  \/ Open \/ Terminate \/ Exit \/ Crash

Spec == Init /\ [][Next]_vars

(***************************************************************************)
(* The event loop goes on (the poll's timer, a turn, a write under way), a *)
(* shutdown is bounded, and the session is started again.                  *)
(***************************************************************************)
FairSpec ==
  /\ Spec
  /\ WF_vars(TickSteps) /\ WF_vars(WorkSteps) /\ WF_vars(WriteDone)
  /\ WF_vars(Open) /\ WF_vars(Exit)

-----------------------------------------------------------------------------
(* Properties.                                                             *)

\* commands.done could be written each time.  After a failed write the tick
\* drops the rest of its batch (WriteFails), and what is said below of order
\* and progress is true no longer.
DoneIsWritten == failures = 0

Stopped(n) == \E s \in DOMAIN cmd : s > n /\ cmd[s].kind = "stop" /\ s <= doneFile

(***************************************************************************)
(* No process gives a message to the model a second time: it is handled    *)
(* before its turn starts (runner.ts, runQueued; command-reader.ts: "In    *)
(* order, once") - while commands.done can be written.                     *)
(***************************************************************************)
MessageRunsOnce ==
  DoneIsWritten => \A n \in DOMAIN cmd : cmd[n].kind = "message" => told[n] <= 1

(***************************************************************************)
(* Messages become turns in the order they were sent, across restarts      *)
(* (command-reader.ts: "Commands are delivered in number order").          *)
(***************************************************************************)
TurnsInOrder ==
  [][DoneIsWritten => \A m, n \in DOMAIN cmd :
       /\ m < n /\ cmd[m].kind = "message" /\ cmd[n].kind = "message"
       /\ told[m] = 0 /\ told'[m] > 0
       => told[n] = 0]_vars

(***************************************************************************)
(* What waits in the queue is not lost with its process: a message or file *)
(* command is past commands.done only once it was taken off the queue, or  *)
(* was aborted or stopped (runner.ts, finish: "queued commands stay        *)
(* unhandled for the next start (except after `stop`, which cleared them)")*)
(***************************************************************************)
QueuedCommandsSurvive ==
  \A n \in DOMAIN cmd :
    n <= doneFile /\ cmd[n].kind \in Queued /\ Whole(n) =>
      begun[n] > 0 \/ n \in aborts \/ Stopped(n)

QueueOK == QueueTypeOK /\ QueuedCommandsSurvive

(***************************************************************************)
(* However often the harness is stopped and started, commands.done catches *)
(* up with what commands.seq announced, as soon as no more is sent, if it  *)
(* can be written.                                                         *)
(***************************************************************************)
AnnouncedIsHandled == []<>(seqFile <= doneFile \/ ~DoneIsWritten)

=============================================================================
