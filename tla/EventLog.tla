------------------------------ MODULE EventLog ------------------------------
(***************************************************************************)
(* The session's event log (ts-apps/cloud-agent/src/event-log.ts): events  *)
(* are queued in memory, numbered, appended to segments of limited size    *)
(* and published by rewriting head.json.  The file system may fail any     *)
(* operation, the process may crash between any two of them.               *)
(*                                                                         *)
(* A token is one emitted event, numbered in emission order; a line's text *)
(* is the tokens in it (deltas of one kind are merged into one line).  A   *)
(* line counts as one unit of a segment's size; a missing segment file is  *)
(* an empty one, which no code path tells apart.                           *)
(***************************************************************************)
EXTENDS Integers, Sequences, SequencesExt

CONSTANTS
  MaxTokens,    \* tokens emitted (bounds the model)
  MaxSegment,   \* segments (bounds the model)
  MaxFailures,  \* operations that fail (bounds the model)
  MaxRestarts,  \* crashes and exits (bounds the model)
  MaxFlushes,   \* calls of flush() waiting at a time (bounds the model)
  SegmentMax,   \* EVENT_SEGMENT_MAX_BYTES, in lines
  Faults        \* how the mount may misbehave, see FaultKind

DeltaKind == {"text", "thinking"}   \* ... of one conversation each
Kind      == DeltaKind \cup {"event", "invalid"}

(***************************************************************************)
(* lyingHead: the rename of head.json takes effect but is reported failed. *)
(* lostTail: bytes of the head segment are gone after a crash, though      *)
(* head.json counts them.                                                  *)
(***************************************************************************)
FaultKind == {"lyingHead", "lostTail"}

ASSUME EventLogAssumption ==
  /\ MaxTokens \in Nat /\ MaxSegment \in Nat \ {0} /\ MaxFailures \in Nat
  /\ MaxRestarts \in Nat /\ MaxFlushes \in Nat
  /\ SegmentMax \in Nat \ {0} /\ Faults \subseteq FaultKind

VARIABLES
  segs,        \* segs[n]: the lines of events/<n>.jsonl
  headFile,    \* head.json, or NoHead
  up,          \* a process has the log open
  head,        \* EventLog.head
  seq,         \* EventLog.seq
  pending,     \* EventLog.pending
  delta,       \* EventLog.delta, whose timer runs while it is there; or NoDelta
  flushTimer,  \* EventLog.flushTimer is set
  retryTimer,  \* EventLog.retryTimer is set
  unclean,     \* EventLog.unclean
  closed,      \* EventLog.closed
  calls,       \* writes chained behind EventLog.writing
  w,           \* the write under way, or Idle
  emitted,     \* tokens emitted
  failures,    \* operations that failed
  restarts,    \* processes that ended
  intact       \* the mount kept all it reported as written, and hid nothing

disk   == <<segs, headFile>>
timers == <<flushTimer, retryTimer>>
memory == <<head, seq, pending, delta, timers, unclean, closed, calls, w>>
vars   == <<disk, up, memory, emitted, failures, restarts, intact>>

Token   == 1..MaxTokens
Segment == 1..MaxSegment
HeadFile == [segment : Segment, length : 0..SegmentMax]
NoHead  == [segment |-> 0, length |-> 0]
FirstHead == [segment |-> 1, length |-> 0]

Line  == [seq : Nat \ {0}, text : Seq(Token)]
Torn  == [seq |-> 0, text |-> <<>>]   \* the end of a line is missing

Payload == [kind : Kind, text : Seq(Token)]
NoDelta == [kind |-> "none", text |-> <<>>]

Step == {"truncate", "append", "roll", "head"}
Idle == [step |-> "idle", batch |-> <<>>, lines |-> <<>>, head |-> NoHead]
Write ==
  [step : Step, batch : Seq(Payload), lines : Seq(Line), head : HeadFile]

TypeOK ==
  /\ segs \in [Segment -> Seq(Line \cup {Torn})]
  /\ headFile \in HeadFile \cup {NoHead}
  /\ up \in BOOLEAN
  /\ head \in HeadFile
  /\ seq \in Nat
  /\ pending \in Seq(Payload)
  /\ delta \in [kind : DeltaKind, text : Seq(Token)] \cup {NoDelta}
  /\ flushTimer \in BOOLEAN /\ retryTimer \in BOOLEAN
  /\ unclean \in BOOLEAN /\ closed \in BOOLEAN
  /\ calls \in Nat
  /\ w \in Write \cup {Idle}
  /\ emitted \in 0..MaxTokens
  /\ failures \in 0..MaxFailures
  /\ restarts \in 0..MaxRestarts
  /\ intact \in BOOLEAN

\* The memory of a process that is not there.
NoMemory ==
  /\ head' = FirstHead /\ seq' = 0
  /\ pending' = <<>> /\ delta' = NoDelta
  /\ flushTimer' = FALSE /\ retryTimer' = FALSE
  /\ unclean' = FALSE /\ closed' = FALSE
  /\ calls' = 0 /\ w' = Idle

Init ==
  /\ segs = [n \in Segment |-> <<>>] /\ headFile = NoHead
  /\ up = FALSE
  /\ head = FirstHead /\ seq = 0
  /\ pending = <<>> /\ delta = NoDelta
  /\ flushTimer = FALSE /\ retryTimer = FALSE
  /\ unclean = FALSE /\ closed = FALSE
  /\ calls = 0 /\ w = Idle
  /\ emitted = 0 /\ failures = 0 /\ restarts = 0 /\ intact = TRUE

-----------------------------------------------------------------------------
(* Queueing events.                                                        *)

\* takeDelta: what the queue is with the collecting delta at its end.
Taken == pending \o (IF delta = NoDelta THEN <<>> ELSE <<delta>>)

\* scheduleFlush: not while a failed write waits for its retry.
ScheduleFlush ==
  /\ flushTimer' = (flushTimer \/ ~retryTimer)
  /\ UNCHANGED retryTimer

\* emit.
Emit(kind) ==
  LET payload == [kind |-> kind, text |-> <<emitted + 1>>]
  IN
  /\ up /\ ~closed /\ emitted < MaxTokens
  /\ emitted' = emitted + 1
  /\ \/ /\ kind \in DeltaKind /\ delta.kind = kind
        /\ delta' = [delta EXCEPT !.text = Append(@, emitted + 1)]
        /\ UNCHANGED <<pending, timers>>
     \/ /\ kind \in DeltaKind /\ delta = NoDelta
        /\ delta' = payload
        /\ UNCHANGED <<pending, timers>>
     \/ /\ kind \in DeltaKind /\ delta.kind \notin {kind, NoDelta.kind}
        /\ pending' = Taken
        /\ delta' = payload
        /\ ScheduleFlush
     \/ /\ kind \notin DeltaKind
        /\ pending' = Append(Taken, payload)
        /\ delta' = NoDelta
        /\ ScheduleFlush
  /\ UNCHANGED <<disk, up, head, seq, unclean, closed, calls, w,
                 failures, restarts, intact>>

\* The delta's timer: it has been collected long enough.
DeltaTimerFires ==
  /\ delta # NoDelta
  /\ pending' = Taken /\ delta' = NoDelta
  /\ ScheduleFlush
  /\ UNCHANGED <<disk, up, head, seq, unclean, closed, calls, w,
                 emitted, failures, restarts, intact>>

FlushTimerFires ==
  /\ flushTimer
  /\ flushTimer' = FALSE /\ calls' = calls + 1
  /\ UNCHANGED <<disk, up, head, seq, pending, delta, retryTimer, unclean,
                 closed, w, emitted, failures, restarts, intact>>

\* MUTANT of RetryTimerFires: the retry is forgotten when it is due.
RetryTimerForgets ==
  /\ retryTimer
  /\ retryTimer' = FALSE
  /\ UNCHANGED <<disk, up, head, seq, pending, delta, flushTimer, unclean,
                 closed, calls, w, emitted, failures, restarts, intact>>

\* The retry also clears the flush timer (writePending).
RetryTimerFires ==
  /\ retryTimer
  /\ retryTimer' = FALSE /\ flushTimer' = FALSE /\ calls' = calls + 1
  /\ UNCHANGED <<disk, up, head, seq, pending, delta, unclean, closed, w,
                 emitted, failures, restarts, intact>>

\* flush, which the runner calls at its start, after a turn and at its end.
Flush ==
  /\ up /\ calls < MaxFlushes
  /\ pending' = Taken /\ delta' = NoDelta
  /\ flushTimer' = FALSE /\ calls' = calls + 1
  /\ UNCHANGED <<disk, up, head, seq, retryTimer, unclean, closed, w,
                 emitted, failures, restarts, intact>>

\* close, at a shutdown or when superseded: a write under way goes on.
Close ==
  /\ up /\ ~closed
  /\ closed' = TRUE
  /\ pending' = <<>> /\ delta' = NoDelta
  /\ flushTimer' = FALSE /\ retryTimer' = FALSE
  /\ UNCHANGED <<disk, up, head, seq, unclean, calls, w,
                 emitted, failures, restarts, intact>>

-----------------------------------------------------------------------------
(* Writing a batch (writePending, write).                                  *)

\* What is left of a batch when invalid events are dropped.
Valid(batch) ==
  FlattenSeq([i \in DOMAIN batch |->
    IF batch[i].kind = "invalid" THEN <<>> ELSE <<batch[i]>>])

\* The batch's lines: the valid events, numbered on.
Numbered(batch) ==
  LET valid == Valid(batch)
  IN  [i \in DOMAIN valid |-> [seq |-> seq + i, text |-> valid[i].text]]

\* A chained write's turn comes: it takes all that is queued by now.
BeginWrite ==
  /\ calls > 0 /\ w = Idle
  /\ calls' = calls - 1
  /\ \/ /\ closed \/ pending = <<>>
        /\ UNCHANGED <<pending, w>>
     \/ /\ ~closed /\ pending # <<>>
        /\ w' = [step |-> IF unclean THEN "truncate" ELSE "append",
                 batch |-> pending, lines |-> Numbered(pending), head |-> head]
        /\ pending' = <<>>
  /\ UNCHANGED <<disk, up, head, seq, delta, timers, unclean, closed,
                 emitted, failures, restarts, intact>>

\* MUTANT of TruncateSegment: what a failed append left stays.
TruncateNothing ==
  /\ w.step = "truncate"
  /\ unclean' = FALSE
  /\ w' = [w EXCEPT !.step = "append"]
  /\ UNCHANGED <<disk, up, head, seq, pending, delta, timers, closed, calls,
                 emitted, failures, restarts, intact>>

\* After a failed write: the head segment is cut back to what is published.
TruncateSegment ==
  /\ w.step = "truncate"
  /\ segs' = [segs EXCEPT ![head.segment] = SubSeq(@, 1, Min({Len(@), head.length}))]
  /\ unclean' = FALSE
  /\ w' = [w EXCEPT !.step = "append"]
  /\ UNCHANGED <<headFile, up, head, seq, pending, delta, timers, closed, calls,
                 emitted, failures, restarts, intact>>

\* How many of the lines still fit the segment being written.
Fitting == Min({SegmentMax - w.head.length, Len(w.lines)})

\* commit: append the lines that fit.
AppendLines ==
  /\ w.step = "append" /\ w.lines # <<>>
  /\ segs' = [segs EXCEPT ![w.head.segment] = @ \o SubSeq(w.lines, 1, Fitting)]
  /\ w' = [w EXCEPT !.step = IF Fitting = Len(w.lines) THEN "head" ELSE "roll",
                    !.lines = SubSeq(@, Fitting + 1, Len(@)),
                    !.head = [segment |-> @.segment, length |-> @.length + Fitting]]
  /\ UNCHANGED <<headFile, up, head, seq, pending, delta, timers, unclean, closed,
                 calls, emitted, failures, restarts, intact>>

\* The segment is full: remove what may be left of the next, and go on there.
RollOver ==
  /\ w.step = "roll" /\ w.head.segment < MaxSegment
  /\ segs' = [segs EXCEPT ![w.head.segment + 1] = <<>>]
  /\ w' = [w EXCEPT !.step = "append",
                    !.head = [segment |-> w.head.segment + 1, length |-> 0]]
  /\ UNCHANGED <<headFile, up, head, seq, pending, delta, timers, unclean, closed,
                 calls, emitted, failures, restarts, intact>>

\* The batch is through: a retry that was waiting is not needed any more.
Settle ==
  /\ w' = Idle
  /\ retryTimer' = FALSE
  /\ UNCHANGED <<up, pending, delta, flushTimer, unclean, closed, calls,
                 emitted, failures, restarts, intact>>

\* Nothing of the batch was valid: nothing is published.
SkipWrite ==
  /\ w.step = "append" /\ w.lines = <<>>
  /\ Settle
  /\ UNCHANGED <<disk, head, seq>>

\* head.json is renamed into place: the batch is visible, memory moves on.
PublishHead ==
  /\ w.step = "head"
  /\ headFile' = w.head
  /\ head' = w.head
  /\ seq' = seq + Len(Valid(w.batch))
  /\ Settle
  /\ UNCHANGED segs

\* What a failed append may leave: some of the lines, the last one torn.
Partial(lines) ==
  {lines} \cup
  (UNION {{SubSeq(lines, 1, k), Append(SubSeq(lines, 1, k), Torn)} : k \in 0..(Len(lines) - 1)})

\* A failed operation's effect on the files.
FailedEffect ==
  \/ UNCHANGED <<disk, intact>>
  \/ /\ w.step = "append" /\ w.lines # <<>>
     /\ \E part \in Partial(SubSeq(w.lines, 1, Fitting)) :
          segs' = [segs EXCEPT ![w.head.segment] = @ \o part]
     /\ UNCHANGED <<headFile, intact>>
  \/ /\ w.step = "head" /\ "lyingHead" \in Faults
     /\ headFile' = w.head /\ intact' = FALSE
     /\ UNCHANGED segs

\* MUTANT of FailWrite: the batch is queued again, behind what came since.
FailWriteToTheBack ==
  /\ w # Idle /\ failures < MaxFailures
  /\ failures' = failures + 1
  /\ FailedEffect
  /\ pending' = pending \o w.batch
  /\ unclean' = TRUE
  /\ retryTimer' = (retryTimer \/ ~closed)
  /\ w' = Idle
  /\ UNCHANGED <<up, head, seq, delta, flushTimer, closed, calls, emitted, restarts>>

\* An operation of the write fails, having had an effect or not; the batch
\* goes back to the front of the queue and a retry is scheduled.
FailWrite ==
  /\ w # Idle /\ failures < MaxFailures
  /\ failures' = failures + 1
  /\ FailedEffect
  /\ pending' = w.batch \o pending
  /\ unclean' = TRUE
  /\ retryTimer' = (retryTimer \/ ~closed)
  /\ w' = Idle
  /\ UNCHANGED <<up, head, seq, delta, flushTimer, closed, calls, emitted, restarts>>

-----------------------------------------------------------------------------
(* Processes come and go.                                                  *)

Crash ==
  /\ up /\ restarts < MaxRestarts
  /\ restarts' = restarts + 1
  /\ up' = FALSE
  /\ NoMemory
  /\ \/ UNCHANGED <<segs, intact>>
     \/ /\ "lostTail" \in Faults /\ headFile # NoHead
        /\ intact' = FALSE
        /\ \E k \in 0..(Min({Len(segs[headFile.segment]), headFile.length}) - 1) :
             segs' = [segs EXCEPT ![headFile.segment] = SubSeq(@, 1, k)]
  /\ UNCHANGED <<headFile, emitted, failures>>

\* lastSeqIn: the number of the last line that is whole, 0 when there is none.
LastSeqIn(lines) ==
  LET whole == {i \in DOMAIN lines : lines[i].seq > 0}
  IN  IF whole = {} THEN 0 ELSE lines[Max(whole)].seq

\* lastSeqBefore: looks at no more than three segments.
LastSeqBefore(segment) ==
  LET found == {n \in Segment : /\ segment - 3 <= n /\ n < segment
                                /\ LastSeqIn(segs[n]) > 0}
  IN  IF found = {} THEN 0 ELSE LastSeqIn(segs[Max(found)])

RecoveredSeq(lines) ==
  IF LastSeqIn(lines) > 0 THEN LastSeqIn(lines) ELSE LastSeqBefore(headFile.segment)

Opened ==
  /\ ~up /\ up' = TRUE
  /\ UNCHANGED <<pending, delta, timers, unclean, closed, calls, w,
                 emitted, failures, restarts, intact>>

\* open: nothing was ever published.
OpenEmpty ==
  /\ headFile = NoHead
  /\ Opened
  /\ segs' = [segs EXCEPT ![1] = <<>>]
  /\ UNCHANGED <<headFile, head, seq>>

\* MUTANT of OpenPublished: every process numbers from 1.
OpenPublishedAnew ==
  /\ headFile # NoHead /\ Len(segs[headFile.segment]) >= headFile.length
  /\ Opened
  /\ segs' = [segs EXCEPT ![headFile.segment] = SubSeq(@, 1, headFile.length)]
  /\ head' = headFile
  /\ UNCHANGED <<headFile, seq>>

\* open: cut off what was never published, number on from what was.
OpenPublished ==
  /\ headFile # NoHead /\ Len(segs[headFile.segment]) >= headFile.length
  /\ Opened
  /\ segs' = [segs EXCEPT ![headFile.segment] = SubSeq(@, 1, headFile.length)]
  /\ head' = headFile
  /\ seq' = RecoveredSeq(SubSeq(segs[headFile.segment], 1, headFile.length))
  /\ UNCHANGED headFile

\* open: head.json is ahead of its segment; go on in a fresh one.
OpenTorn ==
  /\ headFile # NoHead /\ Len(segs[headFile.segment]) < headFile.length
  /\ headFile.segment < MaxSegment
  /\ Opened
  /\ head' = [segment |-> headFile.segment + 1, length |-> 0]
  /\ headFile' = head'
  /\ segs' = [segs EXCEPT ![headFile.segment + 1] = <<>>]
  /\ seq' = RecoveredSeq(segs[headFile.segment])

-----------------------------------------------------------------------------

WriteSteps ==
  BeginWrite \/ TruncateSegment \/ AppendLines \/ RollOver \/ SkipWrite \/ PublishHead

TimerSteps == DeltaTimerFires \/ FlushTimerFires \/ RetryTimerFires

Next ==
  \/ \E kind \in Kind : Emit(kind)
  \/ TimerSteps \/ Flush \/ Close
  \/ WriteSteps \/ FailWrite
  \/ Crash
  \/ OpenEmpty \/ OpenPublished \/ OpenTorn

Spec == Init /\ [][Next]_vars

(***************************************************************************)
(* Timers fire and the write under way goes on: both are the event loop's  *)
(* work.  Failures are bounded: the mount comes back.                      *)
(***************************************************************************)
FairSpec ==
  Spec /\ WF_vars(WriteSteps) /\ WF_vars(FlushTimerFires) /\ WF_vars(RetryTimerFires)

-----------------------------------------------------------------------------
(* Properties.                                                             *)

\* The lines of a log's segments from the first up to a place in one of them.
LinesTo(segments, place, length) ==
  FlattenSeq([n \in 1..place |->
    IF n < place THEN segments[n]
    ELSE SubSeq(segments[n], 1, Min({Len(segments[n]), length}))])

\* The lines readers may read: every segment before the head's, and the
\* head's up to the length head.json gives.
PublishedLines == LinesTo(segs, headFile.segment, headFile.length)

TextOf(seqOfTexts) == FlattenSeq([i \in DOMAIN seqOfTexts |-> seqOfTexts[i].text])

\* The tokens of queued payloads that will be written.
Writable(queue) ==
  FlattenSeq([i \in DOMAIN queue |->
    IF queue[i].kind = "invalid" THEN <<>> ELSE queue[i].text])

Waiting == Writable(w.batch \o Taken)

(***************************************************************************)
(* The published lines are numbered 1, 2, 3, ... whatever failed, crashed  *)
(* or rolled over (event-log.ts: "`seq` only moves once a batch is         *)
(* published, so it stays contiguous").                                    *)
(***************************************************************************)
SeqIsContiguous ==
  \A i \in DOMAIN PublishedLines : PublishedLines[i].seq = i

\* The invariant the run checks: the types, and the numbers of published lines
\* (event-log.ts: "`seq` only moves once a batch is published").
LogOK == TypeOK /\ SeqIsContiguous

(***************************************************************************)
(* As long as the mount is intact the published log is append-only and in  *)
(* emission order, a batch appears at once, and nothing is skipped but     *)
(* with everything after it.                                               *)
(***************************************************************************)
Log == INSTANCE AppendOnlyLog
  WITH log <- TextOf(PublishedLines), waiting <- Waiting,
       emitted <- emitted, intact <- intact

ImplementsAppendOnlyLog == Log!Spec

(***************************************************************************)
(* What waits behind a failed write is published in the end, unless its    *)
(* process closes the log or dies, if the mount comes back (event-log.ts,  *)
(* scheduleRetry).                                                         *)
(***************************************************************************)
Stuck(t) == unclean /\ w = Idle /\ t \in Range(Writable(pending))

FailedBatchIsPublished ==
  \A t \in Token :
    Stuck(t) ~> (t \in Range(TextOf(PublishedLines)) \/ ~up \/ closed)

=============================================================================
