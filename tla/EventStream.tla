---------------------------- MODULE EventStream ----------------------------
(***************************************************************************)
(* EventLog with one client reading along: the Sessions API (external)     *)
(* returns the lines after the client's cursor, up to what head.json       *)
(* publishes; the client skips numbers it has seen (CloudSessionManager.   *)
(* handleStream) and keeps the cursor of the response (EventPoller.poll).  *)
(***************************************************************************)
EXTENDS EventLog

VARIABLES
  cursor,   \* Watched.cursor: segment and offset, as in CURSOR_START at first
  lastSeq,  \* Tracked.lastSeq
  seen      \* the tokens the client handled, in order

streamVars == <<cursor, lastSeq, seen>>

StreamInit ==
  /\ Init
  /\ cursor = [segment |-> 0, offset |-> 0]
  /\ lastSeq = 0
  /\ seen = <<>>

\* GET /events: the segment the cursor is in, and what of it is published.
Reading == Max({cursor.segment, 1})
ReadableEnd ==
  IF Reading < headFile.segment THEN Len(segs[Reading])
  ELSE Min({Len(segs[Reading]), headFile.length})

\* handleStream: events numbered up to lastSeq were handled before.
Fresh(lines) ==
  FlattenSeq([i \in DOMAIN lines |->
    IF lines[i].seq > lastSeq THEN <<lines[i]>> ELSE <<>>])

\* One response: the lines after the cursor, and where the next begin.
Poll ==
  LET lines == Fresh(SubSeq(segs[Reading], cursor.offset + 1, ReadableEnd))
  IN
  /\ headFile # NoHead /\ Reading <= headFile.segment
  /\ seen' = seen \o TextOf(lines)
  /\ lastSeq' = Max({lastSeq} \cup {lines[i].seq : i \in DOMAIN lines})
  /\ cursor' = IF Reading < headFile.segment
               THEN [segment |-> Reading + 1, offset |-> 0]
               ELSE [segment |-> Reading, offset |-> Max({cursor.offset, ReadableEnd})]
  /\ UNCHANGED vars

StreamNext == (Next /\ UNCHANGED streamVars) \/ Poll

StreamSpec == StreamInit /\ [][StreamNext]_<<vars, streamVars>>

-----------------------------------------------------------------------------

\* The lines the cursor is past.
Passed == LinesTo(segs, cursor.segment, cursor.offset)

(***************************************************************************)
(* The client has handled what its cursor is past, each event once and in  *)
(* order, as long as the mount is intact: a number it had seen is never    *)
(* given to another event, a line it has read is never rewritten           *)
(* (event-log.ts: "A failed write ... publishes nothing", "no reader's     *)
(* offset into this one is ever reused").                                  *)
(***************************************************************************)
ReaderSeesTheLog == intact => seen = TextOf(Passed)
=============================================================================
