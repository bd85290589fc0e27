---------------------------- MODULE CloudSession ----------------------------
(***************************************************************************)
(* One cloud session as a VS Code window follows it: CloudSessionManager   *)
(* with its EventPoller, beside the Sessions API and the harness behind it *)
(* (external, as the manager's comments and tests say they behave).        *)
(* A request is under way until its answer is dealt with; everything the   *)
(* client does between two awaits is one step. The log is followed by its  *)
(* numbers; time is what is left of each delay, in units of ten seconds.   *)
(***************************************************************************)
EXTENDS Naturals, Sequences, FiniteSetsExt

CONSTANTS
  Messages,           \* the user's messages, by turn id
  Parked,             \* the entry of a turn that was cut off by parking
  Grace,              \* POLL_GRACE_MS
  Delays,             \* AUTO_RESUME_DELAYS_MS
  Settle,             \* START_SETTLE_MS
  Gap,                \* PARKED_RESTART_GAP_MS
  MaxParkedRestarts,  \* MAX_PARKED_RESTARTS
  MaxActs,           \* bound: the user's steps, but for sending
  MaxFailures,        \* bound: requests that fail
  MaxChainEnds        \* bound: key chains that end

ASSUME SessionAssumption ==
  /\ Parked \notin Messages
  /\ {Grace, Settle, Gap, MaxParkedRestarts, MaxActs, MaxFailures, MaxChainEnds} \subseteq Nat
  /\ Delays \in Seq(Nat) /\ Grace > Settle /\ Settle > 0 /\ Gap > 0
  /\ \A i \in DOMAIN Delays : Grace > Delays[i]

VARIABLES
  reported,    \* the state the Sessions API reports
  task,        \* the harness: "none", "booting", "up", "parking", "stopping"
  inbox,       \* messages posted and not yet picked up
  log,         \* the session's events: a message picked up, or AuthRequired
  call,        \* requests of the client, see Calls
  viewing,     \* the view shows this session
  watch,       \* EventPoller.watched
  poll,        \* the poll under way
  timer,       \* the poller's timer: "off", or set for "now" or for "later"
  again,       \* EventPoller.again
  polled,      \* a poll ended since time last passed
  t,           \* Tracked
  startedFor,  \* the entries an automatic start was made for
  acts, failures, chainEnds,
  ended,       \* history: messages the user stopped or aborted
  told,        \* history: entries the user heard could not be started
  missed,      \* history: an event was passed over since it was opened
  crossed,     \* history: a poll was under way when its watch was made anew
  behind,      \* history: the last poll failed, or left more to read
  refused      \* history: an automatic start failed since polling was renewed

service == <<reported, task, inbox, log>>
poller  == <<watch, poll, timer, again, polled>>
bounds  == <<acts, failures, chainEnds>>
history == <<ended, told, missed, crossed, behind, refused>>
vars == <<service, call, viewing, poller, t, startedFor, bounds, history>>

States == {"sleeping", "starting", "running", "busy", "parked"}
Asleep == {"sleeping", "parked"}
AuthRequired == "auth-required"
Earlier == "earlier"          \* an event of before
Entries == Messages \cup {Parked}

\* A start is made for the command that found the session asleep, or by
\* the client on its own.
Posts  == {<<"post", m>> : m \in Messages}
Aborts == {<<"abort", m>> : m \in Messages}
AutoStart == <<"start", <<"auto">>>>
Starts == {<<"start", c>> : c \in Posts \cup Aborts} \cup {AutoStart}
Plain  == {<<"stop">>, <<"open">>, <<"list">>}
Calls  == Starts \cup Posts \cup Aborts \cup Plain

NoWatch == [watched |-> FALSE]
NoPoll  == [step |-> "none"]
NoEntry == [waits |-> FALSE]
NewEntry(sent) == [waits |-> TRUE, sent |-> sent, tries |-> 0, wait |-> 0, spent |-> FALSE]

Init ==
  /\ \/ reported \in Asleep /\ task = "none"
     \/ reported \in {"running", "busy"} /\ task = "up"
  /\ inbox = {} /\ log = <<Earlier>>
  /\ call = [c \in Calls |-> "none"]
  /\ viewing = FALSE
  /\ watch = NoWatch /\ poll = NoPoll
  /\ timer = "off" /\ again = FALSE /\ polled = FALSE
  /\ t = [state |-> "unknown", lastSeq |-> 0, replaying |-> FALSE,
          unanswered |-> [e \in Entries |-> NoEntry],
          parkedRestarts |-> 0, gap |-> 0, settle |-> 0]
  /\ startedFor = {}
  /\ acts = 0 /\ failures = 0 /\ chainEnds = 0
  /\ ended = {} /\ told = {} /\ missed = FALSE /\ crossed = FALSE
  /\ behind = FALSE /\ refused = FALSE

-----------------------------------------------------------------------------
(* The harness and the Sessions API.                                       *)

Boot ==
  /\ task = "booting"
  /\ task' = "up" /\ reported' = "running"
  /\ UNCHANGED <<inbox, log>>

PickUp(m) ==
  /\ task = "up" /\ reported = "running" /\ m \in inbox
  /\ inbox' = inbox \ {m}
  /\ log' = Append(log, m)
  /\ reported' = "busy"
  /\ UNCHANGED task

FinishTurn ==
  /\ task = "up" /\ reported = "busy"
  /\ reported' = "running"
  /\ UNCHANGED <<task, inbox, log>>

\* The key chain ends; the harness parks, mid-turn or not.
ChainEnds ==
  /\ task = "up" /\ chainEnds < MaxChainEnds
  /\ log' = Append(log, AuthRequired)
  /\ task' = "parking"
  /\ chainEnds' = chainEnds + 1
  /\ UNCHANGED <<reported, inbox>>

Park ==
  /\ task = "parking"
  /\ task' = "stopping" /\ reported' = "parked"
  /\ UNCHANGED <<inbox, log>>

\* An exit when idle, which may pass a message that is just being sent.
GoToSleep ==
  /\ task = "up" /\ reported = "running"
  /\ task' = "stopping" /\ reported' = "sleeping"
  /\ UNCHANGED <<inbox, log>>

TaskEnds ==
  /\ task = "stopping"
  /\ task' = "none"
  /\ UNCHANGED <<reported, inbox, log>>

HarnessStep ==
  /\ \/ ChainEnds
     \/ UNCHANGED chainEnds /\ (Boot \/ FinishTurn \/ Park \/ GoToSleep \/ TaskEnds)
     \/ UNCHANGED chainEnds /\ \E m \in Messages : PickUp(m)
  /\ UNCHANGED <<call, viewing, poller, t, startedFor, acts, failures, history>>

\* POST /start does nothing while there is a task, an old one included.
ServeStart(c) ==
  /\ c \in Starts
  /\ IF task = "none" THEN task' = "booting" /\ reported' = "starting"
                      ELSE UNCHANGED <<task, reported>>
  /\ UNCHANGED inbox

\* A stop ends the task and drops what is queued.
ServeStop(c) ==
  /\ c = <<"stop">>
  /\ inbox' = {}
  /\ IF task \in {"booting", "up", "parking"}
     THEN task' = "stopping" /\ reported' = "sleeping"
     ELSE UNCHANGED <<task, reported>>

ServePost(c) ==
  /\ c \in Posts
  /\ inbox' = inbox \cup {c[2]}
  /\ UNCHANGED <<task, reported>>

ServeOther(c) ==
  /\ c \in Aborts \cup {<<"open">>, <<"list">>}
  /\ UNCHANGED <<task, reported, inbox>>

\* An answer carries the state; the client deals with it later. It may be lost.
Serve(c) ==
  /\ call[c] = "asked"
  /\ ServeStart(c) \/ ServeStop(c) \/ ServePost(c) \/ ServeOther(c)
  /\ \/ call' = [call EXCEPT ![c] = reported'] /\ UNCHANGED failures
     \/ /\ failures < MaxFailures
        /\ failures' = failures + 1
        /\ call' = [call EXCEPT ![c] = "failed"]
  /\ UNCHANGED <<log, viewing, poller, t, startedFor, acts, chainEnds, history>>

Refuse(c) ==
  /\ call[c] \in {"asked", "minting"} /\ failures < MaxFailures
  /\ call' = [call EXCEPT ![c] = "failed"]
  /\ failures' = failures + 1
  /\ UNCHANGED <<service, viewing, poller, t, startedFor, acts, chainEnds, history>>

Answered(c) == call[c] \in States

-----------------------------------------------------------------------------
(* EventPoller.                                                            *)

\* MUTANT of Polls: no grace period.
PollsAwakeOnly(w) == w.watched /\ w.state \notin Asleep

\* intervalFor is finite.
Polls(w) == w.watched /\ (w.state \notin Asleep \/ w.grace > 0)

\* schedule(0), with the watched session as it is then.
ScheduleNow ==
  /\ timer' = IF poll = NoPoll THEN "now" ELSE timer
  /\ again' = (again \/ poll # NoPoll)

Rewatched(w, from, s) ==
  [watched |-> TRUE, cursor |-> from, state |-> s, grace |-> Grace,
   gen |-> IF w.watched THEN w.gen ELSE 0]

\* MUTANT of WatchFromStart: the generation is kept.
WatchFromStartSameGen(w, s) == Rewatched(w, 0, s)

\* watch with a cursor: the replay of a session that is opened.
WatchFromStart(w, s) ==
  [Rewatched(w, 0, s) EXCEPT !.gen = @ + 1]

\* poke, which watches what is not watched, from the start of the log.
Poked(w, s) == Rewatched(w, IF w.watched THEN w.cursor ELSE 0, s)

\* At once if there is more or it was asked for meanwhile.
NextPoll(more, w) ==
  IF more \/ again THEN "now" ELSE IF Polls(w) THEN "later" ELSE "off"

PollBegin ==
  /\ timer # "off" /\ poll = NoPoll
  /\ timer' = "off"
  /\ again' = FALSE
  /\ IF Polls(watch)
     THEN /\ poll' = [step |-> "asked", gen |-> watch.gen, from |-> watch.cursor]
          /\ UNCHANGED polled
     ELSE /\ polled' = TRUE
          /\ UNCHANGED poll
  /\ UNCHANGED <<service, call, viewing, watch, t, startedFor, bounds, history>>

\* GET /events: some of what follows the cursor, and the state.
ServePoll ==
  /\ poll.step = "asked"
  /\ \E upto \in poll.from..Len(log) :
       /\ upto > poll.from \/ poll.from = Len(log)
       /\ poll' = [step |-> "answered", gen |-> poll.gen, from |-> poll.from,
                   upto |-> upto, state |-> reported, more |-> upto < Len(log)]
  /\ UNCHANGED <<service, call, viewing, watch, timer, again, polled, t, startedFor, bounds, history>>

\* It is made again after a while, if anything is watched.
PollFails ==
  /\ poll.step = "asked" /\ failures < MaxFailures
  /\ failures' = failures + 1
  /\ poll' = NoPoll /\ polled' = TRUE
  /\ timer' = IF watch.watched THEN "later" ELSE "off"
  /\ behind' = TRUE
  /\ UNCHANGED <<service, call, viewing, watch, again, t, startedFor, acts, chainEnds,
                 ended, told, missed, crossed, refused>>

-----------------------------------------------------------------------------
(* CloudSessionManager. Its handlers are steps from one Tracked to the next. *)

Resuming == \E c \in Starts : call[c] # "none"

\* An entry that the client still has to start the session for.
Open(tr) == {e \in Entries : tr.unanswered[e].waits /\ ~tr.unanswered[e].spent}

\* releaseIfIdle lets go of the session, given what is tracked and in view.
LetsGo(tr, seen) ==
  /\ ~seen /\ watch.watched /\ tr.state \in Asleep
  /\ ~Resuming /\ Open(tr) = {}

\* setState: a session that goes to sleep out of view is let go.
Releases(tr, s) == s # tr.state /\ LetsGo([tr EXCEPT !.state = s], viewing)

\* MUTANT of WithState: who waits for the replay is not told.
WithStateOnly(tr, s) == [tr EXCEPT !.state = s]

\* Letting go of it ends its replay (close).
WithState(tr, s) ==
  [tr EXCEPT !.state = s, !.replaying = @ /\ ~Releases(tr, s)]

WithEntry(tr, e, m) == [tr EXCEPT !.unanswered = [@ EXCEPT ![e] = m]]

Without(tr, entries) ==
  [tr EXCEPT !.unanswered = [e \in Entries |-> IF e \in entries THEN NoEntry ELSE @[e]]]

\* setState and poke, as after each command; the poll comes at once.
StateAndPoke(tr, s) ==
  LET kept == IF Releases(tr, s) THEN NoWatch ELSE watch
  IN
  /\ watch' = Poked(kept, s)
  /\ crossed' = (crossed \/ (~kept.watched /\ poll # NoPoll))
  /\ refused' = FALSE
  /\ ScheduleNow

\* What each event of a batch does: an acknowledged message is dropped, a
\* session in view whose key chain ends mid-turn is noted (restartParked).
RestartsParked(tr, events) ==
  /\ AuthRequired \in events
  /\ ~tr.replaying /\ tr.state = "busy" /\ viewing
  /\ tr.parkedRestarts < MaxParkedRestarts /\ tr.gap = 0

AfterEvents(tr, events, upto) ==
  LET acked == [Without(tr, events \cap Messages) EXCEPT !.lastSeq = Max({@, upto})]
  IN IF RestartsParked(tr, events)
     THEN [WithEntry(acked, Parked, NewEntry(TRUE)) EXCEPT !.parkedRestarts = @ + 1, !.gap = Gap]
     ELSE acked

\* autoResume: the entries a start is due for.
Due(tr) ==
  {e \in Open(tr) : LET m == tr.unanswered[e]
                    IN m.sent /\ m.tries < Len(Delays) /\ m.wait = 0}

MayResume(tr, s) == s \in Asleep /\ ~Resuming /\ tr.settle = 0 /\ Due(tr) # {}

\* A try is counted; the next may come after the delay at its index.
Tried(m) ==
  [m EXCEPT !.tries = @ + 1,
            !.wait = IF m.tries + 1 < Len(Delays) THEN Delays[m.tries + 2] ELSE 0]

\* A start took: none again for these.
Taken(e, m) == IF m.waits /\ m.tries > 0
               THEN IF e = Parked THEN NoEntry ELSE [m EXCEPT !.spent = TRUE]
               ELSE m

AfterAutoResume(tr, s) ==
  [tr EXCEPT !.unanswered =
    [e \in Entries |-> IF s \notin Asleep THEN Taken(e, @[e])
                       ELSE IF MayResume(tr, s) /\ e \in Due(tr) THEN Tried(@[e])
                       ELSE @[e]]]

\* handleStream for a batch up to `upto`: events, state, end of the replay,
\* and a start if the log was read to its end.
Handled(tr, events, a) ==
  LET stated == WithState(AfterEvents(tr, events, a.upto), a.state)
  IN IF a.more THEN stated
     ELSE AfterAutoResume([stated EXCEPT !.replaying = FALSE], a.state)

Accepted == watch.watched /\ watch.gen = poll.gen

PollReturns ==
  /\ poll.step = "answered"
  /\ LET events == {log[i] : i \in (Max({poll.from, t.lastSeq}) + 1)..poll.upto}
         read   == AfterEvents(t, events, poll.upto)
         starts == ~poll.more /\ MayResume(WithState(read, poll.state), poll.state)
         next   == IF Releases(read, poll.state) THEN NoWatch
                   ELSE [watch EXCEPT !.cursor = poll.upto, !.state = poll.state]
     IN
     \/ /\ Accepted
        /\ t' = Handled(t, events, poll)
        /\ watch' = next
        /\ call' = IF starts THEN [call EXCEPT ![AutoStart] = "minting"] ELSE call
        /\ startedFor' = IF starts THEN Due(read) ELSE startedFor
        /\ missed' = (missed \/ poll.from > t.lastSeq)
        /\ behind' = poll.more
        /\ timer' = NextPoll(poll.more, next)
     \/ /\ ~Accepted
        /\ timer' = NextPoll(FALSE, watch)
        /\ UNCHANGED <<t, watch, call, startedFor, missed, behind>>
  /\ poll' = NoPoll /\ polled' = TRUE
  /\ UNCHANGED <<service, viewing, again, bounds, ended, told, crossed, refused>>

(* The user's commands and their answers.                                  *)

Send(m) ==
  /\ viewing /\ call[<<"post", m>>] = "none" /\ m \notin told \cup ended \cup inbox
  /\ m \notin {log[i] : i \in DOMAIN log} /\ ~t.unanswered[m].waits
  /\ t' = [WithEntry(t, m, NewEntry(FALSE)) EXCEPT !.parkedRestarts = 0]
  /\ call' = [call EXCEPT ![<<"post", m>>] = "asked"]
  /\ UNCHANGED <<service, viewing, poller, startedFor, bounds, ended, told, missed, crossed, behind, refused>>

\* A command that finds the session asleep starts it.
StartIfAsleep(s, c, calls) ==
  call' = IF s \in Asleep THEN [calls EXCEPT ![c] = "minting"] ELSE calls

PostReturns(m) ==
  LET c == <<"post", m>>
      s == call[c]
      sent == IF t.unanswered[m].waits
              THEN WithEntry(t, m, [t.unanswered[m] EXCEPT !.sent = TRUE]) ELSE t
  IN
  /\ Answered(c)
  /\ t' = WithState(sent, s)
  /\ StateAndPoke(sent, s)
  /\ StartIfAsleep(s, <<"start", c>>, [call EXCEPT ![c] = "none"])
  /\ UNCHANGED <<service, viewing, poll, polled, startedFor, bounds, ended, told, missed, behind>>

PostFails(m) ==
  /\ call[<<"post", m>>] = "failed"
  /\ t' = Without(t, {m})
  /\ told' = told \cup {m}
  /\ call' = [call EXCEPT ![<<"post", m>>] = "none"]
  /\ UNCHANGED <<service, viewing, poller, startedFor, bounds, ended, missed, crossed, behind, refused>>

\* MUTANT of Abort: the message is not forgotten.
AbortKeepsEntry(m) ==
  /\ viewing /\ m \notin ended /\ call[<<"abort", m>>] = "none"
  /\ t.unanswered[m].waits
  /\ ended' = ended \cup {m}
  /\ call' = [call EXCEPT ![<<"abort", m>>] = "asked"]
  /\ UNCHANGED <<service, t, viewing, poller, startedFor, told, missed, crossed, behind, refused>>

Abort(m) ==
  /\ viewing /\ m \notin ended /\ call[<<"abort", m>>] = "none"
  /\ t.unanswered[m].waits \/ m \in {log[i] : i \in DOMAIN log}
  /\ t' = Without(t, {m})
  /\ ended' = ended \cup {m}
  /\ call' = [call EXCEPT ![<<"abort", m>>] = "asked"]
  /\ UNCHANGED <<service, viewing, poller, startedFor, told, missed, crossed, behind, refused>>

AbortReturns(m) ==
  LET c == <<"abort", m>>
      s == call[c]
  IN
  /\ Answered(c)
  /\ t' = WithState(t, s)
  /\ StateAndPoke(t, s)
  /\ StartIfAsleep(s, <<"start", c>>, [call EXCEPT ![c] = "none"])
  /\ UNCHANGED <<service, viewing, poll, polled, startedFor, bounds, ended, told, missed, behind>>

Stop ==
  /\ viewing /\ call[<<"stop">>] = "none"
  /\ t' = Without(t, Entries)
  /\ ended' = ended \cup {m \in Messages : t.unanswered[m].waits}
  /\ call' = [call EXCEPT ![<<"stop">>] = "asked"]
  /\ UNCHANGED <<service, viewing, poller, startedFor, told, missed, crossed, behind, refused>>

StopReturns ==
  LET s == call[<<"stop">>]
  IN
  /\ Answered(<<"stop">>)
  /\ t' = WithState(t, s)
  /\ StateAndPoke(t, s)
  /\ call' = [call EXCEPT ![<<"stop">>] = "none"]
  /\ UNCHANGED <<service, viewing, poll, polled, startedFor, bounds, ended, told, missed, behind>>

\* The user hears of it; nothing else changes.
CommandFails(c) ==
  /\ c \in Aborts \cup Plain /\ call[c] = "failed"
  /\ call' = [call EXCEPT ![c] = "none"]
  /\ UNCHANGED <<service, viewing, poller, t, startedFor, bounds, history>>

\* resume: the key is minted, then the start is asked for.
KeyMinted(c) ==
  /\ call[c] = "minting"
  /\ call' = [call EXCEPT ![c] = "asked"]
  /\ UNCHANGED <<service, viewing, poller, t, startedFor, bounds, history>>

StartReturns(c) ==
  LET s == call[c]
  IN
  /\ c \in Starts /\ Answered(c)
  /\ t' = [WithState(t, s) EXCEPT !.settle = Settle]
  /\ StateAndPoke(t, s)
  /\ call' = [call EXCEPT ![c] = "none"]
  /\ startedFor' = IF c = AutoStart THEN {} ELSE startedFor
  /\ UNCHANGED <<service, viewing, poll, polled, bounds, ended, told, missed, behind>>

\* A start that fails is not retried: the entries it was for are spent.
StartFails(c) ==
  LET for == IF c = AutoStart THEN startedFor ELSE {}
  IN
  /\ c \in Starts /\ call[c] = "failed"
  /\ t' = [t EXCEPT !.settle = Settle,
                    !.unanswered = [e \in Entries |->
                      IF e \in for /\ @[e].waits THEN [@[e] EXCEPT !.spent = TRUE] ELSE @[e]]]
  /\ told' = told \cup (IF c = AutoStart THEN startedFor ELSE IF c[2] \in Posts THEN {c[2][2]} ELSE {})
  /\ call' = [call EXCEPT ![c] = "none"]
  /\ startedFor' = IF c = AutoStart THEN {} ELSE startedFor
  /\ refused' = (refused \/ c = AutoStart)
  /\ UNCHANGED <<service, viewing, poller, bounds, ended, missed, crossed, behind>>

(* Opening, leaving, listing.                                              *)

OpenSession ==
  /\ call[<<"open">>] = "none"
  /\ call' = [call EXCEPT ![<<"open">>] = "asked"]
  /\ UNCHANGED <<service, viewing, poller, t, startedFor, history>>

OpenReturns ==
  LET s == call[<<"open">>]
  IN
  /\ Answered(<<"open">>)
  /\ viewing' = TRUE
  /\ t' = [t EXCEPT !.state = s, !.replaying = TRUE, !.lastSeq = 0]
  /\ watch' = WatchFromStart(watch, s)
  /\ ScheduleNow
  /\ crossed' = (crossed \/ (~watch.watched /\ poll # NoPoll))
  /\ missed' = FALSE /\ refused' = FALSE
  /\ call' = [call EXCEPT ![<<"open">>] = "none"]
  /\ UNCHANGED <<service, poll, polled, startedFor, bounds, ended, told, behind>>

\* setViewing of another session.
Leave ==
  /\ viewing
  /\ viewing' = FALSE
  /\ watch' = IF LetsGo(t, FALSE) THEN NoWatch ELSE watch
  /\ t' = [t EXCEPT !.replaying = @ /\ ~LetsGo(t, FALSE)]
  /\ UNCHANGED <<service, call, poll, timer, again, polled, startedFor, history>>

\* list reports the state of every session; an answer may be stale when
\* it is dealt with.
List ==
  /\ call[<<"list">>] = "none"
  /\ call' = [call EXCEPT ![<<"list">>] = "asked"]
  /\ UNCHANGED <<service, viewing, poller, t, startedFor, history>>

ListReturns ==
  LET s == call[<<"list">>]
      heard == t.state # "unknown"
  IN
  /\ Answered(<<"list">>)
  /\ t' = IF heard THEN WithState(t, s) ELSE t
  /\ watch' = IF heard /\ Releases(t, s) THEN NoWatch ELSE watch
  /\ call' = [call EXCEPT ![<<"list">>] = "none"]
  /\ UNCHANGED <<service, viewing, poll, timer, again, polled, startedFor, bounds, history>>

-----------------------------------------------------------------------------

Down(n) == IF n = 0 THEN 0 ELSE n - 1

Aged(m) == IF m.waits THEN [m EXCEPT !.wait = Down(@)] ELSE m

\* A watched session is polled, and a request answered, within a unit.
Tick ==
  /\ timer # "now" /\ (timer = "later" => polled)
  /\ poll = NoPoll /\ \A c \in Calls : call[c] = "none"
  /\ polled' = FALSE
  /\ watch' = IF watch.watched THEN [watch EXCEPT !.grace = Down(@)] ELSE watch
  /\ t' = [t EXCEPT !.gap = Down(@), !.settle = Down(@),
                    !.unanswered = [e \in Entries |-> Aged(@[e])]]
  /\ UNCHANGED <<service, call, viewing, poll, timer, again, startedFor, bounds, history>>

\* What the client does with an answer, or without one.
Deal(c) ==
  \/ c = <<"open">> /\ OpenReturns
  \/ c = <<"stop">> /\ StopReturns
  \/ c = <<"list">> /\ ListReturns
  \/ CommandFails(c) \/ StartReturns(c) \/ StartFails(c)
  \/ \E m \in Messages :
       \/ c = <<"post", m>> /\ (PostReturns(m) \/ PostFails(m))
       \/ c = <<"abort", m>> /\ AbortReturns(m)

ClientStep ==
  \/ PollBegin \/ PollFails \/ PollReturns
  \/ \E c \in Calls : KeyMinted(c) \/ Deal(c)

UserStep ==
  \/ \E m \in Messages : Send(m)
  \/ /\ OpenSession \/ Leave \/ List \/ Stop \/ \E m \in Messages : Abort(m)
     /\ acts < MaxActs
     /\ acts' = acts + 1
     /\ UNCHANGED <<failures, chainEnds>>

Next ==
  \/ HarnessStep \/ ServePoll \/ Tick \/ ClientStep \/ UserStep
  \/ \E c \in Calls : Serve(c) \/ Refuse(c)

Spec == Init /\ [][Next]_vars

FairSpec ==
  /\ Spec
  /\ WF_vars(HarnessStep)
  /\ WF_vars(PollBegin \/ ServePoll \/ PollReturns)
  /\ WF_vars(\E c \in Calls : KeyMinted(c) \/ Serve(c) \/ Deal(c))
  /\ SF_vars(Tick)

-----------------------------------------------------------------------------

(***************************************************************************)
(* Types.                                                                  *)
(***************************************************************************)
Entry == {NoEntry} \cup
  [waits : {TRUE}, sent : BOOLEAN, tries : 0..Len(Delays), wait : Nat, spent : BOOLEAN]

SessionTypeOK ==
  /\ reported \in States /\ task \in {"none", "booting", "up", "parking", "stopping"}
  /\ inbox \subseteq Messages /\ log \in Seq(Messages \cup {AuthRequired, Earlier})
  /\ call \in [Calls -> States \cup {"none", "minting", "asked", "failed"}]
  /\ watch \in {NoWatch} \cup [watched : {TRUE}, cursor : 0..Len(log), state : States,
                               grace : 0..Grace, gen : Nat]
  /\ poll.step \in {"none", "asked", "answered"}
  /\ t.state \in States \cup {"unknown"} /\ t.lastSeq \in 0..Len(log)
  /\ t.unanswered \in [Entries -> Entry] /\ t.parkedRestarts \in 0..MaxParkedRestarts
  /\ t.gap \in 0..Gap /\ t.settle \in 0..Settle
  /\ startedFor \subseteq Entries /\ (startedFor # {} => call[AutoStart] # "none")

(***************************************************************************)
(* The view is given every event since the session was opened, none is     *)
(* passed over, so long as no poll crossed a watch that was given up and   *)
(* made anew.                                                              *)
(***************************************************************************)
ViewMissesNothing == ~crossed => ~missed

\* A message, or a turn cut off by parking, that the client still has to
\* see to: it was sent, nothing acknowledged it, and tries are left.
Pending(e) ==
  /\ e \in Open(t) /\ t.unanswered[e].sent
  /\ t.unanswered[e].tries < Len(Delays)

Polled == watch.watched /\ (timer # "off" \/ poll # NoPoll)

\* Polling of a watched session has ended early: the last poll failed or left
\* more to read, or an automatic start failed, when it slept and its grace
\* period was over.
CutShort == (behind \/ refused) /\ watch.watched /\ ~Polls(watch)

(***************************************************************************)
(* As long as one is pending the session is polled, so that going to sleep *)
(* without it is noticed, or a request is under way that will see to it;   *)
(* and as long as someone waits for a replay (`replayed`) it is polled;    *)
(* unless polling was cut short.                                           *)
(***************************************************************************)
PendingIsPolled ==
  /\ (\E e \in Entries : Pending(e)) => Polled \/ Resuming \/ CutShort
  /\ t.replaying => Polled \/ CutShort

SessionOK == SessionTypeOK /\ PendingIsPolled

(***************************************************************************)
(* A message is picked up or ended in the end, or the user hears that it   *)
(* could not be started, or every try was made.                            *)
(***************************************************************************)
PendingIsSeenTo == \A e \in Entries : Pending(e) ~> ~Pending(e)

\* The start of call `c` is decided on in this step.
Begins(c) == call[c] = "none" /\ call'[c] # "none"

\* It is an automatic one for what still waits, or on an answer.
Wanted(c) ==
  \/ c = AutoStart /\ startedFor' # {} /\ startedFor' \cap ended = {}
  \/ \E d \in Posts \cup Aborts : c = <<"start", d>> /\ call[d] \in Asleep

(***************************************************************************)
(* A start that the client decides on by itself is for some entry, and for *)
(* none that the user ended. Any other start is decided on when the answer *)
(* to a message, or to an abort, finds the session asleep: that one is     *)
(* made although the user may have ended the message while the answer was  *)
(* out, and no start that was decided on before is taken back (send looks  *)
(* at neither).                                                            *)
(***************************************************************************)
AutoStartsSpareEnded == [][\A c \in Starts : Begins(c) => Wanted(c)]_vars
=============================================================================
