------------------------- MODULE CloudSession_proofs -------------------------
(***************************************************************************)
(* Proofs about a cloud session as VS Code follows it, for every set of    *)
(* messages, every delay, any number of steps of the user, of failures and *)
(* of key chains that end: what is pending is polled for, the view misses  *)
(* nothing, and an automatic start is for nothing that the user ended.      *)
(***************************************************************************)
EXTENDS CloudSession, TLAPS

-----------------------------------------------------------------------------
(* Types, in a form that names every field.                                *)

Watches == [watched : {TRUE}, cursor : Nat, state : States, grace : 0..Grace, gen : Nat]
Entered == [waits : {TRUE}, sent : BOOLEAN, tries : 0..Len(Delays), wait : Nat, spent : BOOLEAN]
Trackeds ==
  [state : States \cup {"unknown"}, lastSeq : Nat, replaying : BOOLEAN,
   unanswered : [Entries -> Entry], parkedRestarts : 0..MaxParkedRestarts,
   gap : 0..Gap, settle : 0..Settle]
Asked == [step : {"asked"}, gen : Nat, from : Nat]
AnsweredPolls ==
  [step : {"answered"}, gen : Nat, from : Nat, upto : Nat, state : States, more : BOOLEAN]
CallStates == States \cup {"none", "minting", "asked", "failed"}

Types ==
  /\ reported \in States /\ task \in {"none", "booting", "up", "parking", "stopping"}
  /\ inbox \subseteq Messages /\ log \in Seq(Messages \cup {AuthRequired, Earlier})
  /\ call \in [Calls -> CallStates] /\ viewing \in BOOLEAN
  /\ watch \in {NoWatch} \cup Watches
  /\ poll \in {NoPoll} \cup Asked \cup AnsweredPolls
  /\ timer \in {"off", "now", "later"} /\ again \in BOOLEAN /\ polled \in BOOLEAN
  /\ t \in Trackeds
  /\ startedFor \subseteq Entries /\ ended \subseteq Messages
  /\ missed \in BOOLEAN /\ crossed \in BOOLEAN
  /\ behind \in BOOLEAN /\ refused \in BOOLEAN

\* What was read is in the log.
ReadFromLog ==
  /\ watch.watched => watch.cursor <= Len(log)
  /\ poll.step # "none" => poll.from <= Len(log)
  /\ poll.step = "answered" => poll.from <= poll.upto /\ poll.upto <= Len(log)
  /\ t.lastSeq <= Len(log)

\* A start that is under way for entries is the automatic one.
StartedByAuto == startedFor # {} => call[AutoStart] # "none"

TypeInv == Types /\ ReadFromLog /\ StartedByAuto

-----------------------------------------------------------------------------
(* The operators of the model.                                             *)

LEMMA MaxOfTwo ==
  ASSUME NEW a \in Nat, NEW b \in Nat
  PROVE  /\ Max({a, b}) \in {a, b} /\ Max({a, b}) >= a /\ Max({a, b}) >= b
<1>1. \E x \in {a, b} : \A y \in {a, b} : x >= y
  OBVIOUS
<1>2. QED
  BY <1>1 DEF Max

LEMMA CallKinds ==
  /\ Starts \subseteq Calls /\ Posts \subseteq Calls /\ Aborts \subseteq Calls
  /\ AutoStart \in Starts /\ Plain \subseteq Calls
  /\ <<"stop">> \in Calls /\ <<"open">> \in Calls /\ <<"list">> \in Calls
  /\ \A c \in Posts \cup Aborts \cup Plain : c \notin Starts
  /\ <<"stop">> \notin Starts /\ <<"open">> \notin Starts /\ <<"list">> \notin Starts
  /\ \A m \in Messages : <<"post", m>> \in Posts /\ <<"abort", m>> \in Aborts
  /\ \A c \in Posts \cup Aborts :
       <<"start", c>> \in Starts /\ <<"start", c>> # AutoStart
BY DEF Calls, Plain, Starts, Posts, Aborts, AutoStart

LEMMA EntryKinds ==
  /\ NoEntry \in Entry /\ NoEntry.waits = FALSE
  /\ \A s \in BOOLEAN : NewEntry(s) \in Entered
  /\ Entry = {NoEntry} \cup Entered
  /\ \A m \in Entry : m.waits \in BOOLEAN /\ (m.waits <=> m \in Entered)
<1>1. Len(Delays) \in Nat
  BY SessionAssumption
<1>2. Entry = {NoEntry} \cup Entered
  BY DEF Entry, Entered
<1>3. \A m \in Entered : m.waits = TRUE
  BY DEF Entered
<1>4. NoEntry.waits = FALSE
  BY DEF NoEntry
<1>5. \A s \in BOOLEAN : NewEntry(s) \in Entered
  BY <1>1 DEF NewEntry, Entered
<1>6. QED
  BY <1>2, <1>3, <1>4, <1>5

LEMMA WatchKinds ==
  /\ NoWatch.watched = FALSE /\ \A w \in Watches : w.watched = TRUE
  /\ NoPoll.step = "none" /\ \A p \in Asked : p.step = "asked"
  /\ \A p \in AnsweredPolls : p.step = "answered"
BY DEF NoWatch, NoPoll, Watches, Asked, AnsweredPolls

LEMMA PokedWatch ==
  ASSUME NEW w \in {NoWatch} \cup Watches, NEW s \in States, NEW from \in Nat
  PROVE  /\ Rewatched(w, from, s) \in Watches
         /\ Rewatched(w, from, s).cursor = from /\ Rewatched(w, from, s).grace = Grace
         /\ Rewatched(w, from, s).state = s
         /\ Rewatched(w, from, s).gen = IF w.watched THEN w.gen ELSE 0
<1>1. Grace \in 0..Grace
  BY SessionAssumption
<1>2. w.watched => w.gen \in Nat
  BY WatchKinds DEF Watches
<1>3. QED
  BY <1>1, <1>2 DEF Rewatched, Watches

LEMMA WithoutTypes ==
  ASSUME NEW tr \in Trackeds, NEW gone
  PROVE  /\ Without(tr, gone) \in Trackeds
         /\ Without(tr, gone) = [tr EXCEPT !.unanswered = Without(tr, gone).unanswered]
         /\ \A e \in Entries : Without(tr, gone).unanswered[e] =
              IF e \in gone THEN NoEntry ELSE tr.unanswered[e]
BY EntryKinds DEF Without, Trackeds

LEMMA WithEntryTypes ==
  ASSUME NEW tr \in Trackeds, NEW f \in Entries, NEW m \in Entry
  PROVE  /\ WithEntry(tr, f, m) \in Trackeds
         /\ WithEntry(tr, f, m) = [tr EXCEPT !.unanswered = WithEntry(tr, f, m).unanswered]
         /\ \A e \in Entries : WithEntry(tr, f, m).unanswered[e] =
              IF e = f THEN m ELSE tr.unanswered[e]
BY DEF WithEntry, Trackeds

LEMMA WithStateTypes ==
  ASSUME NEW tr \in Trackeds, NEW s \in States
  PROVE  /\ WithState(tr, s) \in Trackeds
         /\ WithState(tr, s).unanswered = tr.unanswered
         /\ WithState(tr, s).lastSeq = tr.lastSeq
         /\ WithState(tr, s).settle = tr.settle
         /\ WithState(tr, s).state = s
         /\ WithState(tr, s).replaying <=> tr.replaying /\ ~Releases(tr, s)
BY DEF WithState, Trackeds

LEMMA SameEntries ==
  ASSUME NEW tr \in Trackeds, NEW ur \in Trackeds, NEW s \in States,
         tr.unanswered = ur.unanswered
  PROVE  /\ Open(tr) = Open(ur) /\ Due(tr) = Due(ur)
         /\ tr.settle = ur.settle => (MayResume(tr, s) <=> MayResume(ur, s))
<1>1. Open(tr) = Open(ur)
  BY DEF Open
<1>2. Due(tr) = Due(ur)
  BY <1>1 DEF Due
<1>3. QED
  BY <1>1, <1>2 DEF MayResume

LEMMA AfterEventsTypes ==
  ASSUME NEW tr \in Trackeds, NEW events, NEW upto \in Nat
  PROVE  LET ur == AfterEvents(tr, events, upto) IN
         /\ ur \in Trackeds
         /\ ur.lastSeq = Max({tr.lastSeq, upto}) /\ ur.state = tr.state
         /\ ur.replaying = tr.replaying /\ ur.settle = tr.settle
         /\ \A e \in Entries :
              \/ ur.unanswered[e] = tr.unanswered[e]
              \/ ur.unanswered[e] = NoEntry
              \/ e = Parked /\ viewing /\ ur.unanswered[e] = NewEntry(TRUE)
<1> DEFINE gone == events \cap Messages
           less == Without(tr, gone)
           acked == [less EXCEPT !.lastSeq = Max({@, upto})]
           entry == NewEntry(TRUE)
           noted == WithEntry(acked, Parked, entry)
           restarted == [noted EXCEPT !.parkedRestarts = @ + 1, !.gap = Gap]
           ur == AfterEvents(tr, events, upto)
<1>1. tr.lastSeq \in Nat /\ tr.parkedRestarts \in 0..MaxParkedRestarts
  BY DEF Trackeds
<1>2. Max({tr.lastSeq, upto}) \in Nat
  BY <1>1, MaxOfTwo
<1>3. /\ less \in Trackeds /\ less.lastSeq = tr.lastSeq /\ less.state = tr.state
      /\ less.replaying = tr.replaying /\ less.settle = tr.settle
      /\ less.parkedRestarts = tr.parkedRestarts
      /\ \A e \in Entries : less.unanswered[e] = IF e \in gone THEN NoEntry ELSE tr.unanswered[e]
  <2>1. less = [tr EXCEPT !.unanswered = less.unanswered]
    BY WithoutTypes
  <2> HIDE DEF less, gone
  <2>2. less.lastSeq = tr.lastSeq /\ less.state = tr.state /\ less.parkedRestarts = tr.parkedRestarts
        /\ less.replaying = tr.replaying /\ less.settle = tr.settle
    BY <2>1 DEF Trackeds
  <2>3. QED
    BY <2>2, WithoutTypes DEF less
<1>4. /\ acked \in Trackeds /\ acked.lastSeq = Max({tr.lastSeq, upto}) /\ acked.state = tr.state
      /\ acked.replaying = tr.replaying /\ acked.settle = tr.settle
      /\ acked.parkedRestarts = tr.parkedRestarts /\ acked.unanswered = less.unanswered
  <2> HIDE DEF less
  <2>1. QED
    BY <1>2, <1>3 DEF Trackeds
<1>5. entry \in Entry /\ Parked \in Entries
  BY EntryKinds DEF Entries
<1>6. /\ noted \in Trackeds /\ noted.lastSeq = acked.lastSeq /\ noted.state = acked.state
      /\ noted.replaying = acked.replaying /\ noted.settle = acked.settle
      /\ noted.parkedRestarts = acked.parkedRestarts
      /\ \A e \in Entries : noted.unanswered[e] =
           IF e = Parked THEN entry ELSE acked.unanswered[e]
  <2> HIDE DEF acked, entry
  <2>1. noted = [acked EXCEPT !.unanswered = noted.unanswered]
    BY <1>4, <1>5, WithEntryTypes
  <2>2. \A e \in Entries : noted.unanswered[e] =
           IF e = Parked THEN entry ELSE acked.unanswered[e]
    BY <1>4, <1>5, WithEntryTypes
  <2>3. noted \in Trackeds
    BY <1>4, <1>5, WithEntryTypes
  <2> HIDE DEF noted
  <2>4. QED
    BY <1>4, <2>1, <2>2, <2>3 DEF Trackeds
<1>7. CASE RestartsParked(tr, events)
  <2>1. ur = restarted
    BY <1>7 DEF AfterEvents
  <2>2. viewing /\ tr.parkedRestarts < MaxParkedRestarts
    BY <1>7 DEF RestartsParked
  <2> HIDE DEF less, acked, noted, ur
  <2>3. tr.parkedRestarts + 1 \in 0..MaxParkedRestarts /\ Gap \in 0..Gap
    BY <1>1, <2>2, SessionAssumption
  <2>4. restarted \in Trackeds
    BY <1>4, <1>6, <2>3 DEF Trackeds
  <2>5. /\ restarted.lastSeq = noted.lastSeq /\ restarted.state = noted.state
        /\ restarted.replaying = noted.replaying /\ restarted.settle = noted.settle
        /\ restarted.unanswered = noted.unanswered
    BY <1>6 DEF Trackeds
  <2> HIDE DEF restarted
  <2>6. \A e \in Entries :
          \/ ur.unanswered[e] = tr.unanswered[e]
          \/ ur.unanswered[e] = NoEntry
          \/ e = Parked /\ viewing /\ ur.unanswered[e] = NewEntry(TRUE)
    BY <1>3, <1>4, <1>6, <2>1, <2>2, <2>5, ZenonT(40)
  <2>7. QED
    BY <1>4, <1>6, <2>1, <2>4, <2>5, <2>6 DEF ur
<1>8. CASE ~RestartsParked(tr, events)
  <2>1. ur = acked
    BY <1>8 DEF AfterEvents
  <2> HIDE DEF less, acked, ur
  <2>2. \A e \in Entries :
          \/ ur.unanswered[e] = tr.unanswered[e]
          \/ ur.unanswered[e] = NoEntry
          \/ e = Parked /\ viewing /\ ur.unanswered[e] = NewEntry(TRUE)
    BY <1>3, <1>4, <2>1
  <2>3. QED
    BY <1>4, <2>1, <2>2 DEF ur
<1>9. QED
  BY <1>7, <1>8

LEMMA TriedEntry ==
  ASSUME NEW m \in Entered, m.tries < Len(Delays)
  PROVE  /\ Tried(m) \in Entered /\ Tried(m).wait < Grace
         /\ Tried(m).spent = m.spent
<1>1. m.tries \in Nat /\ Len(Delays) \in Nat
  BY SessionAssumption DEF Entered
<1>2. m.tries + 1 \in 0..Len(Delays)
  BY <1>1
<1>3. m.tries + 1 < Len(Delays) => m.tries + 2 \in DOMAIN Delays
  BY <1>1, SessionAssumption
<1>4. m.tries + 1 < Len(Delays) => Delays[m.tries + 2] \in Nat /\ Grace > Delays[m.tries + 2]
  BY <1>3, SessionAssumption
<1>5. 0 < Grace
  BY SessionAssumption
<1> DEFINE w == IF m.tries + 1 < Len(Delays) THEN Delays[m.tries + 2] ELSE 0
<1>6. w \in Nat /\ w < Grace
  BY <1>4, <1>5
<1>7. Tried(m) = [m EXCEPT !.tries = m.tries + 1, !.wait = w]
  BY DEF Tried
<1> HIDE DEF w
<1>8. QED
  BY <1>2, <1>6, <1>7 DEF Entered

LEMMA TakenEntry ==
  ASSUME NEW m \in Entry, NEW e
  PROVE  /\ Taken(e, m) \in Entry
         /\ Taken(e, m).waits => m.waits /\ Taken(e, m).wait = m.wait
<1>1. CASE m \in Entered /\ m.tries > 0 /\ e # Parked
  <2>1. Taken(e, m) = [m EXCEPT !.spent = TRUE]
    BY <1>1, EntryKinds DEF Taken
  <2>2. QED
    BY <1>1, <2>1, EntryKinds DEF Entered
<1>2. CASE m \in Entered /\ m.tries > 0 /\ e = Parked
  BY <1>2, EntryKinds DEF Taken
<1>3. CASE m \in Entered /\ ~(m.tries > 0)
  BY <1>3, EntryKinds DEF Taken
<1>4. CASE m \notin Entered
  BY <1>4, EntryKinds DEF Taken
<1>5. QED
  BY <1>1, <1>2, <1>3, <1>4

LEMMA OpenEntries ==
  ASSUME NEW tr \in Trackeds
  PROVE  /\ \A e \in Open(tr) : e \in Entries /\ tr.unanswered[e] \in Entered /\ ~tr.unanswered[e].spent
         /\ \A e \in Due(tr) : /\ e \in Open(tr) /\ tr.unanswered[e].sent
                               /\ tr.unanswered[e].tries < Len(Delays) /\ tr.unanswered[e].wait = 0
<1>1. \A e \in Entries : tr.unanswered[e] \in Entry
  BY DEF Trackeds
<1>2. QED
  BY <1>1, EntryKinds DEF Open, Due

LEMMA AutoResumed ==
  ASSUME NEW tr \in Trackeds, NEW s \in States
  PROVE  LET ur == AfterAutoResume(tr, s) IN
         /\ ur \in Trackeds
         /\ ur.lastSeq = tr.lastSeq /\ ur.state = tr.state
         /\ ur.replaying = tr.replaying /\ ur.settle = tr.settle
         /\ \A e \in Entries : ur.unanswered[e] =
              IF s \notin Asleep THEN Taken(e, tr.unanswered[e])
              ELSE IF MayResume(tr, s) /\ e \in Due(tr) THEN Tried(tr.unanswered[e])
              ELSE tr.unanswered[e]
<1> DEFINE ur == AfterAutoResume(tr, s)
           after(e) == IF s \notin Asleep THEN Taken(e, tr.unanswered[e])
                       ELSE IF MayResume(tr, s) /\ e \in Due(tr) THEN Tried(tr.unanswered[e])
                       ELSE tr.unanswered[e]
<1>1. \A e \in Entries : after(e) \in Entry
  <2> SUFFICES ASSUME NEW e \in Entries PROVE after(e) \in Entry
    OBVIOUS
  <2>1. tr.unanswered[e] \in Entry
    BY DEF Trackeds
  <2>2. Taken(e, tr.unanswered[e]) \in Entry
    BY <2>1, TakenEntry
  <2>3. e \in Due(tr) => Tried(tr.unanswered[e]) \in Entry
    BY OpenEntries, TriedEntry, EntryKinds
  <2>4. QED
    BY <2>1, <2>2, <2>3
<1>2. ur = [tr EXCEPT !.unanswered = [e \in Entries |-> after(e)]]
  BY DEF AfterAutoResume
<1> HIDE DEF after
<1>3. [e \in Entries |-> after(e)] \in [Entries -> Entry]
  BY <1>1
<1> DEFINE f == [e \in Entries |-> after(e)]
<1>4. \A e \in Entries : f[e] = after(e)
  OBVIOUS
<1>5. ur = [tr EXCEPT !.unanswered = f] /\ f \in [Entries -> Entry]
  BY <1>2, <1>3
<1> HIDE DEF f, ur
<1>6. /\ ur \in Trackeds /\ ur.unanswered = f
      /\ ur.lastSeq = tr.lastSeq /\ ur.state = tr.state
      /\ ur.replaying = tr.replaying /\ ur.settle = tr.settle
  BY <1>5 DEF Trackeds
<1>7. QED
  BY <1>4, <1>6 DEF ur, after

\* What a batch makes of the entries: some are gone, the parked turn may be
\* new, and when the log was read to its end a start may be noted.
LEMMA HandledTypes ==
  ASSUME NEW tr \in Trackeds, NEW events, NEW a \in AnsweredPolls
  PROVE  LET read == AfterEvents(tr, events, a.upto)
             stated == WithState(read, a.state)
             ur == Handled(tr, events, a) IN
         /\ read \in Trackeds /\ stated \in Trackeds
         /\ stated.unanswered = read.unanswered /\ stated.settle = tr.settle
         /\ ur \in Trackeds
         /\ ur.lastSeq = Max({tr.lastSeq, a.upto}) /\ ur.settle = tr.settle
         /\ ur.replaying => tr.replaying /\ ~Releases(read, a.state) /\ a.more
         /\ a.more => ur.unanswered = read.unanswered
         /\ ~a.more => \A e \in Entries : ur.unanswered[e] =
              IF a.state \notin Asleep THEN Taken(e, read.unanswered[e])
              ELSE IF MayResume(stated, a.state) /\ e \in Due(read) THEN Tried(read.unanswered[e])
              ELSE read.unanswered[e]
<1> DEFINE read == AfterEvents(tr, events, a.upto)
           stated == WithState(read, a.state)
           over == [stated EXCEPT !.replaying = FALSE]
           ur == Handled(tr, events, a)
<1>0. a.upto \in Nat /\ a.state \in States /\ a.more \in BOOLEAN
  BY DEF AnsweredPolls
<1>1. /\ read \in Trackeds /\ read.lastSeq = Max({tr.lastSeq, a.upto})
      /\ read.replaying = tr.replaying /\ read.settle = tr.settle
  BY <1>0, AfterEventsTypes
<1> HIDE DEF read
<1>2. /\ stated \in Trackeds /\ stated.unanswered = read.unanswered
      /\ stated.lastSeq = read.lastSeq /\ stated.settle = read.settle
      /\ (stated.replaying <=> read.replaying /\ ~Releases(read, a.state))
  BY <1>0, <1>1, WithStateTypes
<1> HIDE DEF stated
<1>3. CASE a.more
  <2>1. ur = stated
    BY <1>3 DEF Handled, stated, read
  <2> HIDE DEF ur
  <2>2. QED
    BY <1>0, <1>1, <1>2, <1>3, <2>1 DEF read, stated, ur
<1>4. CASE ~a.more
  <2>1. ur = AfterAutoResume(over, a.state)
    BY <1>4 DEF Handled, stated, read
  <2>2. /\ over \in Trackeds /\ over.unanswered = stated.unanswered
        /\ over.lastSeq = stated.lastSeq /\ over.settle = stated.settle /\ over.replaying = FALSE
    BY <1>2 DEF Trackeds
  <2> HIDE DEF over
  <2>3. /\ Due(over) = Due(read)
        /\ (MayResume(over, a.state) <=> MayResume(stated, a.state))
    BY <1>0, <1>1, <1>2, <2>2, SameEntries
  <2>4. /\ ur \in Trackeds
        /\ ur.lastSeq = over.lastSeq /\ ur.replaying = over.replaying /\ ur.settle = over.settle
        /\ \A e \in Entries : ur.unanswered[e] =
              IF a.state \notin Asleep THEN Taken(e, over.unanswered[e])
              ELSE IF MayResume(over, a.state) /\ e \in Due(over) THEN Tried(over.unanswered[e])
              ELSE over.unanswered[e]
    BY <1>0, <2>1, <2>2, AutoResumed
  <2> HIDE DEF ur
  <2>5. ~ur.replaying
    BY <2>2, <2>4
  <2>6. \A e \in Entries : ur.unanswered[e] =
              IF a.state \notin Asleep THEN Taken(e, read.unanswered[e])
              ELSE IF MayResume(stated, a.state) /\ e \in Due(read) THEN Tried(read.unanswered[e])
              ELSE read.unanswered[e]
    BY <1>2, <2>2, <2>3, <2>4
  <2>7. QED
    BY <1>1, <1>2, <1>4, <2>2, <2>4, <2>5, <2>6 DEF read, stated, ur
<1>5. QED
  BY <1>0, <1>3, <1>4

-----------------------------------------------------------------------------
(* Types are kept.                                                         *)

LEMMA TypesInit ==
  Init => TypeInv
<1> SUFFICES ASSUME Init PROVE TypeInv
  OBVIOUS
<1>1. reported \in States /\ task \in {"none", "booting", "up", "parking", "stopping"}
  BY DEF Init, Asleep, States
<1>2. log \in Seq(Messages \cup {AuthRequired, Earlier}) /\ Len(log) = 1
  BY DEF Init
<1>3. call \in [Calls -> CallStates]
  BY DEF Init, CallStates
<1>4. t \in Trackeds /\ t.lastSeq = 0
  <2>1. [e \in Entries |-> NoEntry] \in [Entries -> Entry]
    BY EntryKinds
  <2>2. 0 \in 0..MaxParkedRestarts /\ 0 \in 0..Gap /\ 0 \in 0..Settle
    BY SessionAssumption
  <2>3. QED
    BY <2>1, <2>2 DEF Init, Trackeds
<1>5. /\ watch = NoWatch /\ poll = NoPoll /\ startedFor = {} /\ inbox = {} /\ ended = {}
      /\ viewing = FALSE /\ timer = "off" /\ again = FALSE /\ polled = FALSE
      /\ missed = FALSE /\ crossed = FALSE /\ behind = FALSE /\ refused = FALSE
  BY DEF Init
<1>6. Types
  BY <1>1, <1>2, <1>3, <1>4, <1>5 DEF Types
<1>7. ReadFromLog
  BY <1>2, <1>4, <1>5, WatchKinds DEF ReadFromLog
<1>8. QED
  BY <1>5, <1>6, <1>7 DEF TypeInv, StartedByAuto

LEMMA LongerLog ==
  ASSUME Types, NEW e \in Messages \cup {AuthRequired, Earlier}
  PROVE  /\ Append(log, e) \in Seq(Messages \cup {AuthRequired, Earlier})
         /\ Len(Append(log, e)) = Len(log) + 1 /\ Len(log) \in Nat
BY DEF Types

LEMMA TypesHarness ==
  TypeInv /\ HarnessStep => TypeInv'
<1> SUFFICES ASSUME TypeInv, HarnessStep PROVE TypeInv'
  OBVIOUS
<1>0. UNCHANGED <<call, viewing, poller, t, startedFor, acts, failures, history>>
  BY DEF HarnessStep
<1>1. /\ reported' \in States /\ task' \in {"none", "booting", "up", "parking", "stopping"}
      /\ inbox' \subseteq Messages /\ log' \in Seq(Messages \cup {AuthRequired, Earlier})
      /\ Len(log') >= Len(log)
  <2>1. CASE ChainEnds
    <3>1. log' = Append(log, AuthRequired)
      BY <2>1 DEF ChainEnds
    <3>2. QED
      BY <2>1, <3>1, LongerLog DEF ChainEnds, TypeInv, Types
  <2>2. CASE Boot \/ FinishTurn \/ Park \/ GoToSleep \/ TaskEnds
    BY <2>2 DEF Boot, FinishTurn, Park, GoToSleep, TaskEnds, TypeInv, Types, States
  <2>3. ASSUME NEW m \in Messages, PickUp(m)
        PROVE  /\ reported' \in States /\ task' \in {"none", "booting", "up", "parking", "stopping"}
               /\ inbox' \subseteq Messages /\ log' \in Seq(Messages \cup {AuthRequired, Earlier})
               /\ Len(log') >= Len(log)
    <3>1. log' = Append(log, m)
      BY <2>3 DEF PickUp
    <3>2. QED
      BY <2>3, <3>1, LongerLog DEF PickUp, TypeInv, Types, States
  <2>4. QED
    BY <2>1, <2>2, <2>3 DEF HarnessStep
<1>2. ReadFromLog'
  <2>1. Len(log) \in Nat /\ Len(log') \in Nat
    BY <1>1 DEF TypeInv, Types
  <2> DEFINE n == Len(log)
             m == Len(log')
  <2>2. /\ watch.watched => watch.cursor <= n
        /\ poll.step # "none" => poll.from <= n
        /\ poll.step = "answered" => poll.from <= poll.upto /\ poll.upto <= n
        /\ t.lastSeq <= n
    BY DEF TypeInv, ReadFromLog
  <2>3. /\ watch.watched => watch.cursor \in Nat
        /\ poll.step # "none" => poll.from \in Nat
        /\ poll.step = "answered" => poll.upto \in Nat
        /\ t.lastSeq \in Nat
    BY WatchKinds DEF TypeInv, Types, Watches, Asked, AnsweredPolls, Trackeds
  <2>4. n \in Nat /\ m \in Nat /\ n <= m
    BY <1>1, <2>1
  <2> HIDE DEF n, m
  <2>5. /\ watch.watched => watch.cursor <= m
        /\ poll.step # "none" => poll.from <= m
        /\ poll.step = "answered" => poll.from <= poll.upto /\ poll.upto <= m
        /\ t.lastSeq <= m
    BY <2>2, <2>3, <2>4
  <2>6. QED
    BY <1>0, <2>5 DEF ReadFromLog, m, poller
<1>3. QED
  BY <1>0, <1>1, <1>2 DEF TypeInv, Types, StartedByAuto, poller, history

LEMMA TypesServe ==
  ASSUME NEW c \in Calls
  PROVE  TypeInv /\ Serve(c) => TypeInv'
<1> SUFFICES ASSUME TypeInv, Serve(c) PROVE TypeInv'
  OBVIOUS
<1>1. UNCHANGED <<log, viewing, poller, t, startedFor, acts, chainEnds, history>>
  BY DEF Serve
<1>2. /\ reported' \in States /\ task' \in {"none", "booting", "up", "parking", "stopping"}
      /\ inbox' \subseteq Messages
  BY DEF Serve, ServeStart, ServeStop, ServePost, ServeOther, TypeInv, Types, States, Posts
<1>3. call' \in [Calls -> CallStates] /\ (call[AutoStart] # "none" => call'[AutoStart] # "none")
  BY <1>2, CallKinds DEF Serve, TypeInv, Types, CallStates, States
<1>4. QED
  BY <1>1, <1>2, <1>3 DEF TypeInv, Types, ReadFromLog, StartedByAuto, poller, history

LEMMA TypesRequests ==
  ASSUME NEW c \in Calls
  PROVE  TypeInv /\ (Refuse(c) \/ KeyMinted(c) \/ CommandFails(c)) => TypeInv'
<1> SUFFICES ASSUME TypeInv, Refuse(c) \/ KeyMinted(c) \/ CommandFails(c) PROVE TypeInv'
  OBVIOUS
<1>1. UNCHANGED <<service, viewing, poller, t, startedFor, acts, chainEnds, history>>
  BY DEF Refuse, KeyMinted, CommandFails, bounds
<1>2. call' \in [Calls -> CallStates] /\ (call[AutoStart] # "none" => call'[AutoStart] # "none")
  BY CallKinds DEF Refuse, KeyMinted, CommandFails, TypeInv, Types, CallStates
<1>3. QED
  BY <1>1, <1>2 DEF TypeInv, Types, ReadFromLog, StartedByAuto, service, poller, history

LEMMA TypesPollBegin ==
  TypeInv /\ PollBegin => TypeInv'
<1> SUFFICES ASSUME TypeInv, PollBegin PROVE TypeInv'
  OBVIOUS
<1>1. UNCHANGED <<service, call, viewing, watch, t, startedFor, bounds, history>>
  BY DEF PollBegin
<1>2. CASE Polls(watch)
  <2>1. watch.watched /\ watch.gen \in Nat /\ watch.cursor \in Nat /\ watch.cursor <= Len(log)
    BY <1>2, WatchKinds DEF Polls, TypeInv, Types, Watches, ReadFromLog
  <2>2. poll' = [step |-> "asked", gen |-> watch.gen, from |-> watch.cursor]
    BY <1>2 DEF PollBegin
  <2>3. poll' \in Asked /\ poll'.from <= Len(log)
    BY <2>1, <2>2 DEF Asked
  <2>4. QED
    BY <1>1, <1>2, <2>3, WatchKinds, ZenonT(40)
    DEF PollBegin, TypeInv, Types, ReadFromLog, StartedByAuto, service, history
<1>3. CASE ~Polls(watch)
  BY <1>1, <1>3, ZenonT(40) DEF PollBegin, TypeInv, Types, ReadFromLog, StartedByAuto, service, history
<1>4. QED
  BY <1>2, <1>3

LEMMA TypesServePoll ==
  TypeInv /\ ServePoll => TypeInv'
<1> SUFFICES ASSUME TypeInv, ServePoll PROVE TypeInv'
  OBVIOUS
<1>1. poll \in Asked /\ poll.gen \in Nat /\ poll.from \in Nat /\ Len(log) \in Nat /\ reported \in States
  BY WatchKinds DEF ServePoll, TypeInv, Types, Asked
<1>2. PICK upto \in poll.from..Len(log) :
        poll' = [step |-> "answered", gen |-> poll.gen, from |-> poll.from,
                 upto |-> upto, state |-> reported, more |-> upto < Len(log)]
  BY DEF ServePoll
<1>3. poll' \in AnsweredPolls /\ poll'.from <= poll'.upto /\ poll'.upto <= Len(log) /\ poll'.from <= Len(log)
  BY <1>1, <1>2 DEF AnsweredPolls
<1>4. QED
  BY <1>3 DEF ServePoll, TypeInv, Types, ReadFromLog, StartedByAuto, service, history

LEMMA TypesPollFails ==
  TypeInv /\ PollFails => TypeInv'
BY WatchKinds DEF PollFails, TypeInv, Types, ReadFromLog, StartedByAuto, service

\* After a command the session is watched, for the whole grace period, from
\* where it was read to; or anew.
LEMMA PokeFacts ==
  ASSUME Types, NEW tr \in Trackeds, NEW s \in States, StateAndPoke(tr, s)
  PROVE  /\ watch' \in Watches /\ watch'.grace = Grace
         /\ watch'.state = s /\ watch'.cursor \in Nat
         /\ \/ watch.watched /\ watch'.cursor = watch.cursor /\ watch'.gen = watch.gen /\ crossed' = crossed
            \/ watch'.cursor = 0 /\ (crossed' = (crossed \/ poll # NoPoll))
         /\ refused' = FALSE /\ crossed' \in BOOLEAN
         /\ timer' = (IF poll = NoPoll THEN "now" ELSE timer)
         /\ again' = (again \/ poll # NoPoll)
<1> DEFINE kept == IF Releases(tr, s) THEN NoWatch ELSE watch
           from == IF kept.watched THEN kept.cursor ELSE 0
<1>1. kept \in {NoWatch} \cup Watches
  BY DEF Types
<1>2. /\ watch' = Rewatched(kept, from, s)
      /\ crossed' = (crossed \/ (~kept.watched /\ poll # NoPoll))
      /\ refused' = FALSE
      /\ timer' = (IF poll = NoPoll THEN "now" ELSE timer)
      /\ again' = (again \/ poll # NoPoll)
  BY DEF StateAndPoke, Poked, ScheduleNow
<1>3. kept.watched => kept = watch /\ watch \in Watches
  BY <1>1, WatchKinds
<1>4. crossed \in BOOLEAN
  BY DEF Types
<1> HIDE DEF kept
<1>5. from \in Nat
  BY <1>1, WatchKinds DEF Watches
<1>6. /\ watch' \in Watches
      /\ watch'.cursor = from /\ watch'.grace = Grace
      /\ watch'.state = s
      /\ watch'.gen = IF kept.watched THEN kept.gen ELSE 0
  <2> HIDE DEF from
  <2>1. watch' = Rewatched(kept, from, s)
    BY <1>2
  <2>2. /\ Rewatched(kept, from, s) \in Watches
        /\ Rewatched(kept, from, s).cursor = from /\ Rewatched(kept, from, s).grace = Grace
        /\ Rewatched(kept, from, s).state = s
        /\ Rewatched(kept, from, s).gen = IF kept.watched THEN kept.gen ELSE 0
    BY <1>1, <1>5, PokedWatch
  <2>3. QED
    BY <2>1, <2>2
<1>7. CASE kept.watched
  BY <1>2, <1>3, <1>4, <1>5, <1>6, <1>7
<1>8. CASE ~kept.watched
  <2>1. crossed' = (crossed \/ poll # NoPoll)
    BY <1>2, <1>8
  <2>2. QED
    BY <1>2, <1>4, <1>5, <1>6, <1>8, <2>1
<1>9. QED
  BY <1>7, <1>8, WatchKinds, <1>1

\* What the answers of commands and of starts have in common.
Pokes(tr, s) ==
  /\ tr \in Trackeds /\ s \in States /\ StateAndPoke(tr, s)
  /\ t' \in Trackeds /\ t'.lastSeq = t.lastSeq
  /\ \A e \in Entries : /\ t'.unanswered[e].waits = t.unanswered[e].waits
                        /\ t'.unanswered[e].wait = t.unanswered[e].wait
  /\ call' \in [Calls -> CallStates] /\ startedFor' \subseteq startedFor
  /\ startedFor' # {} => call'[AutoStart] # "none"
  /\ \A c \in Starts : Begins(c) => Wanted(c)
  /\ UNCHANGED <<service, viewing, poll, polled, bounds, ended, told, missed, behind>>

\* A command that finds the session asleep begins the one start that is its own.
LEMMA StartsOnAnswers ==
  ASSUME TypeInv, NEW d \in Posts \cup Aborts, Answered(d),
         StartIfAsleep(call[d], <<"start", d>>, [call EXCEPT ![d] = "none"])
  PROVE  \A c \in Starts : Begins(c) => Wanted(c)
<1> DEFINE mine == <<"start", d>>
           calls == [call EXCEPT ![d] = "none"]
<1>1. mine \in Starts /\ d \in Calls /\ d \notin Starts /\ call \in [Calls -> CallStates]
  BY CallKinds DEF TypeInv, Types
<1>2. \A c \in Starts : calls[c] = call[c]
  BY <1>1, CallKinds
<1>3. call' = IF call[d] \in Asleep THEN [calls EXCEPT ![mine] = "minting"] ELSE calls
  BY DEF StartIfAsleep
<1>4. \A c \in Starts \ {mine} : call'[c] = call[c]
  BY <1>1, <1>2, <1>3, CallKinds
<1>5. call[d] \notin Asleep => call'[mine] = call[mine]
  BY <1>1, <1>2, <1>3
<1> HIDE DEF calls
<1>6. QED
  BY <1>4, <1>5 DEF Begins, Wanted

LEMMA TypesPoke ==
  ASSUME TypeInv, NEW tr, NEW s, Pokes(tr, s)
  PROVE  TypeInv'
<1>1. /\ watch' \in Watches /\ refused' = FALSE /\ crossed' \in BOOLEAN
      /\ timer' = (IF poll = NoPoll THEN "now" ELSE timer)
      /\ again' = (again \/ poll # NoPoll)
      /\ watch'.cursor = 0 \/ (watch.watched /\ watch'.cursor = watch.cursor)
  BY PokeFacts DEF TypeInv, Pokes
<1>2. timer' \in {"off", "now", "later"} /\ again' \in BOOLEAN
  BY <1>1 DEF TypeInv, Types
<1>3. watch'.cursor <= Len(log)
  <2>1. Len(log) \in Nat
    BY DEF TypeInv, Types
  <2>2. QED
    BY <1>1, <2>1 DEF TypeInv, ReadFromLog
<1>4. Types'
  BY <1>1, <1>2 DEF TypeInv, Types, service, Pokes
<1>5. ReadFromLog'
  BY <1>3 DEF TypeInv, ReadFromLog, service, Pokes
<1>6. QED
  BY <1>4, <1>5 DEF TypeInv, StartedByAuto, Pokes

LEMMA AnsweredCall ==
  ASSUME Types, NEW c \in Calls, Answered(c)
  PROVE  call[c] \in States /\ call[c] # "none"
BY DEF Types, Answered, States

LEMMA SentEntry ==
  ASSUME Types, NEW m \in Messages
  PROVE  LET sent == IF t.unanswered[m].waits
                     THEN WithEntry(t, m, [t.unanswered[m] EXCEPT !.sent = TRUE]) ELSE t IN
         /\ sent \in Trackeds
         /\ sent.lastSeq = t.lastSeq /\ sent.settle = t.settle
         /\ sent.state = t.state /\ sent.replaying = t.replaying
         /\ \A e \in Entries :
              /\ sent.unanswered[e].waits = t.unanswered[e].waits
              /\ sent.unanswered[e].wait = t.unanswered[e].wait
<1> DEFINE entry == [t.unanswered[m] EXCEPT !.sent = TRUE]
           sent == IF t.unanswered[m].waits THEN WithEntry(t, m, entry) ELSE t
<1>1. t \in Trackeds /\ m \in Entries /\ t.unanswered[m] \in Entry
  BY DEF Types, Trackeds, Entries
<1>2. CASE t.unanswered[m].waits
  <2>1. t.unanswered[m] \in Entered
    BY <1>1, <1>2, EntryKinds
  <2> DEFINE old == t.unanswered[m]
  <2>2. entry \in Entered /\ entry.waits = TRUE /\ entry.wait = old.wait
    <3>1. old \in Entered
      BY <2>1
    <3>2. entry = [old EXCEPT !.sent = TRUE]
      OBVIOUS
    <3> HIDE DEF old, entry
    <3>3. QED
      BY <3>1, <3>2 DEF Entered
  <2>3. entry \in Entry
    BY <2>2, EntryKinds
  <2>4. t.unanswered[m].waits = TRUE
    BY <2>1 DEF Entered
  <2>5. sent = WithEntry(t, m, entry)
    BY <1>2
  <2> HIDE DEF entry, sent
  <2>6. /\ sent \in Trackeds /\ sent = [t EXCEPT !.unanswered = sent.unanswered]
        /\ \A e \in Entries : sent.unanswered[e] = IF e = m THEN entry ELSE t.unanswered[e]
    <3>1. /\ WithEntry(t, m, entry) \in Trackeds
          /\ WithEntry(t, m, entry) = [t EXCEPT !.unanswered = WithEntry(t, m, entry).unanswered]
          /\ \A e \in Entries : WithEntry(t, m, entry).unanswered[e] =
               IF e = m THEN entry ELSE t.unanswered[e]
      BY <1>1, <2>3, WithEntryTypes
    <3>2. QED
      BY <2>5, <3>1
  <2>7. /\ sent.lastSeq = t.lastSeq /\ sent.settle = t.settle
        /\ sent.state = t.state /\ sent.replaying = t.replaying
    BY <1>1, <2>6 DEF Trackeds
  <2>8. QED
    BY <2>2, <2>4, <2>6, <2>7 DEF sent, entry
<1>3. CASE ~t.unanswered[m].waits
  BY <1>1, <1>3
<1>4. QED
  BY <1>2, <1>3

LEMMA PostReturnsPokes ==
  ASSUME TypeInv, NEW m \in Messages, PostReturns(m)
  PROVE  \E tr, s : Pokes(tr, s)
<1> DEFINE c == <<"post", m>>
           s == call[c]
           tr == IF t.unanswered[m].waits
                 THEN WithEntry(t, m, [t.unanswered[m] EXCEPT !.sent = TRUE]) ELSE t
<1>1. c \in Posts /\ c \in Calls /\ <<"start", c>> \in Calls
  BY CallKinds
<1>2. s \in States
  BY <1>1, AnsweredCall DEF PostReturns, TypeInv
<1>3. /\ tr \in Trackeds
      /\ tr.lastSeq = t.lastSeq
      /\ \A e \in Entries : /\ tr.unanswered[e].waits = t.unanswered[e].waits
                            /\ tr.unanswered[e].wait = t.unanswered[e].wait
  BY SentEntry DEF TypeInv
<1>4. t' = WithState(tr, s) /\ StateAndPoke(tr, s)
  BY DEF PostReturns
<1>5. call' \in [Calls -> CallStates]
  BY <1>1 DEF PostReturns, StartIfAsleep, TypeInv, Types, CallStates
<1>6. startedFor' = startedFor /\ (startedFor # {} => call'[AutoStart] # "none")
  <2>1. AutoStart # c
    BY <1>1, CallKinds
  <2>2. call[AutoStart] # "none" => call'[AutoStart] # "none"
    BY <1>1, <2>1, CallKinds DEF PostReturns, StartIfAsleep, TypeInv, Types
  <2>3. QED
    BY <2>2 DEF TypeInv, StartedByAuto, PostReturns
<1> HIDE DEF tr, s
<1>7. /\ t' \in Trackeds /\ t'.lastSeq = tr.lastSeq /\ t'.unanswered = tr.unanswered
  BY <1>2, <1>3, <1>4, WithStateTypes
<1>8. \A b \in Starts : Begins(b) => Wanted(b)
  BY <1>1, StartsOnAnswers DEF PostReturns, s
<1>9. Pokes(tr, s)
  BY <1>2, <1>3, <1>4, <1>5, <1>6, <1>7, <1>8 DEF Pokes, PostReturns
<1>10. QED
  BY <1>9

LEMMA AbortReturnsPokes ==
  ASSUME TypeInv, NEW m \in Messages, AbortReturns(m)
  PROVE  \E tr, s : Pokes(tr, s)
<1> DEFINE c == <<"abort", m>>
           s == call[c]
<1>1. c \in Aborts /\ c \in Calls /\ <<"start", c>> \in Calls
  BY CallKinds
<1>2. s \in States /\ t \in Trackeds
  BY <1>1, AnsweredCall DEF AbortReturns, TypeInv, Types
<1>3. t' = WithState(t, s) /\ StateAndPoke(t, s)
  BY DEF AbortReturns
<1>4. call' \in [Calls -> CallStates]
  BY <1>1 DEF AbortReturns, StartIfAsleep, TypeInv, Types, CallStates
<1>5. startedFor' = startedFor /\ (startedFor # {} => call'[AutoStart] # "none")
  <2>1. AutoStart # c
    BY <1>1, CallKinds
  <2>2. call[AutoStart] # "none" => call'[AutoStart] # "none"
    BY <1>1, <2>1, CallKinds DEF AbortReturns, StartIfAsleep, TypeInv, Types
  <2>3. QED
    BY <2>2 DEF TypeInv, StartedByAuto, AbortReturns
<1> HIDE DEF s
<1>6. /\ t' \in Trackeds /\ t'.lastSeq = t.lastSeq /\ t'.unanswered = t.unanswered
  BY <1>2, <1>3, WithStateTypes
<1>7. \A b \in Starts : Begins(b) => Wanted(b)
  BY <1>1, StartsOnAnswers DEF AbortReturns, s
<1>8. Pokes(t, s)
  BY <1>2, <1>3, <1>4, <1>5, <1>6, <1>7 DEF Pokes, AbortReturns
<1>9. QED
  BY <1>8

LEMMA StopReturnsPokes ==
  ASSUME TypeInv, StopReturns
  PROVE  \E tr, s : Pokes(tr, s)
<1> DEFINE s == call[<<"stop">>]
<1>1. s \in States /\ t \in Trackeds
  BY CallKinds, AnsweredCall DEF StopReturns, TypeInv, Types
<1>2. t' = WithState(t, s) /\ StateAndPoke(t, s)
  BY DEF StopReturns
<1>3. call' \in [Calls -> CallStates]
  BY CallKinds DEF StopReturns, TypeInv, Types, CallStates
<1>4. startedFor' = startedFor /\ (startedFor # {} => call'[AutoStart] # "none")
  BY CallKinds DEF StopReturns, TypeInv, Types, StartedByAuto
<1> HIDE DEF s
<1>5. /\ t' \in Trackeds /\ t'.lastSeq = t.lastSeq /\ t'.unanswered = t.unanswered
  BY <1>1, <1>2, WithStateTypes
<1>6. \A b \in Starts : Begins(b) => Wanted(b)
  BY CallKinds DEF StopReturns, TypeInv, Types, Begins
<1>7. Pokes(t, s)
  BY <1>1, <1>2, <1>3, <1>4, <1>5, <1>6 DEF Pokes, StopReturns
<1>8. QED
  BY <1>7

LEMMA StartReturnsPokes ==
  ASSUME TypeInv, NEW c \in Calls, StartReturns(c)
  PROVE  \E tr, s : Pokes(tr, s)
<1> DEFINE s == call[c]
           ur == WithState(t, s)
<1>1. s \in States /\ t \in Trackeds /\ c \in Starts
  BY AnsweredCall DEF StartReturns, TypeInv, Types
<1>2. t' = [ur EXCEPT !.settle = Settle] /\ StateAndPoke(t, s)
  BY DEF StartReturns
<1>3. call' \in [Calls -> CallStates]
  BY DEF StartReturns, TypeInv, Types, CallStates
<1>4. startedFor' \subseteq startedFor /\ (startedFor' # {} => call'[AutoStart] # "none")
  BY CallKinds DEF StartReturns, TypeInv, Types, StartedByAuto
<1>5. Settle \in 0..Settle
  BY SessionAssumption
<1> HIDE DEF s
<1>6. ur \in Trackeds /\ ur.lastSeq = t.lastSeq /\ ur.unanswered = t.unanswered
  BY <1>1, WithStateTypes
<1> HIDE DEF ur
<1>7. t' \in Trackeds /\ t'.lastSeq = t.lastSeq /\ t'.unanswered = t.unanswered
  BY <1>2, <1>5, <1>6 DEF Trackeds
<1>8. UNCHANGED <<service, viewing, poll, polled, bounds, ended, told, missed, behind>>
  BY DEF StartReturns
<1>9. \A b \in Starts : Begins(b) => Wanted(b)
  BY CallKinds DEF StartReturns, TypeInv, Types, Begins
<1>10. Pokes(t, s)
  BY <1>1, <1>2, <1>3, <1>4, <1>7, <1>8, <1>9 DEF Pokes
<1>11. QED
  BY <1>10

\* What sending, aborting, stopping and a failed post have in common.
Drops ==
  /\ t' \in Trackeds /\ t'.lastSeq = t.lastSeq /\ t'.settle = t.settle
  /\ t'.replaying = t.replaying
  /\ \A e \in Entries : \/ t'.unanswered[e] \in {t.unanswered[e], NoEntry}
                        \/ viewing /\ e \notin ended /\ t'.unanswered[e] = NewEntry(FALSE)
  /\ \A m \in ended' : m \in ended \/ t'.unanswered[m] = NoEntry
  /\ call' \in [Calls -> CallStates] /\ \A c \in Starts : call'[c] = call[c]
  /\ ended' \subseteq Messages
  /\ UNCHANGED <<service, viewing, poller, startedFor, missed, crossed, behind, refused>>

LEMMA TypesDrops ==
  TypeInv /\ Drops => TypeInv'
BY CallKinds DEF Drops, TypeInv, Types, ReadFromLog, StartedByAuto, service, poller

LEMMA WithoutDrops ==
  ASSUME Types, NEW gone, t' = Without(t, gone)
  PROVE  /\ t' \in Trackeds /\ t'.lastSeq = t.lastSeq /\ t'.settle = t.settle
         /\ t'.replaying = t.replaying
         /\ \A e \in Entries : t'.unanswered[e] = IF e \in gone THEN NoEntry ELSE t.unanswered[e]
<1>1. t \in Trackeds
  BY DEF Types
<1> DEFINE ur == Without(t, gone)
<1>2. /\ ur \in Trackeds /\ ur = [t EXCEPT !.unanswered = ur.unanswered]
      /\ \A e \in Entries : ur.unanswered[e] = IF e \in gone THEN NoEntry ELSE t.unanswered[e]
  BY <1>1, WithoutTypes
<1>3. t' = ur
  OBVIOUS
<1> HIDE DEF ur
<1>4. ur.lastSeq = t.lastSeq /\ ur.settle = t.settle /\ ur.replaying = t.replaying
  BY <1>1, <1>2 DEF Trackeds
<1>5. QED
  BY <1>2, <1>3, <1>4

LEMMA SendDrops ==
  ASSUME TypeInv, NEW m \in Messages, Send(m)
  PROVE  Drops
<1> DEFINE entry == NewEntry(FALSE)
           ur == WithEntry(t, m, entry)
           c == <<"post", m>>
<1>1. t \in Trackeds /\ m \in Entries /\ entry \in Entry
  BY EntryKinds DEF TypeInv, Types, Entries
<1>2. t' = [ur EXCEPT !.parkedRestarts = 0]
  BY DEF Send
<1> HIDE DEF entry
<1>3. /\ ur \in Trackeds /\ ur = [t EXCEPT !.unanswered = ur.unanswered]
      /\ \A e \in Entries : ur.unanswered[e] = IF e = m THEN entry ELSE t.unanswered[e]
  BY <1>1, WithEntryTypes
<1> HIDE DEF ur
<1>4. ur.lastSeq = t.lastSeq /\ ur.settle = t.settle /\ ur.replaying = t.replaying
  BY <1>1, <1>3 DEF Trackeds
<1>5. 0 \in 0..MaxParkedRestarts
  BY SessionAssumption
<1>6. /\ t' \in Trackeds /\ t'.lastSeq = ur.lastSeq /\ t'.settle = ur.settle
      /\ t'.replaying = ur.replaying /\ t'.unanswered = ur.unanswered
  BY <1>2, <1>3, <1>5 DEF Trackeds
<1>7. call' \in [Calls -> CallStates] /\ \A a \in Starts : call'[a] = call[a]
  BY CallKinds DEF Send, TypeInv, Types, CallStates
<1>8. \A e \in Entries : \/ t'.unanswered[e] \in {t.unanswered[e], NoEntry}
                         \/ viewing /\ e \notin ended /\ t'.unanswered[e] = NewEntry(FALSE)
  BY <1>3, <1>6 DEF entry, Send
<1>9. /\ ended' = ended /\ ended \subseteq Messages
      /\ UNCHANGED <<service, viewing, poller, startedFor, missed, crossed, behind, refused>>
  BY DEF Send, TypeInv, Types
<1>10. QED
  BY <1>3, <1>4, <1>6, <1>7, <1>8, <1>9 DEF Drops

LEMMA PostFailsDrops ==
  ASSUME TypeInv, NEW m \in Messages, PostFails(m)
  PROVE  Drops
<1>1. call' \in [Calls -> CallStates] /\ \A a \in Starts : call'[a] = call[a]
  BY CallKinds DEF PostFails, TypeInv, Types, CallStates
<1>2. t' = Without(t, {m})
  BY DEF PostFails
<1>3. QED
  BY <1>1, <1>2, WithoutDrops DEF PostFails, Drops, TypeInv, Types

LEMMA AbortDrops ==
  ASSUME TypeInv, NEW m \in Messages, Abort(m)
  PROVE  Drops
<1>1. call' \in [Calls -> CallStates] /\ \A a \in Starts : call'[a] = call[a]
  BY CallKinds DEF Abort, TypeInv, Types, CallStates
<1>2. t' = Without(t, {m})
  BY DEF Abort
<1>3. QED
  BY <1>1, <1>2, WithoutDrops DEF Abort, Drops, TypeInv, Types, Entries

LEMMA StopDrops ==
  ASSUME TypeInv, Stop
  PROVE  Drops
<1>1. call' \in [Calls -> CallStates] /\ \A a \in Starts : call'[a] = call[a]
  BY CallKinds DEF Stop, TypeInv, Types, CallStates
<1>2. t' = Without(t, Entries)
  BY DEF Stop
<1>3. QED
  BY <1>1, <1>2, WithoutDrops DEF Stop, Drops, TypeInv, Types, Entries

\* What leaving a session and listing have in common: it may be let go.
Leaves ==
  /\ t' \in Trackeds /\ t'.lastSeq = t.lastSeq /\ t'.settle = t.settle
  /\ t'.unanswered = t.unanswered
  /\ viewing' \in BOOLEAN /\ (viewing' => viewing)
  /\ \/ watch' = watch /\ (t'.replaying => t.replaying)
     \/ watch' = NoWatch /\ ~t'.replaying /\ ~viewing' /\ ~Resuming /\ Open(t) = {}
  /\ call' \in [Calls -> CallStates] /\ \A c \in Starts : call'[c] = call[c]
  /\ UNCHANGED <<service, poll, timer, again, polled, startedFor, history>>

LEMMA TypesLeaves ==
  TypeInv /\ Leaves => TypeInv'
BY WatchKinds, CallKinds
DEF Leaves, TypeInv, Types, ReadFromLog, StartedByAuto, service, history

LEMMA LeaveLeaves ==
  TypeInv /\ Leave => Leaves
<1> SUFFICES ASSUME TypeInv, Leave PROVE Leaves
  OBVIOUS
<1>1. t \in Trackeds /\ t.replaying \in BOOLEAN
  BY DEF TypeInv, Types, Trackeds
<1> DEFINE r == t.replaying /\ ~LetsGo(t, FALSE)
<1>2. t' = [t EXCEPT !.replaying = r] /\ r \in BOOLEAN
  BY <1>1 DEF Leave
<1>3. watch' = IF LetsGo(t, FALSE) THEN NoWatch ELSE watch
  BY DEF Leave
<1>4. LetsGo(t, FALSE) => ~Resuming /\ Open(t) = {} /\ ~r
  BY DEF LetsGo
<1>5. r => t.replaying
  OBVIOUS
<1> HIDE DEF r
<1>6. /\ t' \in Trackeds /\ t'.lastSeq = t.lastSeq /\ t'.settle = t.settle
      /\ t'.unanswered = t.unanswered /\ t'.replaying = r
  BY <1>1, <1>2 DEF Trackeds
<1>7. QED
  BY <1>3, <1>4, <1>5, <1>6 DEF Leave, Leaves, TypeInv, Types

LEMMA ListLeaves ==
  TypeInv /\ ListReturns => Leaves
<1> SUFFICES ASSUME TypeInv, ListReturns PROVE Leaves
  OBVIOUS
<1> DEFINE s == call[<<"list">>]
           ur == [t EXCEPT !.state = s]
<1>1. t \in Trackeds /\ s \in States /\ viewing \in BOOLEAN
  BY CallKinds, AnsweredCall DEF ListReturns, TypeInv, Types
<1>2. call' \in [Calls -> CallStates] /\ \A c \in Starts : call'[c] = call[c]
  BY CallKinds DEF ListReturns, TypeInv, Types, CallStates
<1>3. UNCHANGED <<service, viewing, poll, timer, again, polled, startedFor, history>>
  BY DEF ListReturns
<1>4. \/ t' = WithState(t, s) /\ watch' = IF Releases(t, s) THEN NoWatch ELSE watch
      \/ t' = t /\ watch' = watch
  BY DEF ListReturns
<1> HIDE DEF s
<1>5. ur \in Trackeds /\ ur.unanswered = t.unanswered
  BY <1>1 DEF Trackeds
<1>6. Releases(t, s) => ~viewing /\ ~Resuming /\ Open(ur) = {}
  BY DEF Releases, LetsGo
<1> HIDE DEF ur
<1>7. Open(ur) = Open(t)
  BY <1>1, <1>5, SameEntries
<1>8. CASE t' = WithState(t, s) /\ watch' = IF Releases(t, s) THEN NoWatch ELSE watch
  <2>1. /\ t' \in Trackeds /\ t'.lastSeq = t.lastSeq /\ t'.settle = t.settle
        /\ t'.unanswered = t.unanswered
        /\ t'.replaying <=> t.replaying /\ ~Releases(t, s)
    BY <1>1, <1>8, WithStateTypes
  <2>2. QED
    BY <1>1, <1>2, <1>3, <1>6, <1>7, <1>8, <2>1 DEF Leaves
<1>9. CASE t' = t /\ watch' = watch
  BY <1>1, <1>2, <1>3, <1>9 DEF Leaves
<1>10. QED
  BY <1>4, <1>8, <1>9

LEMMA DownFacts ==
  ASSUME NEW n \in Nat
  PROVE  /\ Down(n) \in Nat /\ Down(n) <= n /\ (Down(n) > 0 => Down(n) = n - 1)
         /\ n > 0 => Down(n) = n - 1
BY DEF Down

\* A failed start spends the entries it was for.
SpentFor(c) == IF c = AutoStart THEN startedFor ELSE {}

LEMMA StartFailsFacts ==
  ASSUME TypeInv, NEW c \in Calls, StartFails(c)
  PROVE  /\ t' \in Trackeds /\ t'.lastSeq = t.lastSeq /\ t'.settle = Settle
         /\ t'.replaying = t.replaying
         /\ \A e \in Entries :
              \/ t'.unanswered[e] = t.unanswered[e] /\ (e \in SpentFor(c) => ~t.unanswered[e].waits)
              \/ /\ t.unanswered[e] \in Entered /\ t'.unanswered[e] \in Entered
                 /\ t'.unanswered[e].spent /\ t'.unanswered[e].wait = t.unanswered[e].wait
         /\ TypeInv'
<1> DEFINE for == SpentFor(c)
           after(e) == IF e \in for /\ t.unanswered[e].waits
                       THEN [t.unanswered[e] EXCEPT !.spent = TRUE] ELSE t.unanswered[e]
           f == [e \in Entries |-> after(e)]
<1>1. t \in Trackeds /\ \A e \in Entries : t.unanswered[e] \in Entry
  BY DEF TypeInv, Types, Trackeds
<1>2. \A m \in Entered : /\ [m EXCEPT !.spent = TRUE] \in Entered
                         /\ [m EXCEPT !.spent = TRUE].spent = TRUE
                         /\ [m EXCEPT !.spent = TRUE].wait = m.wait
  BY DEF Entered
<1>3. \A e \in Entries :
        /\ after(e) \in Entry
        /\ \/ after(e) = t.unanswered[e] /\ (e \in for => ~t.unanswered[e].waits)
           \/ /\ t.unanswered[e] \in Entered /\ after(e) \in Entered
              /\ after(e).spent /\ after(e).wait = t.unanswered[e].wait
  <2> SUFFICES ASSUME NEW e \in Entries
               PROVE  /\ after(e) \in Entry
                      /\ \/ after(e) = t.unanswered[e] /\ (e \in for => ~t.unanswered[e].waits)
                         \/ /\ t.unanswered[e] \in Entered /\ after(e) \in Entered
                            /\ after(e).spent /\ after(e).wait = t.unanswered[e].wait
    OBVIOUS
  <2> DEFINE m == t.unanswered[e]
  <2>1. m \in Entry
    BY <1>1
  <2>2. CASE e \in for /\ m.waits
    <3>1. m \in Entered
      BY <2>1, <2>2, EntryKinds
    <3>2. after(e) = [m EXCEPT !.spent = TRUE]
      BY <2>2
    <3> HIDE DEF after, m
    <3>3. /\ after(e) \in Entered /\ after(e).spent = TRUE /\ after(e).wait = m.wait
      BY <1>2, <3>1, <3>2
    <3>4. QED
      BY <3>1, <3>3, EntryKinds DEF m
  <2>3. CASE ~(e \in for /\ m.waits)
    BY <2>1, <2>3
  <2>4. QED
    BY <2>2, <2>3
<1>4. t' = [t EXCEPT !.settle = Settle, !.unanswered = f]
  BY DEF StartFails, SpentFor
<1> HIDE DEF after
<1>5. f \in [Entries -> Entry] /\ \A e \in Entries : f[e] = after(e)
  BY <1>3
<1>6. Settle \in 0..Settle
  BY SessionAssumption
<1> HIDE DEF f
<1>7. /\ t' \in Trackeds /\ t'.lastSeq = t.lastSeq /\ t'.settle = Settle
      /\ t'.replaying = t.replaying /\ t'.unanswered = f
  BY <1>1, <1>4, <1>5, <1>6 DEF Trackeds
<1>8. \A e \in Entries :
        \/ t'.unanswered[e] = t.unanswered[e] /\ (e \in for => ~t.unanswered[e].waits)
        \/ /\ t.unanswered[e] \in Entered /\ t'.unanswered[e] \in Entered
           /\ t'.unanswered[e].spent /\ t'.unanswered[e].wait = t.unanswered[e].wait
  BY <1>3, <1>5, <1>7
<1>9. call' \in [Calls -> CallStates]
  BY DEF StartFails, TypeInv, Types, CallStates
<1>10. /\ startedFor' \subseteq startedFor /\ (startedFor' # {} => call'[AutoStart] # "none")
       /\ refused' \in BOOLEAN
       /\ UNCHANGED <<service, viewing, poller, bounds, ended, missed, crossed, behind>>
  <2>1. startedFor' = IF c = AutoStart THEN {} ELSE startedFor
    BY DEF StartFails
  <2>2. c # AutoStart => call'[AutoStart] = call[AutoStart]
    BY DEF StartFails, TypeInv, Types
  <2>3. startedFor' # {} => call'[AutoStart] # "none"
    BY <2>1, <2>2 DEF TypeInv, StartedByAuto
  <2>4. QED
    BY <2>1, <2>3 DEF StartFails, TypeInv, Types
<1>11. Types'
  BY <1>7, <1>9, <1>10 DEF TypeInv, Types, service, poller
<1>12. ReadFromLog' /\ StartedByAuto'
  BY <1>7, <1>10 DEF TypeInv, ReadFromLog, StartedByAuto, service, poller
<1>13. QED
  BY <1>7, <1>8, <1>11, <1>12 DEF TypeInv

LEMMA OpenSessionTypes ==
  TypeInv /\ (OpenSession \/ List) => TypeInv' /\ \A c \in Starts : call'[c] = call[c]
BY CallKinds, SMTT(40) DEF OpenSession, List, TypeInv, Types, ReadFromLog, StartedByAuto, CallStates,
   service, poller, history

LEMMA OpenReturnsFacts ==
  ASSUME TypeInv, OpenReturns
  PROVE  /\ t' \in Trackeds /\ t'.lastSeq = 0 /\ t'.settle = t.settle
         /\ t'.replaying /\ t'.unanswered = t.unanswered
         /\ watch' \in Watches /\ watch'.cursor = 0 /\ watch'.grace = Grace
         /\ watch'.gen = (IF watch.watched THEN watch.gen ELSE 0) + 1
         /\ crossed' = (crossed \/ (~watch.watched /\ poll # NoPoll))
         /\ \A c \in Starts : call'[c] = call[c]
         /\ TypeInv'
<1> DEFINE s == call[<<"open">>]
<1>1. s \in States /\ t \in Trackeds /\ watch \in {NoWatch} \cup Watches
  BY CallKinds, AnsweredCall DEF OpenReturns, TypeInv, Types
<1>2. t' = [t EXCEPT !.state = s, !.replaying = TRUE, !.lastSeq = 0]
  BY DEF OpenReturns
<1>3. watch' = [Rewatched(watch, 0, s) EXCEPT !.gen = @ + 1]
  BY DEF OpenReturns, WatchFromStart
<1>4. call' \in [Calls -> CallStates] /\ \A c \in Starts : call'[c] = call[c]
  BY CallKinds DEF OpenReturns, TypeInv, Types, CallStates
<1> HIDE DEF s
<1>5. /\ t' \in Trackeds /\ t'.lastSeq = 0 /\ t'.settle = t.settle
      /\ t'.replaying = TRUE /\ t'.unanswered = t.unanswered
  BY <1>1, <1>2 DEF Trackeds
<1> DEFINE w == Rewatched(watch, 0, s)
<1>6. /\ w \in Watches /\ w.cursor = 0 /\ w.grace = Grace
      /\ w.gen = IF watch.watched THEN watch.gen ELSE 0
  BY <1>1, PokedWatch
<1>7. watch' = [w EXCEPT !.gen = w.gen + 1]
  BY <1>3
<1> HIDE DEF w
<1>8. /\ watch' \in Watches /\ watch'.cursor = 0 /\ watch'.grace = Grace
      /\ watch'.gen = w.gen + 1
  <2>1. w.gen \in Nat
    BY <1>6 DEF Watches
  <2> DEFINE n == w.gen + 1
  <2>2. n \in Nat
    BY <2>1
  <2>3. watch' = [w EXCEPT !.gen = n]
    BY <1>7
  <2> HIDE DEF n
  <2>4. QED
    BY <1>6, <2>2, <2>3 DEF Watches, n
<1>9. crossed' = (crossed \/ (~watch.watched /\ poll # NoPoll)) /\ crossed' \in BOOLEAN
  BY DEF OpenReturns, TypeInv, Types
<1>10. timer' \in {"off", "now", "later"} /\ again' \in BOOLEAN
  BY DEF OpenReturns, ScheduleNow, TypeInv, Types
<1>11. /\ viewing' = TRUE /\ missed' = FALSE /\ refused' = FALSE
       /\ UNCHANGED <<service, poll, polled, startedFor, bounds, ended, told, behind>>
  BY DEF OpenReturns
<1>12. Types'
  BY <1>4, <1>5, <1>8, <1>9, <1>10, <1>11 DEF TypeInv, Types, service
<1>13. ReadFromLog'
  <2>1. Len(log) \in Nat
    BY DEF TypeInv, Types
  <2>2. QED
    BY <1>5, <1>8, <1>11, <2>1 DEF TypeInv, ReadFromLog, service
<1>14. StartedByAuto'
  BY <1>4, <1>11, CallKinds DEF TypeInv, StartedByAuto
<1>15. QED
  BY <1>4, <1>5, <1>6, <1>8, <1>9, <1>12, <1>13, <1>14 DEF TypeInv

LEMMA TickFacts ==
  ASSUME TypeInv, Tick
  PROVE  /\ t' \in Trackeds /\ t'.lastSeq = t.lastSeq /\ t'.settle = Down(t.settle)
         /\ t'.replaying = t.replaying
         /\ \A e \in Entries :
              \/ t'.unanswered[e] = t.unanswered[e] /\ ~t.unanswered[e].waits
              \/ /\ t.unanswered[e] \in Entered /\ t'.unanswered[e] \in Entered
                 /\ t'.unanswered[e] = [t.unanswered[e] EXCEPT !.wait = Down(t.unanswered[e].wait)]
         /\ \/ ~watch.watched /\ watch' = watch
            \/ /\ watch \in Watches /\ watch' \in Watches
               /\ watch'.cursor = watch.cursor /\ watch'.gen = watch.gen
               /\ watch'.state = watch.state /\ watch'.grace = Down(watch.grace)
         /\ TypeInv'
<1> DEFINE after(e) == Aged(t.unanswered[e])
           f == [e \in Entries |-> after(e)]
<1>1. t \in Trackeds /\ \A e \in Entries : t.unanswered[e] \in Entry
  BY DEF TypeInv, Types, Trackeds
<1>2. \A m \in Entered : [m EXCEPT !.wait = Down(m.wait)] \in Entered
  <2> SUFFICES ASSUME NEW m \in Entered PROVE [m EXCEPT !.wait = Down(m.wait)] \in Entered
    OBVIOUS
  <2>1. Down(m.wait) \in Nat
    BY DownFacts DEF Entered
  <2>2. QED
    BY <2>1 DEF Entered
<1>3. \A e \in Entries :
        /\ after(e) \in Entry
        /\ \/ after(e) = t.unanswered[e] /\ ~t.unanswered[e].waits
           \/ /\ t.unanswered[e] \in Entered /\ after(e) \in Entered
              /\ after(e) = [t.unanswered[e] EXCEPT !.wait = Down(t.unanswered[e].wait)]
  <2> SUFFICES ASSUME NEW e \in Entries
               PROVE  /\ after(e) \in Entry
                      /\ \/ after(e) = t.unanswered[e] /\ ~t.unanswered[e].waits
                         \/ /\ t.unanswered[e] \in Entered /\ after(e) \in Entered
                            /\ after(e) = [t.unanswered[e] EXCEPT !.wait = Down(t.unanswered[e].wait)]
    OBVIOUS
  <2> DEFINE m == t.unanswered[e]
  <2>1. m \in Entry
    BY <1>1
  <2>2. CASE m.waits
    <3>1. m \in Entered
      BY <2>1, <2>2, EntryKinds
    <3>2. after(e) = [m EXCEPT !.wait = Down(m.wait)]
      BY <2>2 DEF Aged
    <3> HIDE DEF after, m
    <3>3. after(e) \in Entered
      BY <1>2, <3>1, <3>2
    <3>4. QED
      BY <3>1, <3>2, <3>3, EntryKinds DEF m
  <2>3. CASE ~m.waits
    BY <2>1, <2>3 DEF Aged
  <2>4. QED
    BY <2>2, <2>3
<1> DEFINE gap == Down(t.gap)
           settle == Down(t.settle)
<1>4. t' = [t EXCEPT !.gap = gap, !.settle = settle, !.unanswered = f]
  BY DEF Tick
<1> HIDE DEF after
<1>5. f \in [Entries -> Entry] /\ \A e \in Entries : f[e] = after(e)
  BY <1>3
<1>6. gap \in 0..Gap /\ settle \in 0..Settle
  <2>1. t.gap \in 0..Gap /\ t.settle \in 0..Settle /\ Gap \in Nat /\ Settle \in Nat
    BY <1>1, SessionAssumption DEF Trackeds
  <2>2. QED
    BY <2>1, DownFacts
<1> HIDE DEF f, gap, settle
<1>7. /\ t' \in Trackeds /\ t'.lastSeq = t.lastSeq /\ t'.settle = settle
      /\ t'.replaying = t.replaying /\ t'.unanswered = f
  BY <1>1, <1>4, <1>5, <1>6 DEF Trackeds
<1>8. \/ ~watch.watched /\ watch' = watch
      \/ /\ watch \in Watches /\ watch' \in Watches
         /\ watch'.cursor = watch.cursor /\ watch'.gen = watch.gen
         /\ watch'.state = watch.state /\ watch'.grace = Down(watch.grace)
  <2>1. CASE watch.watched
    <3>1. watch \in Watches
      BY <2>1, WatchKinds DEF TypeInv, Types
    <3> DEFINE g == Down(watch.grace)
    <3>2. g \in 0..Grace
      <4>1. watch.grace \in 0..Grace /\ Grace \in Nat
        BY <3>1, SessionAssumption DEF Watches
      <4>2. QED
        BY <4>1, DownFacts
    <3>3. watch' = [watch EXCEPT !.grace = g]
      BY <2>1 DEF Tick
    <3> HIDE DEF g
    <3>4. QED
      BY <3>1, <3>2, <3>3 DEF Watches, g
  <2>2. CASE ~watch.watched
    BY <2>2 DEF Tick
  <2>3. QED
    BY <2>1, <2>2
<1>9. /\ polled' = FALSE
      /\ UNCHANGED <<service, call, viewing, poll, timer, again, startedFor, bounds, history>>
  BY DEF Tick
<1>10. Types'
  <2>1. watch' \in {NoWatch} \cup Watches
    BY <1>8 DEF TypeInv, Types
  <2>2. QED
    BY <1>7, <1>9, <2>1, ZenonT(40) DEF TypeInv, Types, service, history
<1>11. ReadFromLog' /\ StartedByAuto'
  BY <1>7, <1>8, <1>9, WatchKinds DEF TypeInv, ReadFromLog, StartedByAuto, service
<1>12. QED
  BY <1>3, <1>5, <1>7, <1>8, <1>10, <1>11 DEF TypeInv, settle

\* The parts of an answer that is dealt with.
Events == {log[i] : i \in (Max({poll.from, t.lastSeq}) + 1)..poll.upto}
Read   == AfterEvents(t, Events, poll.upto)
Stated == WithState(Read, poll.state)
StartsNow == ~poll.more /\ MayResume(Stated, poll.state)
NextWatch == IF Releases(Read, poll.state) THEN NoWatch
             ELSE [watch EXCEPT !.cursor = poll.upto, !.state = poll.state]

PollAccepted ==
  /\ Accepted
  /\ t' = Handled(t, Events, poll)
  /\ watch' = NextWatch
  /\ call' = IF StartsNow THEN [call EXCEPT ![AutoStart] = "minting"] ELSE call
  /\ startedFor' = IF StartsNow THEN Due(Read) ELSE startedFor
  /\ missed' = (missed \/ poll.from > t.lastSeq)
  /\ behind' = poll.more
  /\ timer' = NextPoll(poll.more, NextWatch)

PollIgnored ==
  /\ ~Accepted
  /\ timer' = NextPoll(FALSE, watch)
  /\ UNCHANGED <<t, watch, call, startedFor, missed, behind>>

LEMMA PollReturnsCases ==
  PollReturns => /\ poll.step = "answered" /\ poll' = NoPoll /\ polled' = TRUE
                 /\ UNCHANGED <<service, viewing, again, bounds, ended, told, crossed, refused>>
                 /\ PollAccepted \/ PollIgnored
BY DEF PollReturns, PollAccepted, PollIgnored, Events, Read, Stated, StartsNow, NextWatch

LEMMA AcceptedFacts ==
  ASSUME TypeInv, poll.step = "answered", PollAccepted
  PROVE  /\ poll \in AnsweredPolls /\ watch \in Watches /\ watch.gen = poll.gen
         /\ Read \in Trackeds /\ Stated \in Trackeds
         /\ Stated.unanswered = Read.unanswered /\ Stated.settle = t.settle
         /\ \A e \in Entries :
              \/ Read.unanswered[e] = t.unanswered[e]
              \/ Read.unanswered[e] = NoEntry
              \/ e = Parked /\ viewing /\ Read.unanswered[e] = NewEntry(TRUE)
         /\ t' \in Trackeds
         /\ t'.lastSeq = Max({t.lastSeq, poll.upto}) /\ t'.settle = t.settle
         /\ t'.replaying => t.replaying /\ ~Releases(Read, poll.state) /\ poll.more
         /\ poll.more => t'.unanswered = Read.unanswered
         /\ ~poll.more => \A e \in Entries : t'.unanswered[e] =
              IF poll.state \notin Asleep THEN Taken(e, Read.unanswered[e])
              ELSE IF MayResume(Stated, poll.state) /\ e \in Due(Read) THEN Tried(Read.unanswered[e])
              ELSE Read.unanswered[e]
         /\ \/ /\ Releases(Read, poll.state) /\ watch' = NoWatch
               /\ ~viewing /\ ~Resuming /\ Open(Read) = {}
            \/ /\ ~Releases(Read, poll.state) /\ watch' \in Watches
               /\ watch'.cursor = poll.upto /\ watch'.state = poll.state
               /\ watch'.grace = watch.grace /\ watch'.gen = watch.gen
         /\ StartsNow => ~Resuming /\ Due(Read) # {}
<1>1. poll \in AnsweredPolls
  BY WatchKinds DEF TypeInv, Types
<1>2. watch \in Watches /\ watch.gen = poll.gen
  BY WatchKinds DEF PollAccepted, Accepted, TypeInv, Types
<1>3. t \in Trackeds /\ t' = Handled(t, Events, poll)
  BY DEF TypeInv, Types, PollAccepted
<1>4. poll.upto \in Nat /\ poll.state \in States
  BY <1>1 DEF AnsweredPolls
<1> DEFINE ev == Events
           read == AfterEvents(t, ev, poll.upto)
           stated == WithState(read, poll.state)
           ur == Handled(t, ev, poll)
<1>5. Read = read /\ Stated = stated /\ t' = ur
  BY <1>3 DEF Read, Stated
<1>6. \A e \in Entries :
        \/ read.unanswered[e] = t.unanswered[e]
        \/ read.unanswered[e] = NoEntry
        \/ e = Parked /\ viewing /\ read.unanswered[e] = NewEntry(TRUE)
  BY <1>3, <1>4, AfterEventsTypes
<1>7. /\ read \in Trackeds /\ stated \in Trackeds
      /\ stated.unanswered = read.unanswered /\ stated.settle = t.settle
      /\ ur \in Trackeds
      /\ ur.lastSeq = Max({t.lastSeq, poll.upto}) /\ ur.settle = t.settle
      /\ ur.replaying => t.replaying /\ ~Releases(read, poll.state) /\ poll.more
      /\ poll.more => ur.unanswered = read.unanswered
      /\ ~poll.more => \A e \in Entries : ur.unanswered[e] =
           IF poll.state \notin Asleep THEN Taken(e, read.unanswered[e])
           ELSE IF MayResume(stated, poll.state) /\ e \in Due(read) THEN Tried(read.unanswered[e])
           ELSE read.unanswered[e]
  BY <1>1, <1>3, HandledTypes
<1>8. \/ /\ Releases(Read, poll.state) /\ watch' = NoWatch
         /\ ~viewing /\ ~Resuming /\ Open(Read) = {}
      \/ /\ ~Releases(Read, poll.state) /\ watch' \in Watches
         /\ watch'.cursor = poll.upto /\ watch'.state = poll.state
         /\ watch'.grace = watch.grace /\ watch'.gen = watch.gen
  <2>1. CASE Releases(Read, poll.state)
    <3> DEFINE slept == [Read EXCEPT !.state = poll.state]
    <3>1. ~viewing /\ ~Resuming /\ Open(slept) = {}
      BY <2>1 DEF Releases, LetsGo
    <3>2. slept \in Trackeds /\ slept.unanswered = Read.unanswered
      BY <1>4, <1>5, <1>7 DEF Trackeds
    <3>3. Open(slept) = Open(Read)
      <4> HIDE DEF slept
      <4>1. QED
        BY <1>4, <1>5, <1>7, <3>2, SameEntries
    <3>4. watch' = NoWatch
      BY <2>1 DEF PollAccepted, NextWatch
    <3>5. QED
      BY <2>1, <3>1, <3>3, <3>4
  <2>2. CASE ~Releases(Read, poll.state)
    <3>1. watch' = [watch EXCEPT !.cursor = poll.upto, !.state = poll.state]
      BY <2>2 DEF PollAccepted, NextWatch
    <3>2. QED
      BY <1>2, <1>4, <2>2, <3>1 DEF Watches
  <2>3. QED
    BY <2>1, <2>2
<1>9. StartsNow => ~Resuming /\ Due(Read) # {}
  <2>1. Due(Stated) = Due(Read)
    BY <1>4, <1>5, <1>7, SameEntries
  <2>2. QED
    BY <2>1 DEF StartsNow, MayResume
<1> HIDE DEF ev, read, stated, ur
<1>10. QED
  BY <1>1, <1>2, <1>5, <1>6, <1>7, <1>8, <1>9

LEMMA TypesPollReturns ==
  TypeInv /\ PollReturns => TypeInv'
<1> SUFFICES ASSUME TypeInv, PollReturns PROVE TypeInv'
  OBVIOUS
<1>1. /\ poll.step = "answered" /\ poll' = NoPoll /\ polled' = TRUE
      /\ UNCHANGED <<service, viewing, again, bounds, ended, told, crossed, refused>>
      /\ PollAccepted \/ PollIgnored
  BY PollReturnsCases
<1>2. timer' \in {"off", "now", "later"}
  BY <1>1 DEF PollAccepted, PollIgnored, NextPoll
<1>3. CASE PollIgnored
  <2>1. UNCHANGED <<t, watch, call, startedFor, missed, behind>>
    BY <1>3 DEF PollIgnored
  <2>2. Types'
    BY <1>1, <1>2, <2>1 DEF TypeInv, Types, service
  <2>3. ReadFromLog'
    BY <1>1, <2>1, WatchKinds DEF TypeInv, ReadFromLog, service
  <2>4. QED
    BY <2>1, <2>2, <2>3 DEF TypeInv, StartedByAuto
<1>4. CASE PollAccepted
  <2>1. /\ poll \in AnsweredPolls /\ t' \in Trackeds /\ Read \in Trackeds
        /\ t'.lastSeq = Max({t.lastSeq, poll.upto})
    BY <1>1, <1>4, AcceptedFacts
  <2>2. /\ watch' \in {NoWatch} \cup Watches
        /\ watch'.watched => watch'.cursor = poll.upto
    BY <1>1, <1>4, AcceptedFacts, WatchKinds
  <2>3. call' \in [Calls -> CallStates]
    BY <1>4, CallKinds DEF PollAccepted, TypeInv, Types, CallStates
  <2>4. startedFor' \subseteq Entries /\ (startedFor' # {} => call'[AutoStart] # "none")
    <3>1. CASE StartsNow
      <4>1. startedFor' = Due(Read) /\ call' = [call EXCEPT ![AutoStart] = "minting"]
        BY <1>4, <3>1 DEF PollAccepted
      <4>2. Due(Read) \subseteq Entries
        BY DEF Due, Open
      <4>3. call'[AutoStart] = "minting"
        BY <4>1, CallKinds DEF TypeInv, Types
      <4>4. QED
        BY <4>1, <4>2, <4>3
    <3>2. CASE ~StartsNow
      BY <1>4, <3>2 DEF PollAccepted, TypeInv, Types, StartedByAuto
    <3>3. QED
      BY <3>1, <3>2
  <2>5. missed' \in BOOLEAN /\ behind' \in BOOLEAN
    BY <1>4, <2>1 DEF PollAccepted, AnsweredPolls
  <2>6. Types'
    BY <1>1, <1>2, <2>1, <2>2, <2>3, <2>4, <2>5 DEF TypeInv, Types, service
  <2>7. ReadFromLog'
    <3>1. /\ poll.upto \in Nat /\ poll.upto <= Len(log) /\ t.lastSeq \in Nat /\ t.lastSeq <= Len(log)
          /\ Len(log) \in Nat
      BY <1>1, <2>1 DEF TypeInv, Types, ReadFromLog, AnsweredPolls, Trackeds
    <3>2. t'.lastSeq <= Len(log)
      BY <2>1, <3>1, MaxOfTwo
    <3>3. QED
      BY <1>1, <2>2, <3>1, <3>2, WatchKinds DEF ReadFromLog, service
  <2>8. QED
    BY <2>4, <2>6, <2>7 DEF TypeInv, StartedByAuto
<1>5. QED
  BY <1>1, <1>3, <1>4

-----------------------------------------------------------------------------
(* The steps, by what they do to what the client keeps.                    *)

\* Steps of the service, and those that only ask or are told of a failure.
Quiet ==
  /\ UNCHANGED <<viewing, poller, t, startedFor, history>>
  /\ \A c \in Starts : call'[c] # "none" <=> call[c] # "none"

DropSteps == Stop \/ \E m \in Messages : Send(m) \/ PostFails(m) \/ Abort(m)

PokeSteps == \E tr, s : Pokes(tr, s)

LEMMA DropStepsDrop ==
  TypeInv /\ DropSteps => Drops
BY SendDrops, PostFailsDrops, AbortDrops, StopDrops DEF DropSteps

LEMMA QuietSteps ==
  ASSUME TypeInv
  PROVE  /\ HarnessStep => Quiet
         /\ OpenSession \/ List => Quiet
         /\ \A c \in Calls : Serve(c) \/ Refuse(c) \/ KeyMinted(c) \/ CommandFails(c) => Quiet
         /\ UNCHANGED vars => Quiet
<1>1. HarnessStep => Quiet
  BY DEF HarnessStep, Quiet
<1>2. OpenSession \/ List => Quiet
  BY OpenSessionTypes DEF OpenSession, List, Quiet
<1>3. ASSUME NEW c \in Calls, Serve(c) PROVE Quiet
  <2>1. reported' \in States
    BY <1>3 DEF Serve, ServeStart, ServeStop, ServePost, ServeOther, TypeInv, Types, States
  <2>2. \A a \in Starts : call'[a] # "none" <=> call[a] # "none"
    BY <1>3, <2>1, CallKinds DEF Serve, TypeInv, Types, States
  <2>3. QED
    BY <1>3, <2>2 DEF Serve, Quiet
<1>4. ASSUME NEW c \in Calls, Refuse(c) \/ KeyMinted(c) PROVE Quiet
  BY <1>4, CallKinds DEF Refuse, KeyMinted, Quiet, TypeInv, Types
<1>5. ASSUME NEW c \in Calls, CommandFails(c) PROVE Quiet
  BY <1>5, CallKinds DEF CommandFails, Quiet, TypeInv, Types
<1>6. UNCHANGED vars => Quiet
  BY DEF vars, Quiet
<1>7. QED
  BY <1>1, <1>2, <1>3, <1>4, <1>5, <1>6

LEMMA StepKinds ==
  TypeInv /\ [Next]_vars =>
    \/ Quiet \/ PollBegin \/ ServePoll \/ PollFails \/ PollReturns
    \/ DropSteps \/ PokeSteps \/ OpenReturns \/ (\E c \in Calls : StartFails(c)) \/ Leaves \/ Tick
<1> DEFINE Kinds ==
      \/ Quiet \/ PollBegin \/ ServePoll \/ PollFails \/ PollReturns
      \/ DropSteps \/ PokeSteps \/ OpenReturns \/ (\E c \in Calls : StartFails(c)) \/ Leaves \/ Tick
<1> SUFFICES ASSUME TypeInv, [Next]_vars PROVE Kinds
  OBVIOUS
<1>1. CASE HarnessStep \/ UNCHANGED vars
  BY <1>1, QuietSteps
<1>2. CASE ServePoll \/ Tick \/ PollBegin \/ PollFails \/ PollReturns
  BY <1>2
<1>3. CASE \E c \in Calls : Serve(c) \/ Refuse(c) \/ KeyMinted(c)
  BY <1>3, QuietSteps
<1>4. ASSUME NEW c \in Calls, Deal(c) PROVE Kinds
  <2>1. CASE OpenReturns
    BY <2>1
  <2>2. CASE StopReturns
    BY <2>2, StopReturnsPokes DEF PokeSteps
  <2>3. CASE CommandFails(c)
    BY <2>3, QuietSteps
  <2>4. CASE StartReturns(c)
    BY <2>4, StartReturnsPokes DEF PokeSteps
  <2>5. CASE StartFails(c)
    BY <2>5
  <2>6. ASSUME NEW m \in Messages, PostReturns(m) PROVE Kinds
    BY <2>6, PostReturnsPokes DEF PokeSteps
  <2>7. ASSUME NEW m \in Messages, PostFails(m) PROVE Kinds
    BY <2>7 DEF DropSteps
  <2>8. ASSUME NEW m \in Messages, AbortReturns(m) PROVE Kinds
    BY <2>8, AbortReturnsPokes DEF PokeSteps
  <2>9. CASE ListReturns
    BY <2>9, ListLeaves
  <2> HIDE DEF Kinds
  <2>10. QED
    BY <1>4, <2>1, <2>2, <2>3, <2>4, <2>5, <2>6, <2>7, <2>8, <2>9 DEF Deal
<1>5. CASE UserStep
  <2>1. CASE OpenSession \/ List
    BY <2>1, QuietSteps
  <2>2. CASE Leave
    BY <2>2, LeaveLeaves
  <2>3. CASE DropSteps
    BY <2>3
  <2> HIDE DEF Kinds
  <2>4. QED
    BY <1>5, <2>1, <2>2, <2>3 DEF UserStep, DropSteps
<1> HIDE DEF Kinds
<1>6. CASE ClientStep
  BY <1>2, <1>3, <1>4, <1>6 DEF ClientStep
<1>7. QED
  BY <1>1, <1>2, <1>3, <1>5, <1>6 DEF Next

LEMMA TypesStep ==
  TypeInv /\ [Next]_vars => TypeInv'
<1> SUFFICES ASSUME TypeInv, [Next]_vars PROVE TypeInv'
  OBVIOUS
<1>1. CASE UNCHANGED vars
  BY <1>1 DEF vars, service, poller, bounds, history, TypeInv, Types, ReadFromLog, StartedByAuto
<1>2. CASE HarnessStep \/ ServePoll \/ Tick
  BY <1>2, TypesHarness, TypesServePoll, TickFacts
<1>3. CASE PollBegin \/ PollFails \/ PollReturns
  BY <1>3, TypesPollBegin, TypesPollFails, TypesPollReturns
<1>4. CASE \E c \in Calls : Serve(c) \/ Refuse(c) \/ KeyMinted(c)
  BY <1>4, TypesServe, TypesRequests
<1>5. CASE DropSteps
  BY <1>5, DropStepsDrop, TypesDrops
<1>6. ASSUME NEW c \in Calls, Deal(c) PROVE TypeInv'
  <2>1. CASE OpenReturns
    BY <2>1, OpenReturnsFacts
  <2>2. CASE StopReturns
    BY <2>2, StopReturnsPokes, TypesPoke
  <2>3. CASE CommandFails(c)
    BY <2>3, TypesRequests
  <2>4. CASE StartReturns(c)
    BY <2>4, StartReturnsPokes, TypesPoke
  <2>5. CASE StartFails(c)
    BY <2>5, StartFailsFacts
  <2>6. ASSUME NEW m \in Messages, PostReturns(m) PROVE TypeInv'
    BY <2>6, PostReturnsPokes, TypesPoke
  <2>7. ASSUME NEW m \in Messages, PostFails(m) PROVE TypeInv'
    BY <1>5, <2>7 DEF DropSteps
  <2>8. ASSUME NEW m \in Messages, AbortReturns(m) PROVE TypeInv'
    BY <2>8, AbortReturnsPokes, TypesPoke
  <2>9. CASE ListReturns
    BY <2>9, ListLeaves, TypesLeaves
  <2>10. QED
    BY <1>6, <2>1, <2>2, <2>3, <2>4, <2>5, <2>6, <2>7, <2>8, <2>9 DEF Deal
<1>7. CASE UserStep
  <2>1. CASE OpenSession \/ List
    BY <2>1, OpenSessionTypes
  <2>2. CASE Leave
    BY <2>2, LeaveLeaves, TypesLeaves
  <2>3. QED
    BY <1>5, <1>7, <2>1, <2>2 DEF UserStep, DropSteps
<1>8. CASE ClientStep
  BY <1>3, <1>4, <1>6, <1>8 DEF ClientStep
<1>9. QED
  BY <1>1, <1>2, <1>4, <1>7, <1>8 DEF Next

LEMMA TypesAreKept ==
  Spec => []TypeInv
BY TypesInit, TypesStep, PTL DEF Spec

-----------------------------------------------------------------------------
(* No automatic start is for what the user ended: it is forgotten at once, *)
(* and such a start is made for what is remembered.                        *)

EndedIsOver == \A m \in ended : ~t.unanswered[m].waits

LEMMA EndedStep ==
  TypeInv /\ EndedIsOver /\ [Next]_vars => EndedIsOver'
<1> SUFFICES ASSUME TypeInv, EndedIsOver, [Next]_vars PROVE EndedIsOver'
  OBVIOUS
<1>1. ended \subseteq Messages /\ Messages \subseteq Entries /\ Parked \notin Messages
      /\ t \in Trackeds /\ \A e \in Entries : t.unanswered[e] \in Entry
  BY SessionAssumption DEF TypeInv, Types, Entries, Trackeds
<1>2. CASE Quiet \/ PollBegin \/ ServePoll \/ PollFails
  BY <1>2 DEF Quiet, PollBegin, ServePoll, PollFails, history, EndedIsOver
<1>3. CASE PollReturns
  <2>1. /\ poll.step = "answered" /\ ended' = ended /\ (PollAccepted \/ PollIgnored)
    BY <1>3, PollReturnsCases
  <2>2. CASE PollIgnored
    BY <2>1, <2>2 DEF PollIgnored, EndedIsOver
  <2>3. CASE PollAccepted
    <3> SUFFICES ASSUME NEW m \in ended PROVE ~t'.unanswered[m].waits
      BY <2>1 DEF EndedIsOver
    <3> DEFINE r == Read.unanswered[m]
    <3>1. m \in Entries /\ m # Parked /\ ~t.unanswered[m].waits
      BY <1>1 DEF EndedIsOver
    <3>2. r = t.unanswered[m] \/ r = NoEntry
      BY <2>1, <2>3, <3>1, AcceptedFacts
    <3>3. r \in Entry /\ ~r.waits
      BY <1>1, <3>1, <3>2, EntryKinds
    <3>4. m \notin Due(Read)
      BY <3>3 DEF Due, Open
    <3>5. t'.unanswered[m] = r \/ t'.unanswered[m] = Taken(m, r)
      BY <2>1, <2>3, <3>1, <3>4, AcceptedFacts
    <3> HIDE DEF r
    <3>6. QED
      BY <3>3, <3>5, TakenEntry
  <2>4. QED
    BY <2>1, <2>2, <2>3
<1>4. CASE DropSteps
  <2>1. Drops
    BY <1>4, DropStepsDrop
  <2>2. QED
    BY <1>1, <2>1, EntryKinds DEF Drops, EndedIsOver
<1>5. CASE PokeSteps
  BY <1>1, <1>5 DEF PokeSteps, Pokes, EndedIsOver
<1>6. CASE OpenReturns
  <2>1. ended' = ended /\ t'.unanswered = t.unanswered
    BY <1>6, OpenReturnsFacts DEF OpenReturns
  <2>2. QED
    BY <2>1 DEF EndedIsOver
<1>7. ASSUME NEW c \in Calls, StartFails(c) PROVE EndedIsOver'
  <2>1. ended' = ended
    BY <1>7 DEF StartFails
  <2>2. \A e \in Entries : t'.unanswered[e] = t.unanswered[e] \/ t.unanswered[e] \in Entered
    BY <1>7, StartFailsFacts
  <2>3. QED
    BY <1>1, <2>1, <2>2, EntryKinds DEF EndedIsOver
<1>8. CASE Leaves
  BY <1>8 DEF Leaves, EndedIsOver, history
<1>9. CASE Tick
  <2>1. ended' = ended
    BY <1>9 DEF Tick, history
  <2>2. \A e \in Entries : t'.unanswered[e] = t.unanswered[e] \/ t.unanswered[e] \in Entered
    BY <1>9, TickFacts
  <2>3. QED
    BY <1>1, <2>1, <2>2, EntryKinds DEF EndedIsOver
<1>10. QED
  BY <1>2, <1>3, <1>4, <1>5, <1>6, <1>7, <1>8, <1>9, StepKinds

\* Only an answer makes the client start something on its own.
LEMMA StartsAreWanted ==
  TypeInv /\ EndedIsOver /\ [Next]_vars => \A c \in Starts : Begins(c) => Wanted(c)
<1> SUFFICES ASSUME TypeInv, EndedIsOver, [Next]_vars, NEW c \in Starts, Begins(c)
             PROVE  Wanted(c)
  OBVIOUS
<1>1. ended \subseteq Messages /\ Messages \subseteq Entries /\ Parked \notin Messages
      /\ \A e \in Entries : t.unanswered[e] \in Entry
  BY SessionAssumption DEF TypeInv, Types, Entries, Trackeds
<1>2. CASE PollReturns
  <2>1. poll.step = "answered" /\ (PollAccepted \/ PollIgnored)
    BY <1>2, PollReturnsCases
  <2>2. CASE PollAccepted /\ StartsNow
    <3>1. startedFor' = Due(Read) /\ call' = [call EXCEPT ![AutoStart] = "minting"]
      BY <2>2 DEF PollAccepted
    <3>2. ASSUME NEW m \in Due(Read) \cap ended PROVE FALSE
      <4>1. m \in Entries /\ m # Parked /\ ~t.unanswered[m].waits /\ Read.unanswered[m].waits
        BY <1>1 DEF EndedIsOver, Due, Open
      <4>2. Read.unanswered[m] = t.unanswered[m] \/ Read.unanswered[m] = NoEntry
        BY <2>1, <2>2, <4>1, AcceptedFacts
      <4>3. QED
        BY <4>1, <4>2, EntryKinds
    <3>3. c = AutoStart
      BY <3>1, CallKinds DEF Begins, TypeInv, Types
    <3>4. Due(Read) # {}
      <4>1. Due(Stated) # {} /\ poll \in AnsweredPolls /\ Read \in Trackeds /\ Stated \in Trackeds
            /\ Stated.unanswered = Read.unanswered
        BY <2>1, <2>2, AcceptedFacts DEF StartsNow, MayResume
      <4>2. QED
        BY <4>1, SameEntries DEF AnsweredPolls
    <3>5. QED
      BY <3>1, <3>2, <3>3, <3>4 DEF Wanted
  <2>3. CASE ~(PollAccepted /\ StartsNow)
    BY <2>1, <2>3 DEF PollAccepted, PollIgnored, Begins
  <2>4. QED
    BY <2>2, <2>3
<1>3. CASE Quiet \/ PollBegin \/ ServePoll \/ PollFails \/ Leaves \/ Tick
  BY <1>3 DEF Quiet, PollBegin, ServePoll, PollFails, Leaves, Tick, Begins
<1>4. CASE DropSteps
  BY <1>4, DropStepsDrop DEF Drops, Begins
<1>5. CASE PokeSteps
  BY <1>5 DEF PokeSteps, Pokes
<1>6. CASE OpenReturns
  BY <1>6, OpenReturnsFacts DEF Begins
<1>7. ASSUME NEW d \in Calls, StartFails(d) PROVE FALSE
  BY <1>7 DEF StartFails, Begins, TypeInv, Types
<1>8. QED
  BY <1>2, <1>3, <1>4, <1>5, <1>6, <1>7, StepKinds

(***************************************************************************)
(* What the user stopped or aborted is never among the entries of a start  *)
(* that the client decides on by itself (stop, abort and autoResume): it   *)
(* was forgotten at once, and such a start is for what is remembered.      *)
(* Every other start is decided on when the answer to a message or to an   *)
(* abort finds the session asleep, which send does for an ended message as *)
(* for any other.                                                          *)
(***************************************************************************)
THEOREM AutomaticStartsSpareTheEnded == Spec => AutoStartsSpareEnded
<1>1. Init => EndedIsOver
  BY DEF Init, EndedIsOver
<1>2. TypeInv /\ EndedIsOver /\ [Next]_vars => EndedIsOver'
  BY EndedStep
<1> DEFINE Spared == \A c \in Starts : Begins(c) => Wanted(c)
<1>3. TypeInv /\ EndedIsOver /\ [Next]_vars => [Spared]_vars
  BY StartsAreWanted
<1> HIDE DEF Spared
<1>4. Spec => [][Spared]_vars
  BY <1>1, <1>2, <1>3, TypesAreKept, PTL DEF Spec
<1>5. QED
  BY <1>4 DEF AutoStartsSpareEnded, Spared

-----------------------------------------------------------------------------
(* The view misses nothing: what is polled next is not past what was seen, *)
(* and a poll that was overtaken by a reset of the cursor is told apart by *)
(* its generation, unless its watch was given up in between.               *)

ReadsInOrder ==
  /\ watch.watched => watch.cursor <= t.lastSeq
  /\ ~crossed => ~missed
  /\ (~crossed /\ poll # NoPoll /\ watch.watched) =>
       (poll.gen <= watch.gen /\ (poll.gen = watch.gen => poll.from <= t.lastSeq))

LEMMA ReadsInOrderStep ==
  TypeInv /\ ReadsInOrder /\ [Next]_vars => ReadsInOrder'
<1> SUFFICES ASSUME TypeInv, ReadsInOrder, [Next]_vars PROVE ReadsInOrder'
  OBVIOUS
<1>1. /\ t.lastSeq \in Nat /\ watch \in {NoWatch} \cup Watches
      /\ watch.watched => watch.cursor \in Nat /\ watch.gen \in Nat
      /\ poll # NoPoll => poll.gen \in Nat /\ poll.from \in Nat
      /\ crossed \in BOOLEAN /\ missed \in BOOLEAN
  BY WatchKinds DEF TypeInv, Types, Trackeds, Watches, Asked, AnsweredPolls
<1>2. CASE Quiet
  BY <1>2 DEF Quiet, poller, history, ReadsInOrder
<1>3. CASE PollBegin
  <2>1. UNCHANGED <<watch, t, missed, crossed>>
    BY <1>3 DEF PollBegin, history
  <2>2. CASE Polls(watch)
    <3>1. poll' = [step |-> "asked", gen |-> watch.gen, from |-> watch.cursor] /\ watch.watched
      BY <1>3, <2>2 DEF PollBegin, Polls
    <3>2. poll'.gen = watch.gen /\ poll'.from = watch.cursor
      BY <3>1
    <3>3. QED
      BY <1>1, <2>1, <3>1, <3>2 DEF ReadsInOrder
  <2>3. CASE ~Polls(watch)
    BY <1>3, <2>1, <2>3 DEF PollBegin, ReadsInOrder
  <2>4. QED
    BY <2>2, <2>3
<1>4. CASE ServePoll
  <2>1. UNCHANGED <<watch, t, missed, crossed>> /\ poll # NoPoll
    BY <1>4, WatchKinds DEF ServePoll, history
  <2>2. poll'.gen = poll.gen /\ poll'.from = poll.from
    BY <1>4 DEF ServePoll
  <2>3. QED
    BY <2>1, <2>2 DEF ReadsInOrder
<1>5. CASE PollFails
  BY <1>5 DEF PollFails, ReadsInOrder
<1>6. CASE PollReturns
  <2>1. /\ poll.step = "answered" /\ poll' = NoPoll /\ crossed' = crossed
        /\ (PollAccepted \/ PollIgnored)
    BY <1>6, PollReturnsCases
  <2>2. CASE PollIgnored
    BY <2>1, <2>2 DEF PollIgnored, ReadsInOrder
  <2>3. CASE PollAccepted
    <3>1. poll # NoPoll /\ watch.watched /\ watch.gen = poll.gen /\ poll.upto \in Nat
      BY <2>1, <2>3, AcceptedFacts, WatchKinds DEF AnsweredPolls
    <3>2. ~crossed => poll.from <= t.lastSeq
      BY <1>1, <3>1 DEF ReadsInOrder
    <3>3. ~crossed => ~missed'
      BY <1>1, <2>3, <3>1, <3>2 DEF PollAccepted, ReadsInOrder
    <3>4. watch'.watched => watch'.cursor = poll.upto
      BY <2>1, <2>3, AcceptedFacts, WatchKinds
    <3>5. t'.lastSeq = Max({t.lastSeq, poll.upto})
      BY <2>1, <2>3, AcceptedFacts
    <3>6. poll.upto <= t'.lastSeq
      BY <1>1, <3>1, <3>5, MaxOfTwo
    <3>7. QED
      BY <2>1, <3>3, <3>4, <3>6 DEF ReadsInOrder
  <2>4. QED
    BY <2>1, <2>2, <2>3
<1>7. CASE DropSteps
  <2>1. UNCHANGED <<poller, missed, crossed>> /\ t'.lastSeq = t.lastSeq
    BY <1>7, DropStepsDrop DEF Drops
  <2>2. QED
    BY <2>1 DEF ReadsInOrder, poller
<1>8. ASSUME NEW tr, NEW s, Pokes(tr, s) PROVE ReadsInOrder'
  <2>1. /\ poll' = poll /\ missed' = missed /\ t'.lastSeq = t.lastSeq
        /\ tr \in Trackeds /\ s \in States /\ StateAndPoke(tr, s)
    BY <1>8 DEF Pokes
  <2>2. /\ watch' \in Watches
        /\ \/ watch.watched /\ watch'.cursor = watch.cursor /\ watch'.gen = watch.gen /\ crossed' = crossed
           \/ watch'.cursor = 0 /\ (crossed' = (crossed \/ poll # NoPoll))
    BY <2>1, PokeFacts DEF TypeInv
  <2>3. CASE watch.watched /\ watch'.cursor = watch.cursor /\ watch'.gen = watch.gen /\ crossed' = crossed
    BY <2>1, <2>3 DEF ReadsInOrder
  <2>4. CASE watch'.cursor = 0 /\ (crossed' = (crossed \/ poll # NoPoll))
    <3>1. ~crossed' => poll' = NoPoll /\ ~crossed
      BY <1>1, <2>1, <2>4
    <3>2. watch'.cursor <= t'.lastSeq
      BY <1>1, <2>1, <2>4
    <3>3. QED
      BY <2>1, <3>1, <3>2 DEF ReadsInOrder
  <2>5. QED
    BY <2>2, <2>3, <2>4
<1>9. CASE OpenReturns
  <2>1. /\ t'.lastSeq = 0 /\ watch' \in Watches /\ watch'.cursor = 0
        /\ watch'.gen = (IF watch.watched THEN watch.gen ELSE 0) + 1
        /\ crossed' = (crossed \/ (~watch.watched /\ poll # NoPoll))
    BY <1>9, OpenReturnsFacts
  <2>2. poll' = poll /\ missed' = FALSE
    BY <1>9 DEF OpenReturns
  <2>3. CASE watch.watched
    <3>1. watch'.gen = watch.gen + 1 /\ crossed' = crossed
      BY <1>1, <2>1, <2>3
    <3>2. (~crossed /\ poll # NoPoll) => poll.gen <= watch.gen
      BY <2>3 DEF ReadsInOrder
    <3>3. (~crossed /\ poll # NoPoll) => poll.gen <= watch'.gen /\ poll.gen # watch'.gen
      BY <1>1, <2>3, <3>1, <3>2
    <3>4. QED
      BY <2>1, <2>2, <3>1, <3>3 DEF ReadsInOrder
  <2>4. CASE ~watch.watched
    <3>1. ~crossed' => poll' = NoPoll
      BY <2>1, <2>2, <2>4
    <3>2. watch'.cursor <= t'.lastSeq
      BY <2>1
    <3>3. QED
      BY <2>2, <3>1, <3>2 DEF ReadsInOrder
  <2>5. QED
    BY <2>3, <2>4
<1>10. ASSUME NEW c \in Calls, StartFails(c) PROVE ReadsInOrder'
  <2>1. t'.lastSeq = t.lastSeq
    BY <1>10, StartFailsFacts
  <2>2. QED
    BY <1>10, <2>1 DEF StartFails, poller, ReadsInOrder
<1>11. CASE Leaves
  BY <1>11, WatchKinds DEF Leaves, history, ReadsInOrder
<1>12. CASE Tick
  <2>1. /\ t'.lastSeq = t.lastSeq
        /\ \/ watch' = watch
           \/ watch.watched /\ watch'.cursor = watch.cursor /\ watch'.gen = watch.gen
    BY <1>12, TickFacts, WatchKinds
  <2>2. UNCHANGED <<poll, missed, crossed>>
    BY <1>12 DEF Tick, history
  <2>3. CASE watch' = watch
    BY <2>1, <2>2, <2>3 DEF ReadsInOrder
  <2>4. CASE watch.watched /\ watch'.cursor = watch.cursor /\ watch'.gen = watch.gen
    BY <2>1, <2>2, <2>4 DEF ReadsInOrder
  <2>5. QED
    BY <2>1, <2>3, <2>4
<1>13. QED
  BY <1>2, <1>3, <1>4, <1>5, <1>6, <1>7, <1>8, <1>9, <1>10, <1>11, <1>12, StepKinds DEF PokeSteps

(***************************************************************************)
(* The view is given every event since the session was opened, in spite of *)
(* replays that begin while a poll is under way (watch, handleStream),     *)
(* unless a poll crossed a watch that was given up and made anew.          *)
(***************************************************************************)
THEOREM EventsReachTheView == Spec => []ViewMissesNothing
<1>1. Init => ReadsInOrder
  BY WatchKinds DEF Init, ReadsInOrder
<1>2. TypeInv /\ ReadsInOrder /\ [Next]_vars => ReadsInOrder'
  BY ReadsInOrderStep
<1>3. ReadsInOrder => ViewMissesNothing
  BY DEF ReadsInOrder, ViewMissesNothing
<1>4. QED
  BY <1>1, <1>2, <1>3, TypesAreKept, PTL DEF Spec

-----------------------------------------------------------------------------
(* What is pending is polled for.                                          *)

\* The timer is not set while a poll is under way.
TimerOrPoll == poll # NoPoll => timer = "off"

\* Polling ends only for a session that sleeps and whose grace period is over.
OffIsOver == (watch.watched /\ timer = "off" /\ poll = NoPoll) => ~Polls(watch)

\* A session is not let go while it is in view or something is awaited of it.
AwaitedIsWatched ==
  (Open(t) # {} \/ Resuming \/ viewing \/ t.replaying) => watch.watched

\* A poll that was overtaken is followed by another.
StaleIsRepeated == (poll # NoPoll /\ watch.watched /\ poll.gen # watch.gen) => again

\* The start that a command makes begins with the grace period.
StartsAreFresh ==
  \A c \in Starts \ {AutoStart} : call[c] # "none" => watch.watched /\ watch.grace = Grace

\* A replay is at its first poll, or a poll failed or left more to read.
ReplayIsPolled ==
  t.replaying => (behind \/ (watch.grace = Grace /\ (timer = "now" \/ poll # NoPoll)))

\* Delays are shorter than the grace period, and those of the entries that
\* no start is under way for, and the settle time, end within what is left of it.
DelaysAreShort == \A e \in Entries : t.unanswered[e].waits => t.unanswered[e].wait < Grace
DelaysEndInTime ==
  \A e \in Open(t) \ startedFor : t.unanswered[e].wait > 0 => t.unanswered[e].wait < watch.grace
SettlesInTime == (t.settle > 0 /\ watch.watched /\ ~refused) => t.settle < watch.grace

\* A sleeping session with an entry that the client must still start it for.
Awaits(e) ==
  /\ Pending(e) /\ watch.watched /\ watch.state \in Asleep
  /\ ~Resuming /\ ~behind /\ ~refused

\* There is time left for it, and a delay or a poll is ahead.
AwaitsInTime == \A e \in Entries : Awaits(e) => watch.grace > 0
AwaitsAPoll ==
  \A e \in Entries : Awaits(e) =>
    \/ t.unanswered[e].wait > 0 \/ t.settle > 0
    \/ timer = "now" \/ poll # NoPoll \/ (timer = "later" /\ ~polled)

PollInv ==
  /\ TimerOrPoll /\ OffIsOver /\ AwaitedIsWatched /\ StaleIsRepeated
  /\ StartsAreFresh /\ ReplayIsPolled
  /\ DelaysAreShort /\ DelaysEndInTime /\ SettlesInTime
  /\ AwaitsInTime /\ AwaitsAPoll

LEMMA TimeFacts ==
  ASSUME TypeInv
  PROVE  /\ Grace \in Nat /\ Settle \in Nat /\ 0 < Settle /\ Settle < Grace /\ 0 < Grace
         /\ t.settle \in Nat /\ t.settle <= Settle
         /\ watch.watched => watch \in Watches /\ watch.grace \in Nat /\ watch.grace <= Grace
         /\ \A e \in Entries : /\ t.unanswered[e] \in Entry
                               /\ t.unanswered[e].waits => t.unanswered[e].wait \in Nat
         /\ poll \in {NoPoll} \cup Asked \cup AnsweredPolls
         /\ timer \in {"off", "now", "later"}
         /\ Resuming \/ startedFor = {}
<1>1. Grace \in Nat /\ Settle \in Nat /\ 0 < Settle /\ Settle < Grace /\ 0 < Grace
  BY SessionAssumption
<1>2. t.settle \in Nat /\ t.settle <= Settle
  BY <1>1 DEF TypeInv, Types, Trackeds
<1>3. watch.watched => watch \in Watches /\ watch.grace \in Nat /\ watch.grace <= Grace
  <2>1. watch.watched => watch \in Watches
    BY WatchKinds DEF TypeInv, Types
  <2>2. \A w \in Watches : w.grace \in 0..Grace
    BY DEF Watches
  <2>3. QED
    BY <1>1, <2>1, <2>2
<1>4. \A e \in Entries : /\ t.unanswered[e] \in Entry
                         /\ t.unanswered[e].waits => t.unanswered[e].wait \in Nat
  BY EntryKinds DEF TypeInv, Types, Trackeds, Entered
<1>5. Resuming \/ startedFor = {}
  BY CallKinds DEF TypeInv, StartedByAuto, Resuming
<1>6. QED
  BY <1>1, <1>2, <1>3, <1>4, <1>5 DEF TypeInv, Types

LEMMA PollInvInit ==
  Init => PollInv
<1> SUFFICES ASSUME Init PROVE PollInv
  OBVIOUS
<1>1. /\ watch = NoWatch /\ poll = NoPoll /\ timer = "off" /\ viewing = FALSE
      /\ t.replaying = FALSE /\ t.unanswered = [e \in Entries |-> NoEntry]
      /\ call = [c \in Calls |-> "none"]
  BY DEF Init
<1>2. \A e \in Entries : t.unanswered[e] = NoEntry
  BY <1>1
<1>3. Open(t) = {}
  BY <1>2, EntryKinds DEF Open
<1>4. ~Resuming
  BY <1>1, CallKinds DEF Resuming
<1>5. \A e \in Entries : ~Awaits(e)
  BY <1>3 DEF Awaits, Pending
<1>6. StartsAreFresh
  BY <1>4 DEF StartsAreFresh, Resuming
<1>7. DelaysAreShort /\ DelaysEndInTime
  BY <1>2, <1>3, EntryKinds DEF DelaysAreShort, DelaysEndInTime
<1>8. QED
  BY <1>1, <1>3, <1>4, <1>5, <1>6, <1>7, WatchKinds
  DEF PollInv, TimerOrPoll, OffIsOver, AwaitedIsWatched, StaleIsRepeated, ReplayIsPolled,
      SettlesInTime, AwaitsInTime, AwaitsAPoll

\* Steps that touch nothing of it.
LEMMA PollInvQuiet ==
  TypeInv /\ PollInv /\ Quiet => PollInv'
<1> SUFFICES ASSUME TypeInv, PollInv, Quiet PROVE PollInv'
  OBVIOUS
<1>1. /\ UNCHANGED <<viewing, watch, poll, timer, again, polled, t, startedFor, behind, refused>>
      /\ \A c \in Starts : call'[c] # "none" <=> call[c] # "none"
  BY DEF Quiet, poller, history
<1>2. Resuming' <=> Resuming
  BY <1>1 DEF Resuming
<1>3. \A e \in Entries : Awaits(e)' <=> Awaits(e)
  BY <1>1, <1>2 DEF Awaits, Pending
<1>4. QED
  BY <1>1, <1>2, <1>3
  DEF PollInv, TimerOrPoll, OffIsOver, AwaitedIsWatched, StaleIsRepeated, StartsAreFresh,
      ReplayIsPolled, DelaysAreShort, DelaysEndInTime, SettlesInTime, AwaitsInTime, AwaitsAPoll

\* A command's answer, or one that opens the session, polls it now and for
\* the whole grace period.
LEMMA PollInvFresh ==
  ASSUME TypeInv, TypeInv', TimerOrPoll, DelaysAreShort,
         watch' \in Watches, watch'.grace = Grace, refused' = FALSE, poll' = poll,
         timer' = (IF poll = NoPoll THEN "now" ELSE timer),
         again' = (again \/ poll # NoPoll),
         \A e \in Entries : /\ t'.unanswered[e].waits = t.unanswered[e].waits
                            /\ t'.unanswered[e].wait = t.unanswered[e].wait
  PROVE  PollInv'
<1>1. watch'.watched /\ (timer' = "now" \/ poll' # NoPoll)
  BY WatchKinds
<1>2. TimerOrPoll' /\ OffIsOver' /\ AwaitedIsWatched' /\ StaleIsRepeated'
  BY <1>1 DEF TimerOrPoll, OffIsOver, AwaitedIsWatched, StaleIsRepeated
<1>3. StartsAreFresh' /\ ReplayIsPolled'
  BY <1>1 DEF StartsAreFresh, ReplayIsPolled
<1>4. DelaysAreShort'
  BY DEF DelaysAreShort
<1>5. DelaysEndInTime'
  <2>1. \A e \in Open(t') : e \in Entries /\ t'.unanswered[e].waits
    BY DEF Open
  <2>2. QED
    BY <1>4, <2>1 DEF DelaysAreShort, DelaysEndInTime
<1>6. SettlesInTime'
  <2>1. t'.settle \in Nat /\ t'.settle <= Settle
    BY DEF TypeInv, Types, Trackeds
  <2>2. QED
    BY <2>1, TimeFacts DEF SettlesInTime
<1>7. AwaitsInTime' /\ AwaitsAPoll'
  BY <1>1, TimeFacts DEF AwaitsInTime, AwaitsAPoll
<1>8. QED
  BY <1>2, <1>3, <1>4, <1>5, <1>6, <1>7 DEF PollInv

LEMMA PollInvDrops ==
  TypeInv /\ PollInv /\ Drops => PollInv'
<1> SUFFICES ASSUME TypeInv, PollInv, Drops PROVE PollInv'
  OBVIOUS
<1>1. /\ UNCHANGED <<viewing, watch, poll, timer, again, polled, startedFor, behind, refused>>
      /\ t'.settle = t.settle /\ t'.replaying = t.replaying
      /\ \A c \in Starts : call'[c] = call[c]
  BY DEF Drops, poller
<1>2. \A e \in Entries : \/ t'.unanswered[e] \in {t.unanswered[e], NoEntry}
                         \/ viewing /\ t'.unanswered[e] = NewEntry(FALSE)
  BY DEF Drops
<1>3. Resuming' <=> Resuming
  BY <1>1 DEF Resuming
<1>4. /\ NoEntry.waits = FALSE
      /\ NewEntry(FALSE).wait = 0 /\ NewEntry(FALSE).sent = FALSE
  BY DEF NoEntry, NewEntry
<1>5. ASSUME NEW e \in Open(t')
      PROVE  /\ e \in Entries
             /\ \/ e \in Open(t) /\ t'.unanswered[e] = t.unanswered[e]
                \/ viewing /\ t'.unanswered[e].wait = 0 /\ t'.unanswered[e].sent = FALSE
  BY <1>2, <1>4, <1>5 DEF Open
<1>6. \A e \in Entries : Awaits(e)' => Awaits(e) /\ t'.unanswered[e] = t.unanswered[e]
  BY <1>1, <1>3, <1>5 DEF Awaits, Pending
<1>7. AwaitedIsWatched'
  BY <1>1, <1>3, <1>5 DEF PollInv, AwaitedIsWatched
<1>8. DelaysAreShort' /\ DelaysEndInTime'
  <2>1. DelaysAreShort'
    BY <1>2, <1>4, TimeFacts DEF PollInv, DelaysAreShort
  <2>2. DelaysEndInTime'
    <3>1. ASSUME NEW e \in Open(t') \ startedFor, t'.unanswered[e].wait > 0
          PROVE  t'.unanswered[e].wait < watch.grace
      <4>1. e \in Open(t) /\ t'.unanswered[e] = t.unanswered[e]
        <5>1. e \in Open(t')
          BY <3>1
        <5>2. t'.unanswered[e].wait # 0
          BY <3>1
        <5>3. QED
          BY <1>5, <5>1, <5>2
      <4>2. QED
        BY <3>1, <4>1 DEF PollInv, DelaysEndInTime
    <3>2. QED
      BY <1>1, <3>1 DEF DelaysEndInTime
  <2>3. QED
    BY <2>1, <2>2
<1>9. AwaitsInTime' /\ AwaitsAPoll'
  BY <1>1, <1>6 DEF PollInv, AwaitsInTime, AwaitsAPoll
<1>10. QED
  BY <1>1, <1>7, <1>8, <1>9
  DEF PollInv, TimerOrPoll, OffIsOver, StaleIsRepeated, StartsAreFresh, ReplayIsPolled, SettlesInTime

LEMMA PollInvLeaves ==
  TypeInv /\ PollInv /\ Leaves => PollInv'
<1> SUFFICES ASSUME TypeInv, PollInv, Leaves PROVE PollInv'
  OBVIOUS
<1>1. /\ UNCHANGED <<poll, timer, again, polled, startedFor, behind, refused>>
      /\ \A c \in Starts : call'[c] = call[c]
      /\ t'.settle = t.settle /\ t'.unanswered = t.unanswered /\ (viewing' => viewing)
  BY DEF Leaves, history
<1>2. (Resuming' <=> Resuming) /\ Open(t') = Open(t)
  BY <1>1 DEF Resuming, Open
<1>3. DelaysAreShort'
  BY <1>1 DEF PollInv, DelaysAreShort
<1>4. CASE watch' = watch /\ (t'.replaying => t.replaying)
  <2>1. \A e \in Entries : Awaits(e)' <=> Awaits(e)
    BY <1>1, <1>2, <1>4 DEF Awaits, Pending
  <2>2. QED
    BY <1>1, <1>2, <1>3, <1>4, <2>1
    DEF PollInv, TimerOrPoll, OffIsOver, AwaitedIsWatched, StaleIsRepeated, StartsAreFresh,
        ReplayIsPolled, DelaysEndInTime, SettlesInTime, AwaitsInTime, AwaitsAPoll
<1>5. CASE watch' = NoWatch /\ ~t'.replaying /\ ~viewing' /\ ~Resuming /\ Open(t) = {}
  <2>1. ~watch'.watched
    BY <1>5, WatchKinds
  <2>2. StartsAreFresh'
    BY <1>1, <1>5 DEF StartsAreFresh, Resuming
  <2>3. DelaysEndInTime'
    BY <1>2, <1>5 DEF DelaysEndInTime
  <2>4. \A e \in Entries : ~Awaits(e)'
    BY <2>1 DEF Awaits
  <2>5. QED
    BY <1>1, <1>2, <1>3, <1>5, <2>1, <2>2, <2>3, <2>4
    DEF PollInv, TimerOrPoll, OffIsOver, AwaitedIsWatched, StaleIsRepeated,
        ReplayIsPolled, SettlesInTime, AwaitsInTime, AwaitsAPoll
<1>6. QED
  BY <1>4, <1>5 DEF Leaves

LEMMA PollInvPollBegin ==
  TypeInv /\ PollInv /\ PollBegin => PollInv'
<1> SUFFICES ASSUME TypeInv, PollInv, PollBegin PROVE PollInv'
  OBVIOUS
<1>1. /\ UNCHANGED <<call, viewing, watch, t, startedFor, behind, refused>>
      /\ timer # "off" /\ poll = NoPoll /\ timer' = "off"
  BY DEF PollBegin, history
<1>2. (Resuming' <=> Resuming) /\ \A e \in Entries : Awaits(e)' <=> Awaits(e)
  BY <1>1 DEF Resuming, Awaits, Pending
<1>3. /\ AwaitedIsWatched' /\ StartsAreFresh' /\ DelaysAreShort' /\ DelaysEndInTime'
      /\ SettlesInTime' /\ AwaitsInTime' /\ TimerOrPoll'
  BY <1>1, <1>2 DEF PollInv, AwaitedIsWatched, StartsAreFresh, DelaysAreShort, DelaysEndInTime,
     SettlesInTime, AwaitsInTime, TimerOrPoll
<1>4. CASE Polls(watch)
  <2>1. poll' = [step |-> "asked", gen |-> watch.gen, from |-> watch.cursor]
    BY <1>4 DEF PollBegin
  <2>2. poll' # NoPoll /\ poll'.gen = watch.gen
    BY <2>1, WatchKinds
  <2>3. QED
    BY <1>1, <1>3, <2>2
    DEF PollInv, OffIsOver, StaleIsRepeated, ReplayIsPolled, AwaitsAPoll
<1>5. CASE ~Polls(watch)
  <2>1. poll' = NoPoll
    BY <1>1, <1>5 DEF PollBegin
  <2>2. watch.watched => ~(watch.grace > 0)
    BY <1>5 DEF Polls
  <2>3. ReplayIsPolled'
    BY <1>1, <2>2, TimeFacts DEF PollInv, ReplayIsPolled, AwaitedIsWatched
  <2>4. AwaitsAPoll'
    BY <1>1, <1>2, <2>2 DEF PollInv, AwaitsInTime, AwaitsAPoll, Awaits
  <2>5. QED
    BY <1>1, <1>3, <1>5, <2>1, <2>3, <2>4 DEF PollInv, OffIsOver, StaleIsRepeated
<1>6. QED
  BY <1>4, <1>5

LEMMA PollInvServePoll ==
  TypeInv /\ PollInv /\ ServePoll => PollInv'
<1> SUFFICES ASSUME TypeInv, PollInv, ServePoll PROVE PollInv'
  OBVIOUS
<1>1. UNCHANGED <<call, viewing, watch, timer, again, polled, t, startedFor, behind, refused>>
  BY DEF ServePoll, history
<1>2. poll # NoPoll /\ poll' # NoPoll /\ poll'.gen = poll.gen
  BY WatchKinds DEF ServePoll
<1>3. (Resuming' <=> Resuming) /\ \A e \in Entries : Awaits(e)' <=> Awaits(e)
  BY <1>1 DEF Resuming, Awaits, Pending
<1>4. QED
  BY <1>1, <1>2, <1>3
  DEF PollInv, TimerOrPoll, OffIsOver, AwaitedIsWatched, StaleIsRepeated, StartsAreFresh,
      ReplayIsPolled, DelaysAreShort, DelaysEndInTime, SettlesInTime, AwaitsInTime, AwaitsAPoll

LEMMA PollInvPollFails ==
  TypeInv /\ PollInv /\ PollFails => PollInv'
<1> SUFFICES ASSUME TypeInv, PollInv, PollFails PROVE PollInv'
  OBVIOUS
<1>1. /\ UNCHANGED <<call, viewing, watch, again, t, startedFor, refused>>
      /\ poll' = NoPoll /\ behind' = TRUE
      /\ timer' = IF watch.watched THEN "later" ELSE "off"
  BY DEF PollFails
<1>2. (Resuming' <=> Resuming) /\ \A e \in Entries : ~Awaits(e)'
  BY <1>1 DEF Resuming, Awaits
<1>3. QED
  BY <1>1, <1>2
  DEF PollInv, TimerOrPoll, OffIsOver, AwaitedIsWatched, StaleIsRepeated, StartsAreFresh,
      ReplayIsPolled, DelaysAreShort, DelaysEndInTime, SettlesInTime, AwaitsInTime, AwaitsAPoll

LEMMA PollInvTick ==
  TypeInv /\ PollInv /\ Tick => PollInv'
<1> SUFFICES ASSUME TypeInv, PollInv, Tick PROVE PollInv'
  OBVIOUS
<1>1. /\ poll = NoPoll /\ timer # "now" /\ (timer = "later" => polled) /\ polled' = FALSE
      /\ UNCHANGED <<call, viewing, poll, timer, again, startedFor, behind, refused>>
  BY DEF Tick, history
<1>2. ~Resuming /\ ~Resuming' /\ startedFor = {}
  <2>1. \A c \in Calls : call[c] = "none"
    BY DEF Tick
  <2>2. QED
    BY <1>1, <2>1, CallKinds, TimeFacts DEF Resuming
<1>3. /\ t'.settle = Down(t.settle) /\ t'.replaying = t.replaying
      /\ \A e \in Entries :
           \/ t'.unanswered[e] = t.unanswered[e] /\ ~t.unanswered[e].waits
           \/ /\ t.unanswered[e] \in Entered /\ t'.unanswered[e] \in Entered
              /\ t'.unanswered[e] = [t.unanswered[e] EXCEPT !.wait = Down(t.unanswered[e].wait)]
      /\ \/ ~watch.watched /\ watch' = watch
         \/ /\ watch \in Watches /\ watch' \in Watches
            /\ watch'.gen = watch.gen
            /\ watch'.state = watch.state /\ watch'.grace = Down(watch.grace)
  BY TickFacts
<1>4. ASSUME NEW e \in Entries
      PROVE  /\ t'.unanswered[e].waits = t.unanswered[e].waits
             /\ t'.unanswered[e].waits =>
                  /\ t.unanswered[e].wait \in Nat /\ t'.unanswered[e].wait = Down(t.unanswered[e].wait)
                  /\ t'.unanswered[e].sent = t.unanswered[e].sent
                  /\ t'.unanswered[e].tries = t.unanswered[e].tries
                  /\ t'.unanswered[e].spent = t.unanswered[e].spent
  <2> DEFINE m == t.unanswered[e]
             n == t'.unanswered[e]
             d == Down(m.wait)
  <2>1. CASE m \in Entered /\ n = [m EXCEPT !.wait = d]
    <3>1. m.wait \in Nat /\ m.waits = TRUE
      BY <2>1 DEF Entered
    <3> HIDE DEF m, n, d
    <3>2. n.wait = d /\ n.waits = m.waits /\ n.sent = m.sent /\ n.tries = m.tries /\ n.spent = m.spent
      BY <2>1 DEF Entered
    <3>3. QED
      BY <3>1, <3>2 DEF m, n, d
  <2>2. CASE n = m /\ ~m.waits
    BY <2>2
  <2>3. QED
    BY <1>3, <2>1, <2>2
<1>5. Open(t') = Open(t)
  BY <1>4 DEF Open
<1>6. watch'.watched <=> watch.watched
  BY <1>3, WatchKinds
<1>7. watch.watched => watch.grace \in Nat /\ watch'.grace = Down(watch.grace) /\ watch'.state = watch.state
  BY <1>3, TimeFacts
<1>8. TimerOrPoll' /\ StaleIsRepeated'
  BY <1>1 DEF PollInv, TimerOrPoll, StaleIsRepeated
<1>9. OffIsOver'
  <2>1. (watch.watched /\ timer = "off") => watch.state \in Asleep /\ watch.grace = 0
    BY <1>1, <1>7 DEF PollInv, OffIsOver, Polls
  <2>2. QED
    BY <1>1, <1>6, <1>7, <2>1, DownFacts DEF OffIsOver, Polls
<1>10. AwaitedIsWatched'
  BY <1>1, <1>2, <1>3, <1>5, <1>6 DEF PollInv, AwaitedIsWatched
<1>11. StartsAreFresh' /\ ReplayIsPolled'
  BY <1>1, <1>2, <1>3 DEF PollInv, StartsAreFresh, ReplayIsPolled, Resuming
<1>12. DelaysAreShort'
  <2> SUFFICES ASSUME NEW e \in Entries, t'.unanswered[e].waits
               PROVE  t'.unanswered[e].wait < Grace
    BY DEF DelaysAreShort
  <2>1. t.unanswered[e].wait \in Nat /\ t.unanswered[e].wait < Grace
    BY <1>4 DEF PollInv, DelaysAreShort
  <2>2. t'.unanswered[e].wait = Down(t.unanswered[e].wait)
    BY <1>4
  <2>3. QED
    BY <2>1, <2>2, DownFacts, TimeFacts
<1>13. DelaysEndInTime'
  <2> SUFFICES ASSUME NEW e \in Open(t), t'.unanswered[e].wait > 0
               PROVE  t'.unanswered[e].wait < watch'.grace
    BY <1>1, <1>2, <1>5 DEF DelaysEndInTime
  <2>1. e \in Entries /\ t'.unanswered[e].waits /\ watch.watched
    BY <1>4 DEF Open, PollInv, AwaitedIsWatched
  <2> DEFINE w == t.unanswered[e].wait
  <2>2. w \in Nat /\ t'.unanswered[e].wait = Down(w)
    BY <1>4, <2>1
  <2>3. w > 0 => w < watch.grace
    BY <1>2 DEF PollInv, DelaysEndInTime
  <2> HIDE DEF w
  <2>4. w > 0 /\ Down(w) = w - 1
    BY <2>2, DownFacts
  <2>5. watch.grace > 0 /\ watch.grace \in Nat
    BY <1>7, <2>1, <2>2, <2>3, <2>4
  <2>6. watch'.grace = watch.grace - 1
    BY <1>7, <2>1, <2>5, DownFacts
  <2>7. QED
    BY <2>2, <2>3, <2>4, <2>5, <2>6
<1>14. SettlesInTime'
  <2> SUFFICES ASSUME t'.settle > 0, watch.watched, ~refused
               PROVE  t'.settle < watch'.grace
    BY <1>1, <1>6 DEF SettlesInTime
  <2>1. t.settle \in Nat /\ t'.settle = Down(t.settle)
    BY <1>3, TimeFacts
  <2>2. t.settle > 0 /\ t'.settle = t.settle - 1
    BY <2>1, DownFacts
  <2>3. t.settle < watch.grace
    BY <2>2 DEF PollInv, SettlesInTime
  <2>4. watch.grace \in Nat /\ watch.grace > 0 /\ watch'.grace = watch.grace - 1
    BY <1>7, <2>1, <2>2, <2>3, DownFacts
  <2>5. QED
    BY <2>1, <2>2, <2>3, <2>4
<1>15. ASSUME NEW e \in Entries, Awaits(e)'
       PROVE  /\ watch'.grace > 0 /\ timer = "later"
  <2>1. Awaits(e) /\ e \in Open(t)
    BY <1>1, <1>2, <1>4, <1>5, <1>6, <1>7, <1>15 DEF Awaits, Pending, Open
  <2>2. watch.watched /\ watch.state \in Asleep /\ ~refused /\ watch.grace > 0
    BY <2>1 DEF PollInv, AwaitsInTime, Awaits
  <2>3. timer = "later"
    BY <1>1, <2>2, TimeFacts DEF PollInv, OffIsOver, Polls
  <2>4. t.unanswered[e].wait > 0 \/ t.settle > 0
    BY <1>1, <2>1, <2>3 DEF PollInv, AwaitsAPoll
  <2>5. watch.grace > 1
    <3>1. CASE t.unanswered[e].wait > 0
      <4>1. t.unanswered[e].wait < watch.grace /\ t.unanswered[e].wait \in Nat
        BY <1>2, <2>1, <3>1, TimeFacts DEF PollInv, DelaysEndInTime, Open
      <4>2. QED
        BY <1>7, <2>2, <3>1, <4>1
    <3>2. CASE t.settle > 0
      <4>1. t.settle < watch.grace /\ t.settle \in Nat
        BY <2>2, <3>2, TimeFacts DEF PollInv, SettlesInTime
      <4>2. QED
        BY <1>7, <2>2, <3>2, <4>1
    <3>3. QED
      BY <2>4, <3>1, <3>2
  <2>6. QED
    BY <1>7, <2>2, <2>3, <2>5, DownFacts
<1>16. AwaitsInTime' /\ AwaitsAPoll'
  BY <1>1, <1>15 DEF AwaitsInTime, AwaitsAPoll
<1>17. QED
  BY <1>8, <1>9, <1>10, <1>11, <1>12, <1>13, <1>14, <1>16 DEF PollInv

LEMMA PollInvStartFails ==
  ASSUME NEW c \in Calls
  PROVE  TypeInv /\ PollInv /\ StartFails(c) => PollInv'
<1> SUFFICES ASSUME TypeInv, PollInv, StartFails(c) PROVE PollInv'
  OBVIOUS
<1>1. /\ UNCHANGED <<viewing, watch, poll, timer, again, polled, behind>>
      /\ startedFor' = IF c = AutoStart THEN {} ELSE startedFor
      /\ refused' = (refused \/ c = AutoStart)
      /\ c \in Starts /\ call[c] = "failed"
      /\ call' = [call EXCEPT ![c] = "none"]
  BY DEF StartFails, poller
<1>2. /\ t'.settle = Settle /\ t'.replaying = t.replaying
      /\ \A e \in Entries :
           \/ t'.unanswered[e] = t.unanswered[e] /\ (e \in SpentFor(c) => ~t.unanswered[e].waits)
           \/ /\ t.unanswered[e] \in Entered /\ t'.unanswered[e] \in Entered
              /\ t'.unanswered[e].spent /\ t'.unanswered[e].wait = t.unanswered[e].wait
  BY StartFailsFacts
<1>3. \A a \in Starts : call'[a] # "none" => call[a] # "none"
  BY <1>1, CallKinds DEF TypeInv, Types
<1>4. Resuming
  BY <1>1 DEF Resuming
<1>5. ASSUME NEW e \in Open(t')
      PROVE  /\ e \in Open(t) /\ t'.unanswered[e] = t.unanswered[e] /\ e \notin SpentFor(c)
  BY <1>2, <1>5 DEF Open
<1>6. c # AutoStart => watch.watched /\ watch.grace = Grace
  BY <1>1 DEF PollInv, StartsAreFresh
<1>7. AwaitedIsWatched'
  BY <1>1, <1>2, <1>4, <1>5 DEF PollInv, AwaitedIsWatched
<1>8. StartsAreFresh'
  BY <1>1, <1>3 DEF PollInv, StartsAreFresh
<1>9. DelaysAreShort'
  <2> SUFFICES ASSUME NEW e \in Entries, t'.unanswered[e].waits
               PROVE  t'.unanswered[e].wait < Grace
    BY DEF DelaysAreShort
  <2>1. t.unanswered[e].waits /\ t'.unanswered[e].wait = t.unanswered[e].wait
    BY <1>2, EntryKinds DEF Entered
  <2>2. QED
    BY <2>1 DEF PollInv, DelaysAreShort
<1>10. DelaysEndInTime'
  <2> SUFFICES ASSUME NEW e \in Open(t'), e \notin startedFor', t'.unanswered[e].wait > 0
               PROVE  t'.unanswered[e].wait < watch.grace
    BY <1>1 DEF DelaysEndInTime
  <2>1. e \in Open(t) /\ t'.unanswered[e] = t.unanswered[e] /\ e \notin startedFor
    BY <1>1, <1>5 DEF SpentFor
  <2>2. QED
    BY <2>1 DEF PollInv, DelaysEndInTime
<1>11. ~refused' => c # AutoStart
  BY <1>1
<1>12. SettlesInTime'
  BY <1>1, <1>2, <1>6, <1>11, TimeFacts DEF SettlesInTime
<1>13. AwaitsInTime' /\ AwaitsAPoll'
  BY <1>1, <1>2, <1>6, <1>11, TimeFacts DEF AwaitsInTime, AwaitsAPoll, Awaits
<1>14. TimerOrPoll' /\ OffIsOver' /\ StaleIsRepeated' /\ ReplayIsPolled'
  BY <1>1, <1>2 DEF PollInv, TimerOrPoll, OffIsOver, StaleIsRepeated, ReplayIsPolled
<1>15. QED
  BY <1>7, <1>8, <1>9, <1>10, <1>12, <1>13, <1>14 DEF PollInv

LEMMA PollInvIgnored ==
  ASSUME TypeInv, PollInv, poll.step = "answered", poll' = NoPoll, PollIgnored,
         UNCHANGED <<viewing, refused>>
  PROVE  PollInv'
<1>1. /\ UNCHANGED <<t, watch, call, startedFor, behind>>
      /\ timer' = NextPoll(FALSE, watch)
      /\ ~(watch.watched /\ watch.gen = poll.gen)
  BY DEF PollIgnored, Accepted
<1>2. poll # NoPoll
  BY WatchKinds
<1>3. watch.watched => timer' = "now"
  BY <1>1, <1>2 DEF PollInv, StaleIsRepeated, NextPoll
<1>4. (Resuming' <=> Resuming) /\ \A e \in Entries : Awaits(e)' <=> Awaits(e)
  BY <1>1 DEF Resuming, Awaits, Pending
<1>5. \A e \in Entries : Awaits(e) => watch.watched
  BY DEF Awaits
<1>6. ReplayIsPolled'
  BY <1>1, <1>3 DEF PollInv, AwaitedIsWatched, ReplayIsPolled
<1>7. QED
  BY <1>1, <1>3, <1>4, <1>5, <1>6
  DEF PollInv, TimerOrPoll, OffIsOver, AwaitedIsWatched, StaleIsRepeated, StartsAreFresh,
      DelaysAreShort, DelaysEndInTime, SettlesInTime, AwaitsInTime, AwaitsAPoll

\* What an accepted answer leaves of an entry.
LEMMA AcceptedEntries ==
  ASSUME TypeInv, poll.step = "answered", PollAccepted, NEW e \in Entries
  PROVE  /\ Read.unanswered[e] \in Entry /\ t'.unanswered[e] \in Entry
         /\ e \in Open(Read) => \/ e \in Open(t) /\ Read.unanswered[e] = t.unanswered[e]
                                \/ Read.unanswered[e].wait = 0
         /\ e \in Open(t') =>
              /\ e \in Open(Read)
              /\ \/ t'.unanswered[e] = Read.unanswered[e]
                 \/ StartsNow /\ e \in Due(Read)
         /\ t'.unanswered[e].waits =>
              \/ t'.unanswered[e].wait < Grace
              \/ t.unanswered[e].waits /\ t'.unanswered[e].wait = t.unanswered[e].wait
<1> DEFINE m == t.unanswered[e]
           r == Read.unanswered[e]
           n == t'.unanswered[e]
<1>1. /\ Read \in Trackeds /\ t' \in Trackeds /\ m \in Entry /\ r \in Entry /\ n \in Entry
  <2>1. Read \in Trackeds /\ t' \in Trackeds /\ t \in Trackeds
    BY AcceptedFacts DEF TypeInv, Types
  <2>2. QED
    BY <2>1 DEF Trackeds
<1>2. r = m \/ r = NoEntry \/ r = NewEntry(TRUE)
  BY AcceptedFacts
<1>3. /\ poll.more => t'.unanswered = Read.unanswered
      /\ ~poll.more => n = IF poll.state \notin Asleep THEN Taken(e, r)
                           ELSE IF MayResume(Stated, poll.state) /\ e \in Due(Read) THEN Tried(r)
                           ELSE r
  BY AcceptedFacts
<1>4. n = r \/ n = Taken(e, r) \/ (StartsNow /\ e \in Due(Read) /\ n = Tried(r))
  BY <1>3 DEF StartsNow
<1>5. NoEntry.waits = FALSE /\ NewEntry(TRUE).wait = 0
  BY DEF NoEntry, NewEntry
<1>6. e \in Open(Read) => \/ e \in Open(t) /\ r = m
                          \/ r.wait = 0
  <2> SUFFICES ASSUME e \in Open(Read) PROVE (e \in Open(t) /\ r = m) \/ r.wait = 0
    OBVIOUS
  <2>1. r.waits /\ ~r.spent
    BY DEF Open
  <2>2. r # NoEntry
    BY <1>5, <2>1
  <2>3. CASE r = m
    BY <2>1, <2>3 DEF Open
  <2>4. CASE r = NewEntry(TRUE)
    BY <1>5, <2>4
  <2>5. QED
    BY <1>2, <2>2, <2>3, <2>4
<1>7. e \in Open(t') => e \in Open(Read) /\ (n = r \/ (StartsNow /\ e \in Due(Read)))
  <2> SUFFICES ASSUME e \in Open(t')
               PROVE  e \in Open(Read) /\ (n = r \/ (StartsNow /\ e \in Due(Read)))
    OBVIOUS
  <2>1. n.waits /\ ~n.spent
    BY DEF Open
  <2>2. CASE n = r
    BY <2>1, <2>2 DEF Open
  <2>3. CASE n = Taken(e, r)
    <3>1. r.waits
      BY <1>1, <2>1, <2>3, TakenEntry
    <3>2. r \in Entered
      BY <1>1, <3>1, EntryKinds
    <3>3. CASE r.tries > 0
      <4>1. e # Parked => Taken(e, r).spent
        <5>1. e # Parked => Taken(e, r) = [r EXCEPT !.spent = TRUE]
          BY <3>1, <3>3 DEF Taken
        <5> HIDE DEF r
        <5>2. QED
          BY <3>2, <5>1 DEF Entered
      <4>2. e = Parked => Taken(e, r) = NoEntry
        BY <3>1, <3>3 DEF Taken
      <4>3. QED
        BY <1>5, <2>1, <2>3, <4>1, <4>2
    <3>4. CASE ~(r.tries > 0)
      BY <2>1, <2>2, <2>3, <3>1, <3>4 DEF Taken
    <3>5. QED
      BY <3>3, <3>4
  <2>4. CASE StartsNow /\ e \in Due(Read)
    BY <2>4 DEF Due
  <2>5. QED
    BY <1>4, <2>2, <2>3, <2>4
<1>8. n.waits => \/ n.wait < Grace
                 \/ m.waits /\ n.wait = m.wait
  <2> SUFFICES ASSUME n.waits PROVE n.wait < Grace \/ (m.waits /\ n.wait = m.wait)
    OBVIOUS
  <2>1. CASE StartsNow /\ e \in Due(Read) /\ n = Tried(r)
    <3>1. r \in Entered /\ r.tries < Len(Delays)
      BY <1>1, <2>1, OpenEntries
    <3>2. QED
      BY <2>1, <3>1, TriedEntry
  <2>2. CASE n = r \/ n = Taken(e, r)
    <3>1. r.waits /\ n.wait = r.wait
      BY <1>1, <2>2, TakenEntry
    <3>2. QED
      BY <1>2, <1>5, <3>1, TimeFacts
  <2>3. QED
    BY <1>4, <2>1, <2>2
<1>9. QED
  BY <1>1, <1>6, <1>7, <1>8

LEMMA PollInvAccepted ==
  ASSUME TypeInv, TypeInv', PollInv, poll.step = "answered", poll' = NoPoll, PollAccepted,
         UNCHANGED <<viewing, refused>>
  PROVE  PollInv'
<1>1. /\ poll \in AnsweredPolls /\ watch \in Watches /\ watch.watched
      /\ Read \in Trackeds /\ t' \in Trackeds /\ t'.settle = t.settle
      /\ (t'.replaying => ~Releases(Read, poll.state) /\ poll.more)
      /\ Stated \in Trackeds /\ Stated.unanswered = Read.unanswered /\ Stated.settle = t.settle
  BY AcceptedFacts, WatchKinds
<1>2. \/ /\ Releases(Read, poll.state) /\ watch' = NoWatch
         /\ ~viewing /\ ~Resuming /\ Open(Read) = {}
      \/ /\ ~Releases(Read, poll.state) /\ watch' \in Watches /\ watch'.watched
         /\ watch'.state = poll.state /\ watch'.grace = watch.grace
  BY AcceptedFacts, WatchKinds
<1>3. ~NoWatch.watched
  BY WatchKinds
<1>4. \A e \in Entries :
        /\ e \in Open(Read) => (e \in Open(t) /\ Read.unanswered[e] = t.unanswered[e])
                               \/ Read.unanswered[e].wait = 0
        /\ e \in Open(t') => /\ e \in Open(Read)
                             /\ t'.unanswered[e] = Read.unanswered[e] \/ (StartsNow /\ e \in Due(Read))
        /\ t'.unanswered[e].waits =>
             \/ t'.unanswered[e].wait < Grace
             \/ t.unanswered[e].waits /\ t'.unanswered[e].wait = t.unanswered[e].wait
        /\ t'.unanswered[e] \in Entry
  BY AcceptedEntries
<1>5. StartsNow => /\ ~Resuming /\ Due(Read) # {} /\ startedFor' = Due(Read)
                   /\ call' = [call EXCEPT ![AutoStart] = "minting"]
  BY AcceptedFacts DEF PollAccepted
<1>6. ~StartsNow => startedFor' = startedFor /\ call' = call
  BY DEF PollAccepted
<1>7. \A c \in Starts \ {AutoStart} : call'[c] = call[c]
  BY <1>5, <1>6, CallKinds DEF TypeInv, Types
<1>8. (StartsNow => Resuming') /\ (~StartsNow => (Resuming' <=> Resuming))
  <2>1. StartsNow => call'[AutoStart] = "minting"
    BY <1>5, CallKinds DEF TypeInv, Types
  <2>2. StartsNow => Resuming'
    BY <2>1, CallKinds DEF Resuming
  <2>3. ~StartsNow => (Resuming' <=> Resuming)
    BY <1>6 DEF Resuming
  <2>4. QED
    BY <2>2, <2>3
<1>9. \A e \in Open(t') : e \in Entries
  BY DEF Open
<1>10. Due(Read) \subseteq Open(Read) /\ Due(Stated) = Due(Read)
  <2>1. Due(Stated) = Due(Read)
    BY <1>1, SameEntries DEF AnsweredPolls
  <2>2. QED
    BY <2>1 DEF Due
<1>11. /\ behind' = poll.more /\ refused' = refused /\ viewing' = viewing /\ poll' = NoPoll
       /\ watch' = NextWatch /\ timer' = NextPoll(poll.more, NextWatch)
  BY DEF PollAccepted
<1>12. TimerOrPoll' /\ StaleIsRepeated'
  BY <1>11 DEF TimerOrPoll, StaleIsRepeated
<1>13. OffIsOver'
  <2>1. timer' = "off" => ~Polls(watch')
    BY <1>11 DEF NextPoll
  <2>2. QED
    BY <2>1 DEF OffIsOver
<1>14. AwaitedIsWatched'
  <2>1. CASE watch'.watched
    BY <2>1 DEF AwaitedIsWatched
  <2>2. CASE ~watch'.watched
    <3>1. Releases(Read, poll.state) /\ ~viewing /\ ~Resuming /\ Open(Read) = {}
      BY <1>2, <2>2
    <3>2. Open(t') = {}
      BY <1>4, <1>9, <3>1
    <3>3. ~t'.replaying /\ ~viewing'
      BY <1>1, <1>11, <3>1
    <3>4. ~Resuming'
      BY <1>5, <1>8, <1>10, <3>1
    <3>5. QED
      BY <3>2, <3>3, <3>4 DEF AwaitedIsWatched
  <2>3. QED
    BY <2>1, <2>2
<1>15. StartsAreFresh'
  BY <1>2, <1>7 DEF PollInv, StartsAreFresh, Resuming
<1>16. ReplayIsPolled'
  BY <1>1, <1>11 DEF ReplayIsPolled
<1>17. DelaysAreShort'
  BY <1>4 DEF PollInv, DelaysAreShort
<1>18. DelaysEndInTime'
  <2> SUFFICES ASSUME NEW e \in Open(t'), e \notin startedFor', t'.unanswered[e].wait > 0
               PROVE  t'.unanswered[e].wait < watch'.grace
    BY DEF DelaysEndInTime
  <2>1. e \in Entries /\ e \in Open(Read)
    BY <1>4, <1>9
  <2>2. watch'.grace = watch.grace
    BY <1>2, <2>1
  <2>3. e \notin startedFor /\ t'.unanswered[e] = Read.unanswered[e]
    BY <1>4, <1>5, <1>6, <2>1, TimeFacts
  <2>4. t'.unanswered[e].wait # 0
    OBVIOUS
  <2>5. e \in Open(t) /\ Read.unanswered[e] = t.unanswered[e]
    BY <1>4, <2>1, <2>3, <2>4
  <2>6. QED
    BY <2>2, <2>3, <2>5 DEF PollInv, DelaysEndInTime
<1>19. SettlesInTime'
  BY <1>1, <1>2, <1>3, <1>11 DEF PollInv, SettlesInTime
<1>20. ASSUME NEW e \in Entries, Awaits(e)'
       PROVE  t'.unanswered[e].wait > 0 \/ t'.settle > 0
  <2>1. /\ e \in Open(t') /\ t'.unanswered[e].sent /\ t'.unanswered[e].tries < Len(Delays)
        /\ watch'.watched /\ watch'.state \in Asleep /\ ~Resuming' /\ ~poll.more
    BY <1>11, <1>20 DEF Awaits, Pending
  <2>2. ~StartsNow /\ ~Resuming /\ poll.state \in Asleep
    BY <1>2, <1>3, <1>8, <2>1
  <2>3. e \in Open(Read) /\ t'.unanswered[e] = Read.unanswered[e]
    BY <1>4, <2>1, <2>2
  <2>4. t.settle # 0 \/ Due(Read) = {}
    BY <1>1, <1>10, <2>1, <2>2 DEF StartsNow, MayResume
  <2>5. Due(Read) = {} => t'.unanswered[e].wait # 0
    BY <2>1, <2>3 DEF Due
  <2>6. t'.unanswered[e].wait \in Nat /\ t.settle \in Nat
    <3>1. t'.unanswered[e].waits
      BY <2>1 DEF Open
    <3>2. t'.unanswered[e] \in Entered
      BY <1>4, <3>1, EntryKinds
    <3>3. QED
      BY <3>2, TimeFacts DEF Entered
  <2>7. QED
    BY <1>1, <2>4, <2>5, <2>6
<1>21. AwaitsAPoll'
  BY <1>20 DEF AwaitsAPoll
<1>22. AwaitsInTime'
  <2> SUFFICES ASSUME NEW e \in Entries, Awaits(e)' PROVE watch'.grace > 0
    BY DEF AwaitsInTime
  <2>1. e \in Open(t') /\ watch'.watched /\ ~Resuming' /\ ~refused'
    BY DEF Awaits, Pending
  <2>2. startedFor' = {}
    BY <2>1, CallKinds DEF TypeInv, StartedByAuto, Resuming
  <2>3. watch'.grace \in Nat
    <3>1. watch.grace \in Nat
      BY <1>1, TimeFacts
    <3>2. watch'.grace = watch.grace
      BY <1>2, <1>3, <2>1
    <3>3. QED
      BY <3>1, <3>2
  <2>4. CASE t'.unanswered[e].wait > 0
    <3>1. t'.unanswered[e].wait < watch'.grace
      BY <1>18, <2>1, <2>2, <2>4 DEF DelaysEndInTime
    <3>2. t'.unanswered[e].wait \in Nat
      <4>1. t'.unanswered[e].waits
        BY <2>1 DEF Open
      <4>2. t'.unanswered[e] \in Entered
        BY <1>4, <4>1, EntryKinds
      <4>3. QED
        BY <4>2 DEF Entered
    <3>3. QED
      BY <2>3, <3>1, <3>2
  <2>5. CASE t'.settle > 0
    <3>1. t'.settle < watch'.grace
      BY <1>19, <2>1, <2>5 DEF SettlesInTime
    <3>2. t'.settle \in Nat
      BY <1>1, TimeFacts
    <3>3. QED
      BY <2>3, <3>1, <3>2
  <2>6. QED
    BY <1>20, <2>4, <2>5
<1>23. QED
  BY <1>12, <1>13, <1>14, <1>15, <1>16, <1>17, <1>18, <1>19, <1>21, <1>22 DEF PollInv

LEMMA PollInvStep ==
  TypeInv /\ PollInv /\ [Next]_vars => PollInv'
<1> SUFFICES ASSUME TypeInv, PollInv, [Next]_vars PROVE PollInv'
  OBVIOUS
<1>1. TypeInv'
  BY TypesStep
<1>2. CASE Quiet \/ PollBegin \/ ServePoll \/ PollFails \/ Leaves \/ Tick
  BY <1>2, PollInvQuiet, PollInvPollBegin, PollInvServePoll, PollInvPollFails, PollInvLeaves,
     PollInvTick
<1>3. CASE PollReturns
  <2>1. /\ poll.step = "answered" /\ poll' = NoPoll /\ UNCHANGED <<viewing, refused>>
        /\ PollAccepted \/ PollIgnored
    BY <1>3, PollReturnsCases
  <2>2. QED
    BY <1>1, <2>1, PollInvIgnored, PollInvAccepted
<1>4. CASE DropSteps
  BY <1>4, DropStepsDrop, PollInvDrops
<1>5. TimerOrPoll /\ DelaysAreShort
  BY DEF PollInv
<1>6. ASSUME NEW tr, NEW s, Pokes(tr, s) PROVE PollInv'
  <2>1. /\ tr \in Trackeds /\ s \in States /\ StateAndPoke(tr, s) /\ poll' = poll
        /\ \A e \in Entries : /\ t'.unanswered[e].waits = t.unanswered[e].waits
                              /\ t'.unanswered[e].wait = t.unanswered[e].wait
    BY <1>6 DEF Pokes
  <2>2. /\ watch' \in Watches /\ watch'.grace = Grace /\ refused' = FALSE
        /\ timer' = (IF poll = NoPoll THEN "now" ELSE timer)
        /\ again' = (again \/ poll # NoPoll)
    BY <2>1, PokeFacts DEF TypeInv
  <2>3. QED
    BY <1>1, <1>5, <2>1, <2>2, PollInvFresh
<1>7. CASE OpenReturns
  <2>1. /\ watch' \in Watches /\ watch'.grace = Grace /\ t'.unanswered = t.unanswered
    BY <1>7, OpenReturnsFacts
  <2>2. /\ refused' = FALSE /\ poll' = poll
        /\ timer' = (IF poll = NoPoll THEN "now" ELSE timer)
        /\ again' = (again \/ poll # NoPoll)
    BY <1>7 DEF OpenReturns, ScheduleNow
  <2>3. QED
    BY <1>1, <1>5, <2>1, <2>2, PollInvFresh
<1>8. ASSUME NEW c \in Calls, StartFails(c) PROVE PollInv'
  BY <1>8, PollInvStartFails
<1>9. QED
  BY <1>2, <1>3, <1>4, <1>6, <1>7, <1>8, StepKinds DEF PokeSteps

LEMMA TypesAreAsStated ==
  TypeInv => SessionTypeOK
<1> SUFFICES ASSUME TypeInv PROVE SessionTypeOK
  OBVIOUS
<1>1. Len(log) \in Nat /\ t \in Trackeds
  BY DEF TypeInv, Types
<1>2. watch \in {NoWatch} \cup [watched : {TRUE}, cursor : 0..Len(log), state : States,
                                grace : 0..Grace, gen : Nat]
  <2>1. CASE watch \in Watches
    <3>1. watch.cursor \in Nat /\ watch.cursor <= Len(log)
      BY <2>1, WatchKinds DEF TypeInv, ReadFromLog, Watches
    <3>2. watch.cursor \in 0..Len(log)
      BY <1>1, <3>1
    <3>3. QED
      BY <2>1, <3>2 DEF Watches
  <2>2. QED
    BY <2>1 DEF TypeInv, Types
<1>3. poll.step \in {"none", "asked", "answered"}
  BY WatchKinds DEF TypeInv, Types
<1>4. /\ t.state \in States \cup {"unknown"} /\ t.unanswered \in [Entries -> Entry]
      /\ t.parkedRestarts \in 0..MaxParkedRestarts /\ t.gap \in 0..Gap /\ t.settle \in 0..Settle
      /\ t.lastSeq \in Nat
  BY <1>1 DEF Trackeds
<1>5. t.lastSeq \in 0..Len(log)
  BY <1>1, <1>4 DEF TypeInv, ReadFromLog
<1>6. QED
  BY <1>2, <1>3, <1>4, <1>5 DEF TypeInv, Types, StartedByAuto, SessionTypeOK, CallStates

LEMMA PendingIsPolledFor ==
  TypeInv /\ PollInv => PendingIsPolled
<1> SUFFICES ASSUME TypeInv, PollInv PROVE PendingIsPolled
  OBVIOUS
<1>1. ASSUME NEW e \in Entries, Pending(e), ~Polled, ~Resuming PROVE CutShort
  <2>1. watch.watched
    BY <1>1 DEF Pending, PollInv, AwaitedIsWatched
  <2>2. timer = "off" /\ poll = NoPoll
    BY <1>1, <2>1 DEF Polled
  <2>3. ~Polls(watch)
    BY <2>1, <2>2 DEF PollInv, OffIsOver
  <2>4. watch.state \in Asleep /\ ~(watch.grace > 0)
    BY <2>1, <2>3 DEF Polls
  <2>5. behind \/ refused
    BY <1>1, <2>1, <2>4 DEF PollInv, AwaitsInTime, Awaits
  <2>6. QED
    BY <2>1, <2>3, <2>5 DEF CutShort
<1>2. ASSUME t.replaying, ~Polled PROVE CutShort
  <2>1. watch.watched
    BY <1>2 DEF PollInv, AwaitedIsWatched
  <2>2. timer = "off" /\ poll = NoPoll
    BY <1>2, <2>1 DEF Polled
  <2>3. ~Polls(watch)
    BY <2>1, <2>2 DEF PollInv, OffIsOver
  <2>4. behind
    BY <1>2, <2>2 DEF PollInv, ReplayIsPolled
  <2>5. QED
    BY <2>1, <2>3, <2>4 DEF CutShort
<1>3. QED
  BY <1>1, <1>2 DEF PendingIsPolled

(***************************************************************************)
(* As long as a message, or a turn that was cut off, is pending, the       *)
(* session is polled or a request that will see to it is under way         *)
(* (intervalFor, autoResume), and so it is while someone waits for a       *)
(* replay: whatever the delays, as long as they and the settle time are    *)
(* shorter than the grace period. It ends early only where the last poll   *)
(* failed or left more to read, or an automatic start failed.              *)
(***************************************************************************)
THEOREM WhatIsPendingIsPolled == Spec => []SessionOK
<1>1. Init => PollInv
  BY PollInvInit
<1>2. TypeInv /\ PollInv /\ [Next]_vars => PollInv'
  BY PollInvStep
<1>3. TypeInv /\ PollInv => SessionOK
  BY TypesAreAsStated, PendingIsPolledFor DEF SessionOK
<1>4. QED
  BY <1>1, <1>2, <1>3, TypesAreKept, PTL DEF Spec
=============================================================================
