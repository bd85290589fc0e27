# A verification development for l4-ide

TLA+ modules, TLC configurations and TLAPS proofs for the parts of this
repository whose correctness rests on ordering: processes that share a session
folder through files, jobs that share a registry and a store, turns, renewals and
users that interleave at every `await`, over crashes, failed writes and
restarts; and for the one machine of the language that runs over time, the
regulative fragment of the evaluator. The paths below are relative to `src/`.

## 1. The system

l4-ide is the tool chain of the L4 language and the services around it.

| Part | Where | State it keeps | Works with |
| --- | --- | --- | --- |
| Cloud agent (the *harness*) | `ts-apps/cloud-agent` | one process per run of a session; phase, queue, timers | the session folder; the Sessions API; the chat service |
| — run lease and fence | `lease.ts` | `runs/<n>.json`, `runs/<n>.lease.json`; last lease written, closed | every writer asks the fence |
| — runner | `runner.ts`, `main.ts` | phase, queue, active turn, `starting` | command reader, chat service, plugins, event log, lease |
| — command reader | `command-reader.ts` | `commands.seq`, `commands/<n>.json`, `commands.done`; high-water mark, delivered, handled above | writers: Sessions API, `dev.ts` |
| — event log | `event-log.ts` | `events/<n>.jsonl`, `head.json`; queue, delta, three timers | readers: Sessions API, VS Code |
| — git, git sync | `git.ts`, `git-sync.ts` | `repo/`, bundles, refs | turns, commands, shutdown |
| — key chain | `key-chain.ts` | the agent key, renewal timer | auth server, the fetch wrapper |
| Shared agent library | `ts-shared/legalese-agent` | turns and their sub-turns, injections, pending approvals and early decisions, permissions, edit guard | harness, VS Code, AI service, tools |
| VS Code cloud client | `ts-apps/vscode/src/cloud` | watched sessions, cursors, last seq, local git state | Sessions API |
| Decision service | `jl4-service` | registry of deployments, jobs, bundle store and its temporary directories | HTTP clients |
| Language core | `jl4-core`, `jl4-lsp`, `jl4-repl`, `jl4-mlir`, `jl4-wasm`, `jl4-query-plan` | none, or a build graph; the evaluator keeps a stack of frames, and what is left of a contract | editors and services |
| Front ends | `ts-apps/{jl4-web,webchat,webview}`, `ts-shared/*` | what is on screen | the services |

The Sessions API itself is not in the repository: what it does is taken from how
this code relies on it (`lease.ts:14-31`, `protocol/files.ts`, and `dev.ts`,
which plays its part in `--dev`).

How the parts talk. Everything between clients and harness goes through files
of the session folder, written whole (temp file and rename) or appended to and
announced by a rename; the files under work go through git bundles. Inside the
harness one event loop interleaves the poll of commands, a turn, timers and
writes at every `await`. In `jl4-service` handlers, jobs and loads are threads that
share a `TVar` and directories. Nothing else is shared.

Where it is hard, and what makes it correct:

- **Lease.** Two harnesses of one session may live at once. They must never
  write files to the folder at the same time, whatever is late or fails; a run that
  is no longer the newest must not begin a write, a git command included.
- **Event log.** Operations fail half done, the process dies between any two.
  Readers must see an append-only log: every event once, in order, no gap in
  `seq`. A failed batch must be written again.
- **Event stream.** A reader's cursor survives restarts of the writer; what it
  skips must be what it has seen.
- **Cloud session** (VS Code). Polls, answers of commands, starts and a user who comes and
  goes share one record of the session. The view must get every event once, old ones must
  not pass for news; a message sent while the session goes to sleep must be seen to, and the
  client must not start the session by itself for what the user ended.
- **Command queue.** Some commands are dealt with at once and overtake queued
  ones; `commands.done` moves only over a gapless prefix. A message must run
  at most once, in order; what is queued must survive a shutdown; every
  announced command must be dealt with in the end.
- **Runner life.** A shutdown may begin at any `await`, of the start-up too.
- **A turn.** Calls run one after another while the user writes, stops, decides
  and answers. The service must get one result for each call before the next
  words of the user; a guarded call must not run unless it was allowed; every
  turn must end, and close what it opened in the chat.
- **Key chain.** A timer, requests that came back 401 and the end of the session
  compete for one renewal. The key must be replaced before it expires, and none
  may be left behind.
- **Git sync.** A commit, a merge, the bundle, the event and the handled mark are
  separate steps. No edit may be lost, and what an event announces must be there to
  pull; a turn that was rolled back must stay so.
- **Deployments** (`jl4-service`). Requests, background jobs, lazy loads and
  a bundle store that is replaced in two steps. What is served, what is stored and
  what a client was told of versions must agree; a live version serves until it is deleted.
- **Regulative contracts.** A contract may be given its events in pieces; its answer
  must be what the contract means for all of them.

`PROJECT.json` lists every component, and under "hazards" where each of these
bites.

## 2. The modules

| Module | What it is | Code |
| --- | --- | --- |
| `SingleWriter` | abstract: a folder that runs take turns writing to | what `lease.ts` promises |
| `RunLease` | run records, leases, fence, boot, renewal, supersession, release, writes that land late | `lease.ts`, `runner.ts`, `dev.ts` |
| `LeaseTimers` | `RunLease` and the renewal timer of a harness scheduled on time | `lease.ts` `start`, `renew` |
| `RunLease_proofs` | theorems about `RunLease` and `LeaseTimers` | |
| `AppendOnlyLog` | abstract: a sequence of events that only grows | what `event-log.ts` promises |
| `EventLog` | the queue, the timers, each file operation, crash and recovery | `event-log.ts` |
| `EventStream` | `EventLog` and a reader that polls it | `event-poller.ts`, `cloud-session-manager.ts` |
| `EventStream_proofs` | theorems about `EventLog` and `EventStream`: the numbers, the append-only log, what the reader sees | |
| `CloudSession` | a session as VS Code follows it: polls, opening and leaving, commands, automatic starts | `event-poller.ts`, `cloud-session-manager.ts` |
| `CloudSession_proofs` | theorems about `CloudSession` | |
| `CommandQueue` | writers of commands, the reader, the runner's queue and turns | `command-reader.ts`, `runner.ts`, `dev.ts` |
| `CommandQueue_proofs` | theorems about `CommandQueue`: what waits is not lost, messages run once and in order | |
| `Deployments` | registry, store, jobs, deletions, loads, crash and restart | `ControlPlane.hs`, `DeploymentLoader.hs`, `BundleStore.hs`, `Application.hs` |
| `Deployments_proofs` | theorems about `Deployments` | |
| `ChatTurn` | turns, sub-turns, rounds of tools, injections, approvals, the user | `chat-service.ts`, `tool-dispatcher.ts`, `pending-interactions.ts`, `edit-guard.ts`, `register.ts` |
| `ChatTurn_proofs` | theorems about `ChatTurn` | |
| `KeyChain` | renewals, 401s, end of the agent key | `key-chain.ts` |
| `KeyChain_proofs` | theorems about `KeyChain` | |
| `GitSync` | the session's repository, the clone, turns, pushes, rollbacks | `git-sync.ts` of the harness and of VS Code |
| `GitSync_proofs` | theorems about `GitSync`: edits, pushes, events, and what was rolled back stays undone | |
| `Regulative` | a contract run over events, and what it means | `EvaluateLazy/Machine.hs` |
| `MC*` | instances for TLC | |

`EventStream` composes with `EventLog`, `LeaseTimers` with `RunLease`, each by
EXTENDS and steps of the inner module with its own variables unchanged.
The operators marked MUTANT are wrong versions of the definition they name; no
specification uses them. They show that a property notices the mistake.

### RunLease

A run's `phase` follows `Runner.run`: `checking` (`checkRun`, split at its reads),
`booting` (`RunLease.start` up to its first write), `running`, `releasing`,
`stopped`. `chain` is the promise chain `RunLease.writing`; `writing` is the
write at its head: it passes the fence in `BeginLeaseWrite`, computes
`expiresAt` there, reaches the folder in `LandLeaseWrite` and settles in
`SettleLeaseWrite` (only then the fence moves) or in `FailLeaseWrite`, before or
after it landed. Every other write is a record in `inFlight` with the time by which it must land (`Duration`):
`FileTime` for a file, `GitTime`, which may be longer than anything
else, for a git command, which asks the fence only when it starts. The interval that renews
does not wait for the renewal before, so `renewing` counts the calls that look for a newer record, up to
`MaxRenewing`. Time is a number; all harnesses share a clock and the
Sessions API's may be off by `Skew`. What is written is left out: `last` says
who wrote, and whether it was git.

`SingleWriter` tells files and git apart as the code does: a file is written by the current run, or by one that
let go; a git command is begun by one of these, and once it is under way (`busy`) it writes until it
ends, whoever is current.

`Exit` ends a process at any step, in-flight writes included; a write that was under
way may still land (`Mount`).

### LeaseTimers

Adds when the timer fires next and how often renewals failed in a row. Time
stands still while something is due, so a step is late by less than one unit.
The assumption `MaxFailed` bounds failures in a row. The lease
runs from the moment its write begins and the timer starts when the first
write has settled, so slow writes eat the margin: with the source's lengths in units
of 15 s and writes of a whole unit, a harness that loses one renewal finds its fence closed.
The instance therefore gives the lease two units more. `RenewalsFitTheTerm` is the condition in general; with the
source's 30 s, 90 s and 15 s and one failure it asks for writes of less than 7.5 s.

### EventLog, EventStream, EventStream_proofs

A token stands for one emitted event. The text of a line is the sequence of its tokens, so
coalescing of deltas, splitting at a segment's end, and order are visible, and
the content is not. `segs` are the segment files, `headFile` is `head.json`; the rest are
the fields of the class. One write is `truncate`, `append`, `roll`, `append`, `head`,
a step each, and each may fail, an append after part of the bytes. `Crash` is
possible between any two; `Open*` are the branches of `open`. Two ways a mount
may misbehave are switched on by `Faults`; `intact` is history: whether the
mount has kept what it reported as written and hidden nothing so far.
`AppendOnlyLog` promises nothing about the log once it has not.

A reader has a cursor, the last `seq` and what it has shown. Each `Poll` is one
answer of `GET /events`: the rest of the segment the cursor is in, up to what
`head.json` announces.

### CloudSession, CloudSession_proofs

One session. `watch` is its entry in `EventPoller.watched`; `poll`, `timer` and `again` are the
round under way and what follows it. `t` is `Tracked`: `unanswered` has an entry for each
message, and one (`Parked`) for a turn cut off by parking. `call[c]` is a request the client
waits for: `minting`, `asked`, then the state in the answer, or `failed`. What runs
between two awaits is one step; the answer of a list, as any other, may be out of date when it is dealt with.
`Handled` is `handleStream` as a function from one `Tracked` to the next; `WithState` is `setState`
with the release of an idle session it may bring about. The harness
and the Sessions API are external: they sleep, park, start and stop as the comments of the manager
and its tests say, a start while an old task still stops included, and a failure may be of
the request or of its answer. The log is followed by its numbers (`EventStream` has cursors and
segments). Time is what is left of each delay, in units of ten seconds; a poll or a
request takes less, the pauses between polls included. `behind` and `refused` are history: the last poll
failed or left more to read, an automatic start failed since polling was renewed. `CutShort` says that
polling of a session that is still watched ended early for one of these reasons, which `SessionOK` exempts. Left out: several
sessions in one request, rollback and answers (which behave as an abort of a turn that
is not there), MCP credentials, seeding, files sent with a message, delete.

### CommandQueue, CommandQueue_proofs

`cmd[n]` is `commands/<n>.json`, `writer[n]` the step of the process that sends it.
`tick` is the poll and dispatch under way, `work` what runs (`Runner.working`): a message
goes through `marking` (handled before its turn), `preparing`
(`starting` is set), `opening` (`activeTurn` is set too), `chatting`, `closing`.
`writes` is the chain of writes of `commands.done`, and each entry knows who awaits it.
`told`, `begun` and `aborts` are history. Rollback, apply-bundle and
add-files are one kind, `files`; answers and mcp-credentials behave as an abort
of a turn that is not there. The grace period for an unreadable command ends only for a
writer that died.

### Deployments, Deployments_proofs

An operation (`ops[o]`) is a request and the job or load it starts; `step` is where it
is. `registry` is the `TVar`, `store` and `temp` are the two directories of an id, and a
directory knows which bundles' sources are in it, what `metadata.json` says and what the
cache says. Nothing orders two operations of one id, so
all interleavings are there: two jobs in one temporary directory, a delete between a
job's steps, a load beside a job. `loose` is history: ids of which two operations
overlapped or a file operation failed; what the code cannot promise for them the properties
exempt: `RegistryOK` altogether, `LiveVersionKeepsServing` for a lazy load beside a deploy. A version
is the pair of counters in its string; `Breaks` stands for `detectBreakingChanges`. No property is about the count
or the gate: without an overlap each says what the code's next line does, and over an overlap the code keeps neither.
`removeDirectoryRecursive` has a middle in which any of the files may be gone.
An eager restart (`lazy` false) compiles before the port is opened, a lazy one
registers what the cache says.

### ChatTurn

`pc[t]` follows `start` and `runSubTurn`: `loading`, `assembling`, `streaming`, then
`tools` (with `step`, where the dispatcher is with the first of `calls`), `nudging` or
`closing`, and `cutOff`. The model's frames for a call come twice in the code; a second
frame finds the call (`Noted`). `pending` and `early` are the maps of
`PendingInteractions`, `row` is what the chat shows of a call, from which the
action bar picks the one to decide. The AI service is external and
streams any calls, then any end; it is assumed to end with `stop` only after
an answer without calls. `awaited` is what it still has no result for. `told`,
`verdict`, `outcome`, `ending` and `cancelled` are history. Left out: text and titles, the
conversation's storage, and clicks on a row after its turn ended. Status updates, calls that
are refused by setting and unknown tools return by themselves and count as free. Stopping a turn that is
still loading cancels its approvals but finds no controller to abort, as in the code.

### KeyChain, KeyChain_proofs

Time is what is left of each delay, so the chain renews for ever in a finite model.
Keys are told apart by what the harness can do about them: the one it holds
(`current`), one in an answer under way (`coming`), one whose answer was lost (`lost`).
`renewing` is the shared promise, `again` whether `schedule` follows it, `late` (history) whether a
renewal began after `end()`, which a 401 may still cause. `ExpiredKeyIsBeingRenewed` speaks of servers
that give each key its full lifetime.

### GitSync

A tree is a set of edits, a commit knows its ancestors and its first-parent line. The
harness does one `job` at a time; `plan` is the list of its next steps, one git command
or file operation each, and a crash is possible between any two. A git command that fails
ends its job, whose command is handled all the same. The merge is
three-way, over one best common ancestor or the merge of two; a conflict is possible only
where both sides changed. A merge command that fails without one (`MergeFails`) is aborted and refused in the same
way. The clone is the user's: `Pull` merges (a conflict there is the user's to settle), `Push`
makes a bundle and a command, as the Sessions API (external) does.
A rollback may be sent again for as long as the chat offers it (`Offered`), also while an earlier copy waits, up to `MaxWaiting`.
`merge --abort` is assumed not to fail. An orderly exit happens between jobs. Left out:
subjects and summaries, refs, gc, the notice of a rollback to the model (lost in a crash),
the language server.

### Regulative

`at`, `rule`, `time`, `event`, `events` and `stack` are the machine: the rule it evaluates
or the value it returns, the clock, and the frames that wait (`Contract11`, `RBinOp1`,
`RBinOp2`). `Give` is one application of the contract, or of the residual of the last one, to a batch
of events in the order of their times. Expressions are left out: an action's pattern and
its PROVIDED are the sets of actions they accept; the environments are gone. An
event that is late for a rule is consumed and not matched with what follows, as the
documentation says. `Meaning` is the reference: the
rules of `doc/concepts/legal-modeling/regulative-rules.md` and
`doc/reference/regulative/consequences.md`, over all events at once.

## 3. The runs

| Run | Bounds | What it shows |
| --- | --- | --- |
| `lease` | 2 runs, 5 instants, one write beside a lease write and one waiting, two renewals at a time; a git command takes twice the margin | one writer of files at a time, only the newest begins a write, each file is written before the lease ends and git outlasts it by what exceeds the margin; `RunLease` implements `SingleWriter` |
| `lease_timers` | the first run's harness, 14 units of 15 s, a second run's record | a timely harness that loses one renewal in a row is never stopped by its own fence; the old harness of a `--dev` takeover stops within two renewals, however often its state changes |
| `events` | 3 events, segments of 2 lines, 2 failures, 1 restart, which may lose the end of a segment | the log is numbered without a gap, a failed batch is published in the end; while the mount is intact `EventLog` implements `AppendOnlyLog`, so the published log is append-only and in order |
| `stream` | as `events`, 1 failure, both faults of the mount | while the mount is intact the reader has shown what its cursor has passed: every event, once, in order |
| `session` | a log of one event, 1 message, 2 steps of opening, leaving, listing, abort and stop, 2 failures | the view is given every event unless a poll crossed a watch that was given up; what is pending, or waits for a replay, is polled for unless polling was cut short; the client starts nothing by itself for what the user ended |
| `session_live` | 1 message, 1 such step, 1 end of the key chain in mid-turn, 2 tries | a message, and a turn cut off by parking, is picked up or ended, or the user heard, or every try was made |
| `commands` | 3 commands of all kinds, 1 exit or crash, 1 failed write of `commands.done` | messages run once, in order; queued commands survive; what was announced is handled |
| `deployments` | 1 id, 2 bundles, 3 operations, 1 end of the process, 1 failed file operation, lazy and eager | registry and store agree whenever nothing is going on, for an id without overlap or failed file operation; a live version keeps serving; no deployment stays compiling |
| `chat_turn` | a turn of 2 calls and 1 message of the user beside a turn without calls, in one conversation or two | each call is answered once and in order; what the user says reaches the model once; guarded calls run only if the user allowed them and are denied only if the user said so, stopped or wrote in that conversation; messages in the chat are closed; turns end |
| `key_chain` | a lifetime of 15, renewal at 5, least interval 2, 5 retries, 2 requests | an expired key is being renewed; a retry carries a newer key; `end()` leaves none; a dead key is noticed. Deadlock is checked |
| `git_sync` | 2 turns, 1 edit of the user, 1 added file, 2 syncs, 1 crash or exit, 1 failed git command, 2 waiting commands, 1 copy of a rollback among them, 7 commits | no edit made in the session is lost; commits that events name can be pulled, but for a rollback after a bundle that could not be written; pushes are kept until merged or refused; an undone turn stays undone; no commit has conflict markers |
| `regulative` | 75 contracts of up to three rules, 4 deeds, times 1..3, 3 events in batches of up to 2 | the machine answers what the contract means, however its events are cut up; clocks stand where the events do |

Why these bounds are enough. Two runs suffice for the lease because
a run deals only with its successor; the second has none, so it need not look for one nor run
git commands that nobody would meet (`LastRunHasNoSuccessor`, a CONSTRAINT). `MaxTime` spans a starting lease, a renewal
and a takeover while a git command of the first run still writes. Three events reach a merged delta, a batch
that crosses a segment's end and a batch behind a failed one. One message and two other steps reach a session that is
left, or stopped, while its start or a poll is under way, and one opened again; two tries have a delay between
them as four have, a settle time of one unit and a grace of two (three in `session_live`) keep the order of the code's 10 and 90 s;
two failures reach polling that is cut short. Three commands
reach a message that runs, one queued, and one that overtakes it. One exit
or crash suffices to lose memory once; each start is like the first. Ids of deployments
share nothing but the limit, so one id is enough; three operations reach a deploy, a second over it
and a third beside that, or a load after a restart. Two
calls reach an approval that waits while another row is shown and an early decision for a
later call; the second turn is there to start, write past and stop beside the first. The key's delays
keep the order they have in the code, with instants in between. Two turns and one
user edit reach a merge commit on either side, a fast-forward and a rollback of the earlier turn;
a third sync adds no new shape of history. One waiting copy of a rollback is enough to send it again once the first failed or was skipped;
two at once are left to the proofs, as are
longer queues. Seven commits are the seed, both turns, the user's edit, a merge on each side, and a rollback. Three events reach a duty, its
follow-up and one that comes too late, on each side of a RAND or ROR.
Deadlock is checked in `CommandQueue` and `KeyChain`; the other specifications stop when a bound is reached
(time, events, restarts, operations, turns), and their configurations say so.

The properties of `stream` are stated while the mount is `intact`; its faults are
explored there too, for the recovery they lead to. Most properties of `commands`
say `DoneIsWritten`: after a failed write of `commands.done` the tick drops the
rest of its batch, so a later message may run first and, after a restart, twice.

The models also show what the code does not promise, or says of itself and does not do. No run asserts these; each
is a behaviour of the module named, so that an invariant which denies it is violated:

- Lease: a git command passes the fence once and may run on for two minutes
  (`git.ts:99`), longer than the margin of `lease.ts:28`: it then writes beside the next run. The properties of `lease`
  are about files and about the beginning of git commands, and assume nothing of how long git takes.
  `finish()` releases the lease while steps it stopped waiting for still write;
  `SingleWriter` therefore lets a run that let go finish its writes.
- Event log: an event emitted during a write that succeeds, while a retry is due, is left
  without a timer (`event-log.ts:298`). After losing the end of a segment, `seq` is given out
  again (`event-log.ts:145`) and readers drop the new events (`cloud-session-manager.ts:805`). After a rename of
  `head.json` that took effect but reported an error, the retry writes over what readers have passed.
  A restart after a lost end leaves an empty segment behind, and `lastSeqBefore` looks at three segments (`event-log.ts:176`, "A segment
  can be empty only right after a rollover"): with `MaxRestarts = 4`, `Faults = {"lostTail"}`, `MaxSegment = 7`, `MaxTokens = 5`,
  `SegmentMax = 1` and no failures, four such restarts let it count from 1 again and `SeqIsContiguous` is violated.
- Cloud session: three ways in which polling is cut short (`CutShort`). A poll that fails when the grace period of a
  session that seemed asleep is over, or ends before the next try, is not made again: the round at
  `event-poller.ts:229` is scheduled and finds nothing active (`:176`). An answer with `more` is then not followed by
  another, against `event-poller.ts:11`, and a replay that waits for its end is not ended. An automatic start that
  fails shortly before the grace period ends has its settle time reach past it
  (`cloud-session-manager.ts:612`), and an entry whose delay was not over is not started for.
  After `unwatch` and `watch` the generation is 1 again (`event-poller.ts:84`, `:90`), so the answer to a poll made before
  is taken for a current one, and the events in front of its cursor are never shown; the comment at `:49` wants it ignored.
  The comment at `cloud-session-manager.ts:1003`, "The user asked for these to end: don't start the session for them", holds
  of the starts that the client decides on by itself (`AutoStartsSpareEnded`) and of no other: a start that waits for its key is
  posted after a stop (`:583`), and a message, or an abort, whose answer finds the session asleep starts it (`:1012-1017`), though
  the user has ended the message meanwhile.
  A sleeping session that is left during its replay and poked by an answer to an earlier command is read from
  the start of its log, and old events are passed on as new (`:781`, `:866`, against `:90`).
- Commands: an inject dealt with while an earlier message is queued is told again after a restart
  (`runner.ts:517`); one that became a queued message is lost in a shutdown (`:546`); an abort while
  `markHandled` of its message is under way has no effect (`:576`, `:604`), and a
  message at that point when `finish()` begins starts its turn during the shutdown. With
  `MaxWriters = 2` the slower of two writers leaves the smaller number in `commands.seq`,
  and the newer command waits until another is sent.
- Deployments: versions count on only from an entry that is ready, or pending with its cache
  (`ControlPlane.hs:466-469`). Over one that failed to load, is loading or is pending without cache a deploy counts from 0.0 again, and of two
  jobs that overlap both count on from the same version, against the comment at `:463`, "Counters never reset and are
  restored from StoredMetadata across restarts". The gate of a PUT compares with the interface live when the request
  came (`:325`); what another job swapped in during the compilation is not compared with, against the comment above the handler
  ("Enforces the backwards-compatibility gate"). A lazy load that began before a deploy brings back the version it read. Requests under
  way pass the limit together (`:182`). A deployment that is deleted while its job runs comes back.
  A job whose `saveBundle` throws stays "compiling".
- Chat: an early denial does not count if the user has set the category to `always`
  before the dispatcher comes to the call (`tool-dispatcher.ts:330`), since only `ask` looks at it. After a stop
  with two guarded calls in the round the second still asks.
- Key chain: a renewal after a 401 does not set the timer anew (`key-chain.ts:169`, `:211-216`), so the scheduled one
  may follow at once, against the spacing of `:64-65`; a 401 may still start a renewal after `end()`.
- Git: a rollback that is sent again after its bundle could not be written finds nothing to commit and announces HEAD
  (`git-sync.ts:525-531`), which the bundle does not have until the next commit, against "rewrite the bundle, emit" at `:154`.
  A crash between the removal of an incoming bundle and its event loses the event; of two rollbacks
  that are queued the second restores a tree that has the first one's turn; what a failed commit of a
  turn left is swept into the next commit. The search for a turn's commit follows first parents (`git-sync.ts:542`): when the user
  merges and pushes, main fast-forwards to a merge whose first parent is the user's commit, and the rollback of an
  earlier turn is skipped with "nothing to do", against the comment at `:536`.
- Regulative: of an explicit BREACH and a missed deadline under RAND the one on the left is
  blamed, whichever came first, unless they fall into different batches (`Machine.hs:1023-1036`). A ROR both of whose
  sides breached by LEST BREACH is never settled, the residual is returned (`:995`), against the comment at `:993`,
  `doc/courses/foundation/module-6-regulative.md:216` and the example at
  `doc/reference/regulative/consequences.md:146`; `AnswerIsMeant` exempts that residual (`NeverSettled`) and nothing else.

### Fairness

`EventLog!FairSpec`: steps of a write, the flush timer and the retry timer happen
in the end. They are timers and file operations of one event loop; that the
process stays up and the mount recovers is not assumed, it is in the
property (the model's failures and restarts are bounded). `CommandQueue!FairSpec`: the poll goes
on (`setInterval`), a turn ends (the chat service bounds it), a write settles, a
shutdown ends (`SHUTDOWN_BUDGET_MS`), a session is started again. Nothing is assumed of
clients: a writer may stop at any step. `Deployments!FairSpec`: compilation has a
timeout, and each job and load is a thread that the runtime schedules. `ChatTurn!FairSpec`: the event
loop runs what can run, of any turn; tools and answers have timeouts; the user responds to what waits
for them, which `TurnEnds` cannot do without. `CloudSession!FairSpec`:
the timer fires, a poll and a request are answered, the harness goes on, and time passes whenever it can again
and again (strong fairness: commands of the user may hold it up, but not for ever). `KeyChain!FairSpec`: time passes, the timer fires, a
renewal is answered or times out, and who waits for it goes on; nothing is assumed of what the server says.
Weak fairness is enough for all but the passing of time in `CloudSession`. `GitSync` and `Regulative` state safety only.

## 4. The proofs

`RunLease_proofs`, for every value of the constants under `BoundsAssumption`
and `TimeAssumption`:

- `TypeCorrect`: `Spec => []TypeOK`.
- `FenceInvariant`, `NewestRunWrites`, `WritesCovered`, `OneWriter`,
  `Implements`: the safety invariants of the run `lease` and the refinement of
  `SingleWriter`. They assume `MarginCoversFiles`: the Sessions API waits for a lease
  to run out (`--dev` runs, which do not wait, are left out), and writing a file, with the clock's error, takes no longer than
  the margin of 15 s. Both are needed. Nothing is assumed of `GitTime`: what is proved of a git command is that it
  begins a margin before the lease ends, by the newest run.

The argument. `OnlyNewestRunWrites` is not inductive: it says nothing of a
process that is about to write. `IInv` adds, for each run: a run that is not held
yet has nothing under way (`Lives`); until the first lease write begins the fence
stands on the starting lease (`FirstWrite`); a lease write promises no more than a
full lease from now, and no less than what the fence stands on (`Promises`); the
fence never stands on more than the folder holds, unless the run let go (`FenceInLease`); whatever is
under way began a margin before the end of the lease in the folder, and of the one that is about to land,
so that a file is written by then (`Covered`); and once a newer run exists, the lease has run out and nothing is
under way but git (`Superseded`). The last is what the others are for: the API creates run
n+1 only after the lease, `Covered` says that by then no file is being written,
and `FenceInLease` that none can begin. There is one lemma per part, with one step per action, and the temporal theorems combine them.

The same module about `LeaseTimers`, for every number of runs, every length of a round, a lease, a write and the margin, and every number
`MaxFailed` of failures in a row, under `TimersAssumption` and the assumptions of `RunLease`:

- `TimersInvariant`: the inductive invariant.
- `HandoverBounded`: `HandoverIsBounded`.
- `FenceIsKept`: `PromptHarnessKeepsItsFence`. It assumes `RenewalsFitTheTerm`: a write takes less than a round, and
  `MaxFailed + 1` rounds, two writes and the margin less than the lease. The instance of TLC is checked to be such a
  one (`InstanceFits`).

The argument. The timer is never late and never more than a round away (`TimerRuns`). A look-up that fails is followed
by the next a round later, so after `missed` failures the next comes at most `missed + 1` rounds after the
successor (`LooksInTime`), and the one that succeeds sees it. For the fence, count rounds from the last good
write: the next renewal is at most `failed + 2` rounds after that write's end (`RenewsInTime`), and
when it is as far away as that, this round's renewal is still at work: looked up, queued, or being written before
the next is due (that is where a write must take less than a round). Either it succeeds, and the count
begins anew, or it fails, and `failed` grows. The step that surprises is the timer's: that it fires only when the renewal
of the round before has ended, although nothing in the code waits for it. `Unstarted` and `Keeps` say that until the release
each lease write keeps the lease, and promises a full one from when it began. Every step of `LeaseTimers`
is one of `RunLease` (`TimersStepsAreSteps`), which gives the types.

`EventStream_proofs`, for every number of events, segments, failed writes and restarts and every length of a segment
under `EventLogAssumption` (which types the constants):

- `LogTypeCorrect`: the types of the log.
- `LogInvariant`: the inductive invariant, `Spec => []LogInv`.
- `IntactNumbers`: the published lines of an intact mount are numbered 1, 2, 3, ... (`SeqIsContiguous`), however often
  the process dies.
- `LogIsOK`: `LogOK`, the invariant of the run `events`, so the same of a mount that loses the ends of segments. It assumes
  `RecoveryReaches`: no rename is hidden, and at most three restarts. Both are needed: see above what happens at the fourth.
  The instance of `events` satisfies it.
- `LogImplements`: `ImplementsAppendOnlyLog`, step by step.
- `ReaderSees`: `ReaderSeesTheLog`.
- `PublishedInOrder`, `SeenInOrder`: what is published, and what a reader passes on, is in the order of emission, no event twice.

The argument. `SeqIsContiguous` says nothing of memory, or of bytes that are in a file and not published. `LogInv` adds
that the process's place is within the files and its `seq` is the number of published lines (`FilesOK`, `NumbersOK`), and
that a write under way has exactly a part of its batch behind the published lines, the rest in hand (`WriteOK`, an equation of three
sequences): so when `head.json` is renamed, what becomes visible is the batch, whole and numbered on. A crash may come at any of
these steps; `open` then finds out the last number from the files, and finds the right one because of
what a crash leaves: a segment behind the head is empty only if a crash of its own lost its lines, and restarts count them
(`GapsOK`), so a mount that lost nothing has none, and three restarts leave at most two for `lastSeqBefore` to look past
(`RecoveredIs`). The refinement follows the text: `Waiting` is the batch in hand, then
the queue, then the collected delta, and each step either leaves the sequence alone, however it regroups events into
lines, or publishes a beginning of it
or drops an end of it (`TextHeld`, `LogStep`). The reader: nothing at or behind its cursor is rewritten (`PublishedLinesStay`), its
last number is the count of lines it passed (`ReaderOK`), so of the lines a poll brings none is skipped (`AllFresh`, `ReaderPolls`). The
order of emission follows from the abstract log alone (`OrderOK`: published, then waiting, is increasing).

The module begins with facts about `FlattenSeq`, which is a fold. What it computes is shown from its defining equations and a least
counterexample, which exists by the well-foundedness of the naturals (`LeastNumber`), or by growing the set of sequences of which the
statement holds element by element (`ElementByElement`): the library's induction over a property given as an operator is not needed.

`KeyChain_proofs`, for every set of requests and all delays under `KeyAssumption` (a key lives longer than
the time kept before its end, and than the least interval):

- `KeyTypeCorrect`: `Spec => []KeyTypeOK`.
- `KeyInvariant`, `RetryIsNewer`, `EndIsComplete`, `ExpiryIsForeseen`: the safety invariants of the run
  `key_chain`.

The argument. `ExpiredKeyIsBeingRenewed` says nothing of a chain whose key still has time.
`KeyInv` adds that the timer of a chain that goes on is set, unless the renewal under way will set
it (`again`), and comes no later than the key's end (`TimerIsSet`); the latter needs that within the least
interval of a renewal the key has the rest of its life (`SinceRenewal`), so that the early timer after a
401, too, comes in time. `EndLeavesNoKey` needs that a key is `coming` only while its answer is
(`ComingIsAnswered`), and that no renewal is under way once `end()` has asked the server, but a late one (`EndWaits`).

`GitSync_proofs`, for every set of turns, edits and files and every number of crashes, failed
commands and syncs (no assumption but `GitAssumption`, which types the constants):

- `RepositoryKeepsItsShape`: the inductive invariant, `Spec => []IInv`.
- `EditsAreKept`, `PushesAreKept`, `EventsCanBePulled`: `NoEditIsLost`, `PushIsKept` and
  `RepositoryOK` of the run `git_sync`.

The argument. An edit could be lost where the working tree is overwritten: by a merge, a restore or
the abort of a merge. `FilesOK` says that just before each of them it is `Clean`, the tree of main, or main's with conflict markers in it,
which the commit before it in the plan brings about, so that `JobOK` must know where in
its plan a job can stand. What is in the history stays there because main only grows (`MainStep`): each commit is on top
of main (`HistoryOK`), and a rollback restores files in a new commit. A pushed file is removed only
when `RemovalOK` holds: between the merge and the removal the bundle was written, or the conflict
was announced, and no crash leaves a plan with the removal alone. What an event names can be pulled since
the bundle is main's just before the event (`BundleOK`). A rollback that commits nothing has no bundle of its own: there the bundle is main's
only if no command failed, which is the exception in `AnnouncedCanBePulled`. There is one lemma for each effect (a commit, a
merge), one per part, with one step per action.

The same module, under the same assumption:

- `HistoryKnowsWhatWasDropped`: the inductive invariant, `Spec => []UInv`.
- `UndoneIsKept`: `UndoneStaysUndone`. Like the property, it speaks of a turn as long as no other turn is
  rolled back: a second rollback that was queued before the first was done brings the first turn back.

The argument. A merge brings an edit back when no best common ancestor has it, so that it seems new on the other
side. The proof shows that one has. A turn is worked on once (`TurnOnce`), and its edit is committed first by one
commit, from which every commit that has it descends (`OneOrigin`, `FilesKnow`, `MainKnows`); what comes after a
commit that dropped it does not have it (`StaysDropped`). So where one side dropped the edit and the other has it, the greatest common
ancestor after the origin is a best one and has it (`BaseHas`; that there is a greatest is the
well-foundedness of the naturals). The commits lie on two lines, the session's and the clone's
(`SidesOK`), so there are two best ancestors at most, and their merge, too, has the edit (`TwoBases`,
`MergeDrops`). A rollback restores a tree from before the turn (`ParentLacks`, `RollbackOK`), and once it is announced the
turn is over, and gone from files and main (`Gone`).

`CommandQueue_proofs`, for every number of commands, writers, crashes and failed writes under
`QueueAssumption`:

- `HandledIsAccounted`: the inductive invariant.
- `QueueSurvives`: `QueueOK`, the queue's types and `QueuedCommandsSurvive`.

The argument. `QueuedCommandsSurvive` is about commands.done, which is written later than what it
says: `HandledOK` states the same of the reader's memory, where a number above a gap
waits to become part of `done`, and a stop (`markHandledThrough`) stands for all the
numbers before it. `MarkIs` says that `done` moves over numbers handled and nothing else; the number
it stops at is a least one not handled, which exists by the well-foundedness of the naturals. What
is begun is so before it is marked (`RunnerOK`: work under way is begun), and what is
settled stays so because a command that has landed does not change (`FilesKept`), nor does a
broken one become whole (`ReaderOK`).

The same module, under the same assumption, for as long as commands.done can be written
(`DoneIsWritten`, which the two properties state too):

- `HandledBeforeTold`: the inductive invariant.
- `MessageIsToldOnce`, `TurnsKeepTheirOrder`: `MessageRunsOnce` and `TurnsInOrder`.

The argument. A process that starts reads on after commands.done, so a message is given to the model
once if commands.done has it before its turn starts; but what is written is `done`, which moves
over the message only when every number before it is handled too. That holds since what waits is in
order (`Lines`: the queue, then the batch, both increasing) and nothing delivered is forgotten
(`Complete`: each number is handled, waits, or is the work at hand): when a message comes first,
everything before it is handled, so `done` reaches it (`MarkIs`, `StartHead`), and the turn waits for the
write (`Works`, from `marking` on). An inject that comes late is in the queue though it is handled,
the one exception in `Lines`. `Told` says that what the model was given is on disk as handled. After a failed
write all of this is false, since the tick drops the rest of its batch: hence `DoneIsWritten`.

`Deployments_proofs`, for every set of ids and bundles, every relation `Breaks`, and any number of
operations, ends of the process and failed file operations (no assumption but `DeploymentsAssumption`, which
types the constants):

- `DeploymentsInvariant`: the inductive invariant, `Spec => []DInv`.
- `ServedIsKept`, `LiveVersionStays`: `RegistryOK` and `LiveVersionKeepsServing`, the safety properties of the run
  `deployments`. The first exempts, as the property does, ids of which two operations overlapped or a file operation failed
  (`loose`); that the process ends between any two steps is covered.

The argument. `RegistryMatchesStore` says nothing of an id while an operation of it is under way, and that is when
the two are apart. For an id that is not in `loose`, `DInv` knows that at most one operation is under way (`Alone`)
and what each of its steps has left behind (`Staged`): a deploy that is about to remove the directory has
everything in the temporary one, after the rename the directory is the upload's, and
the entry it replaces is still the one its version was counted from and its interface compared with, because
nobody else changes it. A load finds the entry "compiling" until it replaces it. A crash may come at any of these steps, so
what a restart relies on is kept apart (`Whole`): a directory with metadata.json holds sources of no other bundle, and its
cache, if any, says the same; the middle of a removal keeps that (`RemnantsAre`), and `RestartEntry` reads from it that
what is registered again agrees. One lemma
(`OneStep`) says that a step of one operation disturbs nothing of other ids; the steps of the operations use it.

`ChatTurn_proofs`, for every set of turns, conversations and calls and every number of messages (no assumption but
`ChatAssumption`, which types the constants):

- `ChatInvariant`: the inductive invariant, `Spec => []CInv`.
- `ChatStaysOK`, `CallsAreAnswered`, `MessagesReachTheModel`, `OnlyTheUserDecides`: `ChatOK`,
  `EveryCallIsAnswered`, `InjectionsReachTheModel` and `CallsFollowTheUser`, every safety property of the run
  `chat_turn`.

The argument. `EveryCallIsAnswered` speaks of two places of a turn; `Answered` says at each other place who knows of which
call, above all that a follow-up that is being assembled carries the results of all of them. A frame that repeats a call
adds nothing because the calls of a round differ and none of them was dealt with before (`InRound`). `Heard` adds to the order of
the messages that a request carries some only while it is assembled (`Answered`), so that a turn ends by stop with nothing in
hand. The user decides about a row, not about a call: `Decided` says that a row that asks for approval
belongs to a guarded call without an outcome, and that an early decision is the user's last word; `Allowed`, that what waits has no early
decision left, and that the row of a call that runs does not ask any more, so the word it was allowed by stands until
it returns. One lemma per part, with one step per action; `MoveFirst` and `Queued` are the facts about sequences they need.

`CloudSession_proofs`, for every set of messages, all delays under `SessionAssumption` (the settle time is positive, it and the
delays between tries are shorter than the grace period) and any number of failures, steps of the user and ends of
the key chain:

- `EventsReachTheView`: `ViewMissesNothing`.
- `AutomaticStartsSpareTheEnded`: the action property `AutoStartsSpareEnded`.
- `WhatIsPendingIsPolled`: `SessionOK`. These are all the safety properties of the run `session`.

The argument. Steps of the specification are of a few kinds (`StepKinds`): most only ask, or drop an entry, or poke. For the view,
`ReadsInOrder` adds that what is polled next is not past what was seen, and that a poll that was overtaken by a
reset of the cursor has an older generation, so that its answer is ignored. That automatic starts spare what the user ended rests on `EndedIsOver`:
it is forgotten when it is ended, and nothing enters it again. `SessionOK` is the hard one, since the poller gives up a
session that sleeps once its grace period is over, and the client may still have a try to make then. `PollInv` adds that it
has made it by then: a delay or a settle time that runs ends within what is left of the grace period
(`DelaysEndInTime`, `SettlesInTime`), because both begin with a poke or a poll in it and are shorter; and while
something is awaited of a sleeping session, a delay, the settle time or a poll is ahead (`AwaitsAPoll`), because a poll that
read to the end of the log starts the session unless one of the two runs (`PollInvAccepted`). So time is left whenever
something is awaited (`AwaitsInTime`), and time passes only after a poll. The rest is about letting go: a session is not let go while
something is awaited of it (`AwaitedIsWatched`), the poll that was overtaken is followed by one that
was not (`StaleIsRepeated`), and a replay is at its first poll or a poll failed or left more (`ReplayIsPolled`). That last exception, and
the one for a refused start, were found by the proof: without them the invariant is false, a few steps beyond the
bounds it was first checked with.

Only model-checked: liveness (`FailedBatchIsPublished`, `AnnouncedIsHandled`, `CompilingEnds`, `TurnEnds`, `DeadKeyIsNoticed`,
`PendingIsSeenTo`), which is beyond the prover, as is ENABLED; and `Regulative`. Its reference is a
recursive operator over contracts: what it says for every contract is induction over syntax,
which the prover cannot do, and its module reaches RECURSIVE, so `MachineOK` and the equivalence with the machine (`AnswerIsMeant`) are
checked for the instance's contracts only. No module that is proved about declares a recursive operator; where one folds a sequence
(`EventLog`), the fold is reasoned about as described above.

## 5. Not modelled, and the plan

Not modelled for good: the language front end and the evaluator of expressions
(functions over syntax trees without bound), the language server's editor
features, output formats, user interfaces, tools, and HTTP glue. `PROJECT.json` gives the
reason for each. They are most of the repository's lines, so the modules cover the small part of it that keeps state
over time.

Open, in this order:

1. `RunnerLife`: start-up, shutdown, parking and supersession at every `await` of `run` and `finish`.
2. The edit guard's memory of what was read, and the stores of conversations and sessions.
3. `QueryPlan`, `BooleanAnalysis`: pure algorithms against a reference definition.
4. A writer slower than the grace period in `CommandQueue`.

Every safety property that a run checks is also a theorem, except those of `Regulative`.
