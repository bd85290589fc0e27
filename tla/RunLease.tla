------------------------------ MODULE RunLease ------------------------------
(***************************************************************************)
(* Who may write to a cloud session's folder.                              *)
(*                                                                         *)
(* The Sessions API (external) creates run n of a session by creating      *)
(* state/runs/<n>.json and writing run n's lease as `starting'; the        *)
(* cloud-agent harness started for run n proves at boot that it is the     *)
(* current run (checkRun), keeps its lease (RunLease) and passes every     *)
(* write through one Fence (ts-apps/cloud-agent/src/lease.ts; the shutdown *)
(* and supersede paths are runner.ts).                                     *)
(*                                                                         *)
(* Several runs of one session may have live processes at once; they share *)
(* only the files.  A write is not instantaneous: it is checked when it    *)
(* begins and reaches the folder some time later, or never.  What is       *)
(* written is abstracted to who wrote it: `last' describes the write that  *)
(* reached the folder most recently.                                       *)
(***************************************************************************)
EXTENDS Integers, Sequences, FiniteSets

CONSTANTS
  MaxRun,      \* runs the Sessions API creates (bounds the model)
  MaxTime,     \* last clock value (bounds the model)
  MaxQueue,    \* lease writes waiting for their turn (bounds the model)
  MaxInFlight, \* writes of one run under way at a time (bounds the model)
  MaxRenewing, \* renewals of one run under way at a time (bounds the model)
  Margin,      \* FENCE_MARGIN_MS
  Ttl,         \* LEASE_TTL_MS
  Grace,       \* START_GRACE_MS
  FileTime,    \* longest a file write takes from its check to the folder
  GitTime,     \* longest a git command takes from its check to its last write
  Skew,        \* how far the Sessions API's clock is off the harnesses'
  ApiWaits     \* TRUE: the Sessions API; FALSE: `--dev' (claimDevRun)

ASSUME BoundsAssumption ==
  /\ MaxRun \in Nat /\ MaxTime \in Nat /\ MaxQueue \in Nat
  /\ MaxInFlight \in Nat /\ MaxRenewing \in Nat

ASSUME TimeAssumption ==
  /\ Margin \in Nat /\ Ttl \in Nat /\ Grace \in Nat
  /\ FileTime \in Nat /\ GitTime \in Nat /\ Skew \in Nat
  /\ ApiWaits \in BOOLEAN

VARIABLES
  clock,       \* the harnesses' clock
  latest,      \* runs/<n>.json exists for n \in 1..latest
  starting,    \* runs whose `starting' lease the API has yet to write
  lease,       \* lease[n]: expiresAt in runs/<n>.lease.json (0: no file)
  released,    \* released[n]: run n's final, expired lease is on disk
  phase,       \* phase[n]: what run n's harness is doing
  checkedAt,   \* checkedAt[n]: the time checkRun compares the lease with
  validUntil,  \* validUntil[n]: Fence.validUntil
  closed,      \* closed[n]: Fence.closed
  chain,       \* chain[n]: lease writes waiting behind RunLease.writing
  writing,     \* writing[n]: the lease write under way, or NoWrite
  renewing,    \* renewing[n]: calls of renew() looking for runs/<n+1>.json
  inFlight,    \* inFlight[n]: other writes under way
  last         \* the write that reached the session folder most recently

apiVars   == <<latest, starting>>
fenceVars == <<validUntil, closed>>
leaseVars == <<lease, released, chain, writing, renewing>>
vars == <<clock, apiVars, leaseVars, phase, checkedAt, fenceVars, inFlight, last>>

Run  == 1..MaxRun
Time == Nat

(***************************************************************************)
(* absent: no process; checking: checkRun has seen no newer run and is     *)
(* about to read the lease; booting: RunLease.start awaits its first       *)
(* write; running: the lease is held; releasing: RunLease.release was      *)
(* called; stopped: superseded, exited or killed.                          *)
(***************************************************************************)
Phase == {"absent", "checking", "booting", "running", "releasing", "stopped"}
Alive == {"booting", "running", "releasing"}

WriteKind == {"keep", "expire"}
NoWrite   == [kind |-> "none", expiresAt |-> 0, deadline |-> 0, landed |-> FALSE]
LeaseWrite ==
  [kind : WriteKind, expiresAt : Time, deadline : Time, landed : BOOLEAN]
DataWrite == [git : BOOLEAN, deadline : Time]
Landing   == [run : 0..MaxRun, newest : 0..MaxRun, afterRelease : BOOLEAN, git : BOOLEAN]

\* The longest a write takes from its check to the folder: a git command,
\* or the write of a file.
Duration(git) == IF git THEN GitTime ELSE FileTime

TypeOK ==
  /\ clock \in Time
  /\ latest \in 0..MaxRun
  /\ starting \subseteq Run
  /\ lease \in [Run -> Time]
  /\ released \in [Run -> BOOLEAN]
  /\ phase \in [Run -> Phase]
  /\ checkedAt \in [Run -> Time]
  /\ validUntil \in [Run -> Time]
  /\ closed \in [Run -> BOOLEAN]
  /\ chain \in [Run -> Seq(WriteKind)]
  /\ writing \in [Run -> LeaseWrite \cup {NoWrite}]
  /\ renewing \in [Run -> 0..MaxRenewing]
  /\ inFlight \in [Run -> SUBSET DataWrite]
  /\ last \in Landing

Init ==
  /\ clock = 1
  /\ latest = 0
  /\ starting = {}
  /\ lease = [n \in Run |-> 0]
  /\ released = [n \in Run |-> FALSE]
  /\ phase = [n \in Run |-> "absent"]
  /\ checkedAt = [n \in Run |-> 0]
  /\ validUntil = [n \in Run |-> 0]
  /\ closed = [n \in Run |-> FALSE]
  /\ chain = [n \in Run |-> <<>>]
  /\ writing = [n \in Run |-> NoWrite]
  /\ renewing = [n \in Run |-> 0]
  /\ inFlight = [n \in Run |-> {}]
  /\ last = [run |-> 0, newest |-> 0, afterRelease |-> FALSE, git |-> FALSE]

\* A harness that will write no more, and the memory that goes with it.
Stop(n) ==
  /\ phase' = [phase EXCEPT ![n] = "stopped"]
  /\ checkedAt' = [checkedAt EXCEPT ![n] = 0]
  /\ validUntil' = [validUntil EXCEPT ![n] = 0]
  /\ closed' = [closed EXCEPT ![n] = TRUE]
  /\ chain' = [chain EXCEPT ![n] = <<>>]
  /\ renewing' = [renewing EXCEPT ![n] = 0]

-----------------------------------------------------------------------------
(* The fence (lease.ts Fence).                                             *)

\* MUTANT of MayWrite: the fence holds until the lease itself runs out.
MayWriteToTheEnd(n) == ~closed[n] /\ clock < validUntil[n]

\* Fence.check passes.
MayWrite(n) == ~closed[n] /\ clock + Margin < validUntil[n]

\* Something checks the fence after the last lease ran down to the margin:
\* onViolation, hence Runner.supersede: the fence and the event log are
\* closed, renewing stops, nothing queued is written.  A booting harness
\* checks only for its first lease write.
FenceRefuses(n) ==
  /\ phase[n] \in Alive /\ ~closed[n] /\ ~MayWrite(n)
  /\ phase[n] = "booting" => chain[n] # <<>>
  /\ Stop(n)
  /\ UNCHANGED <<clock, apiVars, lease, released, writing, inFlight, last>>

-----------------------------------------------------------------------------
(* The Sessions API.                                                       *)

\* What the API's clock may read.
ApiNow == {t \in 0..(clock + Skew) : clock <= t + Skew}

\* `start': exclusive-create the next run record, once the newest run's
\* lease ran out (or was never written).  `--dev' does not wait.
CreateRun ==
  /\ latest < MaxRun
  /\ ApiWaits /\ latest # 0 => \E now \in ApiNow : lease[latest] <= now
  /\ latest' = latest + 1
  /\ starting' = starting \cup {latest + 1}
  /\ UNCHANGED <<clock, leaseVars, phase, checkedAt, fenceVars, inFlight, last>>

\* ... then write its `starting' lease.
WriteStartingLease(n) ==
  /\ n \in starting
  /\ starting' = starting \ {n}
  /\ \E now \in ApiNow : lease' = [lease EXCEPT ![n] = now + Grace]
  /\ UNCHANGED <<clock, latest, released, chain, writing, renewing, phase,
                 checkedAt, fenceVars, inFlight, last>>

\* The API died between the record and the lease: no task is started.
AbandonStart(n) ==
  /\ n \in starting
  /\ starting' = starting \ {n}
  /\ phase' = [phase EXCEPT ![n] = "stopped"]
  /\ UNCHANGED <<clock, latest, leaseVars, checkedAt, fenceVars, inFlight, last>>

\* Starting the task failed: the API writes the lease expired.
ExpireFailedStart(n) ==
  /\ phase[n] = "absent" /\ n \notin starting /\ lease[n] > clock
  /\ \E now \in ApiNow : lease' = [lease EXCEPT ![n] = now]
  /\ phase' = [phase EXCEPT ![n] = "stopped"]
  /\ UNCHANGED <<clock, apiVars, released, chain, writing, renewing,
                 checkedAt, fenceVars, inFlight, last>>

-----------------------------------------------------------------------------
(* Boot.                                                                   *)

\* MUTANT of CheckRecord: checkRun does not look for a newer run.
CheckRecordOnly(n) ==
  /\ phase[n] = "absent" /\ n \in 1..latest /\ n \notin starting
  /\ phase' = [phase EXCEPT ![n] = "checking"]
  /\ checkedAt' = [checkedAt EXCEPT ![n] = clock]
  /\ UNCHANGED <<clock, apiVars, leaseVars, fenceVars, inFlight, last>>

\* checkRun, first reads: the record exists (the task was started), and a
\* newer run's does not; `now' is the time of the call.
CheckRecord(n) ==
  /\ phase[n] = "absent" /\ n \in 1..latest /\ n \notin starting
  /\ \/ /\ latest = n
        /\ phase' = [phase EXCEPT ![n] = "checking"]
        /\ checkedAt' = [checkedAt EXCEPT ![n] = clock]
     \/ /\ latest > n
        /\ phase' = [phase EXCEPT ![n] = "stopped"]
        /\ UNCHANGED checkedAt
  /\ UNCHANGED <<clock, apiVars, leaseVars, fenceVars, inFlight, last>>

\* checkRun, last read: the lease is valid with the margin.  Runner.run
\* arms the fence with it and RunLease.start queues the first write.
CheckLease(n) ==
  /\ phase[n] = "checking"
  /\ \/ /\ checkedAt[n] + Margin < lease[n]
        /\ phase' = [phase EXCEPT ![n] = "booting"]
        /\ checkedAt' = [checkedAt EXCEPT ![n] = 0]
        /\ validUntil' = [validUntil EXCEPT ![n] = lease[n]]
        /\ chain' = [chain EXCEPT ![n] = <<"keep">>]
        /\ UNCHANGED <<closed, renewing>>
     \/ /\ ~(checkedAt[n] + Margin < lease[n])
        /\ Stop(n)
  /\ UNCHANGED <<clock, apiVars, lease, released, writing, inFlight, last>>

-----------------------------------------------------------------------------
(* Keeping and releasing the lease (lease.ts RunLease).                    *)

\* RunLease.write: one more write behind the ones under way.
Enqueue(n, kind) ==
  /\ Len(chain[n]) < MaxQueue
  /\ chain' = [chain EXCEPT ![n] = Append(@, kind)]

\* RunLease.set: a state change writes the lease, while it is held.
SetState(n) ==
  /\ phase[n] = "running"
  /\ Enqueue(n, "keep")
  /\ UNCHANGED <<clock, apiVars, lease, released, writing, renewing, phase,
                 checkedAt, fenceVars, inFlight, last>>

\* RunLease.renew, on its timer: held, so look for a newer run.  Nothing
\* keeps the interval from firing while an earlier renewal still looks.
RenewCheck(n) ==
  /\ phase[n] = "running" /\ renewing[n] < MaxRenewing
  /\ renewing' = [renewing EXCEPT ![n] = @ + 1]
  /\ UNCHANGED <<clock, apiVars, lease, released, chain, writing, phase,
                 checkedAt, fenceVars, inFlight, last>>

\* ... there is none: write, even when the lease is being released by now.
RenewWrite(n) ==
  /\ renewing[n] > 0 /\ latest = n
  /\ Enqueue(n, "keep")
  /\ renewing' = [renewing EXCEPT ![n] = @ - 1]
  /\ UNCHANGED <<clock, apiVars, lease, released, writing, phase, checkedAt,
                 fenceVars, inFlight, last>>

\* ... there is one: onSuperseded, hence Runner.supersede.
RenewSuperseded(n) ==
  /\ renewing[n] > 0 /\ latest > n
  /\ Stop(n)
  /\ UNCHANGED <<clock, apiVars, lease, released, writing, inFlight, last>>

\* ... or the look-up failed: logged, and the next renewal tries again.
RenewFailed(n) ==
  /\ renewing[n] > 0
  /\ renewing' = [renewing EXCEPT ![n] = @ - 1]
  /\ UNCHANGED <<clock, apiVars, lease, released, chain, writing, phase,
                 checkedAt, fenceVars, inFlight, last>>

\* RunLease.release, the last step of Runner.finish: stop renewing and
\* queue the expired lease.
Release(n) ==
  /\ phase[n] = "running"
  /\ Enqueue(n, "expire")
  /\ phase' = [phase EXCEPT ![n] = "releasing"]
  /\ UNCHANGED <<clock, apiVars, lease, released, writing, renewing,
                 checkedAt, fenceVars, inFlight, last>>

\* A lease write that promises the folder until expiresAt.
LeaseWriteOf(n, expiresAt) ==
  /\ phase[n] \in Alive /\ writing[n] = NoWrite /\ chain[n] # <<>>
  /\ MayWrite(n)
  /\ writing' = [writing EXCEPT ![n] = [kind |-> Head(chain[n]), expiresAt |-> expiresAt,
                                        deadline |-> clock + FileTime, landed |-> FALSE]]
  /\ chain' = [chain EXCEPT ![n] = Tail(@)]
  /\ UNCHANGED <<clock, apiVars, lease, released, renewing, phase, checkedAt,
                 fenceVars, inFlight, last>>

\* MUTANT of BeginLeaseWrite: the final lease is dated back a whole term.
BeginLeaseWriteDatedBack(n) ==
  LeaseWriteOf(n, IF Head(chain[n]) = "expire" THEN clock - Ttl ELSE clock + Ttl)

\* The next queued lease write passes the fence; its expiry is computed now.
BeginLeaseWrite(n) ==
  LeaseWriteOf(n, clock + (IF Head(chain[n]) = "expire" THEN 0 ELSE Ttl))

\* A lease write queued behind the final one finds the fence closed.
DropLeaseWrite(n) ==
  /\ phase[n] \in Alive /\ writing[n] = NoWrite /\ chain[n] # <<>>
  /\ closed[n]
  /\ chain' = [chain EXCEPT ![n] = Tail(@)]
  /\ UNCHANGED <<clock, apiVars, lease, released, writing, renewing, phase,
                 checkedAt, fenceVars, inFlight, last>>

\* The rename: the Sessions API and a booting harness see the new lease.
LandLeaseWrite(n) ==
  /\ writing[n] # NoWrite /\ ~writing[n].landed
  /\ lease' = [lease EXCEPT ![n] = writing[n].expiresAt]
  /\ released' = [released EXCEPT ![n] = @ \/ writing[n].kind = "expire"]
  /\ writing' = [writing EXCEPT ![n] = [@ EXCEPT !.landed = TRUE]]
  /\ UNCHANGED <<clock, apiVars, chain, renewing, phase, checkedAt, fenceVars,
                 inFlight, last>>

\* MUTANT of SettleLeaseWrite: the term counts from the end of the write.
SettleLeaseWriteFromNow(n) ==
  /\ phase[n] \in Alive /\ writing[n].landed
  /\ writing' = [writing EXCEPT ![n] = NoWrite]
  /\ \/ /\ writing[n].kind = "keep"
        /\ validUntil' = [validUntil EXCEPT ![n] = clock + Ttl]
        /\ UNCHANGED closed
     \/ /\ writing[n].kind = "expire"
        /\ closed' = [closed EXCEPT ![n] = TRUE]
        /\ UNCHANGED validUntil
  /\ phase' = [phase EXCEPT ![n] = IF @ = "booting" THEN "running" ELSE @]
  /\ UNCHANGED <<clock, apiVars, lease, released, chain, renewing, checkedAt,
                 inFlight, last>>

\* The harness learns that the write succeeded: Fence.renewed, or, after
\* the final lease, Fence.close.
SettleLeaseWrite(n) ==
  /\ phase[n] \in Alive /\ writing[n].landed
  /\ writing' = [writing EXCEPT ![n] = NoWrite]
  /\ \/ /\ writing[n].kind = "keep"
        /\ validUntil' = [validUntil EXCEPT ![n] =
             IF closed[n] THEN @ ELSE writing[n].expiresAt]
        /\ UNCHANGED closed
     \/ /\ writing[n].kind = "expire"
        /\ closed' = [closed EXCEPT ![n] = TRUE]
        /\ UNCHANGED validUntil
  /\ phase' = [phase EXCEPT ![n] = IF @ = "booting" THEN "running" ELSE @]
  /\ UNCHANGED <<clock, apiVars, lease, released, chain, renewing, checkedAt,
                 inFlight, last>>

\* MUTANT of FailLeaseWrite: a failed renewal renews the fence all the same.
FailLeaseWriteRenews(n) ==
  /\ phase[n] \in {"running", "releasing"} /\ writing[n] # NoWrite
  /\ writing' = [writing EXCEPT ![n] = NoWrite]
  /\ closed' = [closed EXCEPT ![n] = @ \/ writing[n].kind = "expire"]
  /\ validUntil' = [validUntil EXCEPT ![n] = writing[n].expiresAt]
  /\ UNCHANGED <<clock, apiVars, lease, released, chain, renewing, phase,
                 checkedAt, inFlight, last>>

\* The harness sees the write fail, though it may have reached the folder.
\* A renewal's failure is only logged; release() closes the fence all the same.
FailLeaseWrite(n) ==
  /\ phase[n] \in {"running", "releasing"} /\ writing[n] # NoWrite
  /\ writing' = [writing EXCEPT ![n] = NoWrite]
  /\ closed' = [closed EXCEPT ![n] = @ \/ writing[n].kind = "expire"]
  /\ UNCHANGED <<clock, apiVars, lease, released, chain, renewing, phase,
                 checkedAt, validUntil, inFlight, last>>

\* The first write fails: start() rejects and the harness exits.
FailFirstLeaseWrite(n) ==
  /\ phase[n] = "booting" /\ writing[n] # NoWrite
  /\ writing' = [writing EXCEPT ![n] = NoWrite]
  /\ Stop(n)
  /\ UNCHANGED <<clock, apiVars, lease, released, inFlight, last>>

\* The process that began the write is gone; so is the write, in the end.
ForgetLeaseWrite(n) ==
  /\ phase[n] = "stopped" /\ writing[n] # NoWrite
  /\ writing' = [writing EXCEPT ![n] = NoWrite]
  /\ UNCHANGED <<clock, apiVars, lease, released, chain, renewing, phase,
                 checkedAt, fenceVars, inFlight, last>>

-----------------------------------------------------------------------------
(* All other writes: events, commands.done, session.json, work files, git. *)

\* A write passes the fence, which a git command asks only when it starts.
\* While `releasing', these are what finish() stopped waiting for: a turn, a
\* plugin's git, a session.json update.
BeginWrite(n, git) ==
  /\ phase[n] \in {"running", "releasing"} /\ MayWrite(n)
  /\ Cardinality(inFlight[n]) < MaxInFlight
  /\ inFlight' = [inFlight EXCEPT ![n] =
       @ \cup {[git |-> git, deadline |-> clock + Duration(git)]}]
  /\ UNCHANGED <<clock, apiVars, leaseVars, phase, checkedAt, fenceVars, last>>

\* It reaches the folder, whatever became of its process meanwhile.
LandWrite(n, w) ==
  /\ w \in inFlight[n]
  /\ inFlight' = [inFlight EXCEPT ![n] = @ \ {w}]
  /\ last' = [run |-> n, newest |-> latest, afterRelease |-> released[n],
              git |-> w.git]
  /\ UNCHANGED <<clock, apiVars, leaseVars, phase, checkedAt, fenceVars>>

\* It fails, or is lost with its process.
LoseWrite(n, w) ==
  /\ w \in inFlight[n]
  /\ inFlight' = [inFlight EXCEPT ![n] = @ \ {w}]
  /\ UNCHANGED <<clock, apiVars, leaseVars, phase, checkedAt, fenceVars, last>>

-----------------------------------------------------------------------------

\* The process ends: a crash, SIGKILL, or the end of finish() (which waits
\* at most 2 s for the release).
Exit(n) ==
  /\ phase[n] \in Alive \cup {"checking"}
  /\ Stop(n)
  /\ UNCHANGED <<clock, apiVars, lease, released, writing, inFlight, last>>

\* Time passes, but no write under way outlives its deadline.
Tick ==
  /\ clock < MaxTime
  /\ \A n \in Run :
       /\ writing[n] # NoWrite /\ ~writing[n].landed => clock < writing[n].deadline
       /\ \A w \in inFlight[n] : clock < w.deadline
  /\ clock' = clock + 1
  /\ UNCHANGED <<apiVars, leaseVars, phase, checkedAt, fenceVars, inFlight, last>>

Api(n) == WriteStartingLease(n) \/ AbandonStart(n) \/ ExpireFailedStart(n)

Harness(n) ==
  \/ CheckRecord(n) \/ CheckLease(n) \/ FenceRefuses(n) \/ Exit(n)
  \/ SetState(n) \/ Release(n)
  \/ RenewCheck(n) \/ RenewWrite(n) \/ RenewSuperseded(n) \/ RenewFailed(n)
  \/ BeginLeaseWrite(n) \/ DropLeaseWrite(n)
  \/ SettleLeaseWrite(n) \/ FailLeaseWrite(n) \/ FailFirstLeaseWrite(n)
  \/ \E git \in BOOLEAN : BeginWrite(n, git)

Mount(n) ==
  \/ LandLeaseWrite(n) \/ ForgetLeaseWrite(n)
  \/ \E w \in inFlight[n] : LandWrite(n, w) \/ LoseWrite(n, w)

Next ==
  \/ Tick
  \/ CreateRun
  \/ \E n \in Run : Api(n) \/ Harness(n) \/ Mount(n)

Spec == Init /\ [][Next]_vars

-----------------------------------------------------------------------------
(* Properties.                                                             *)

\* The two facts the fence rests on: the Sessions API waits for a lease to
\* run out, and writing a file, with the API's clock as wrong as it may be,
\* takes no longer than the margin.  Nothing is assumed of git commands.
MarginCoversFiles ==
  ApiWaits /\ FileTime + Skew <= Margin

(***************************************************************************)
(* A file is written only while its run is the newest, unless the run's    *)
(* released lease had reached the folder before (lease.ts, Fence: a failed *)
(* or late renewal stops all writes before the lease runs out).  What a git*)
(* command writes late is not: WritesEndBeforeLease says how late.         *)
(***************************************************************************)
OnlyNewestRunWrites ==
  last.newest = last.run \/ last.afterRelease \/ last.git

(***************************************************************************)
(* The margin is all that a write under way may use up of its own time     *)
(* beyond the lease in the folder: a file that is written in the margin is *)
(* over before any clock within Skew sees the lease run out, and a git     *)
(* command outlasts the lease by less than its time exceeds the margin     *)
(* (git.ts: 120 s, checked when it starts; lease.ts: 15 s).                *)
(***************************************************************************)
WritesEndBeforeLease ==
  \A n \in Run : ~released[n] =>
    \A w \in inFlight[n] : w.deadline + Margin < lease[n] + Duration(w.git)

\* Run n, its lease not released, may begin a write or is writing a file.
Writes(n) ==
  /\ ~released[n]
  /\ \/ phase[n] \in {"running", "releasing"} /\ MayWrite(n)
     \/ \E w \in inFlight[n] : ~w.git

(***************************************************************************)
(* No two runs write files or begin git commands at once: while one may,   *)
(* no other may and nothing of another is under way but git commands begun *)
(* before, unless the other's released lease is in the folder.             *)
(***************************************************************************)
AtMostOneWriter ==
  \A m, n \in Run : Writes(m) /\ Writes(n) => m = n

(***************************************************************************)
(* RunLease implements SingleWriter: the folder passes from run to run,    *)
(* git commands begin only in the current run's hands, and no step of the  *)
(* files, the fence or the clock shows in between.                         *)
(***************************************************************************)
Folder == INSTANCE SingleWriter
  WITH current <- latest, letGo <- {n \in Run : released[n]},
       busy <- {n \in Run : \E w \in inFlight[n] : w.git}, last <- last

ImplementsSingleWriter == Folder!Spec

=============================================================================
