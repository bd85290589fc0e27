--------------------------- MODULE RunLease_proofs ---------------------------
(***************************************************************************)
(* Proofs that the fence does its work, for every value of the constants:  *)
(* type correctness of RunLease and, when MarginCoversFiles, its safety   *)
(* invariants and the single writer it implements; then what the timers of *)
(* LeaseTimers buy a harness that is scheduled on time.                    *)
(***************************************************************************)
EXTENDS LeaseTimers, SequenceTheorems, TLAPS

Held == {"running", "releasing"}

Unlanded(n) == writing[n] # NoWrite /\ ~writing[n].landed

-----------------------------------------------------------------------------
(* The inductive invariant, part by part.                                  *)

\* A run's life follows its record's; a harness has nothing under way
\* before it holds the lease.
Lives(n) ==
  /\ n \in starting => n <= latest /\ phase[n] = "absent"
  /\ phase[n] # "absent" \/ lease[n] # 0 => n <= latest
  /\ phase[n] \in {"absent", "checking"} => writing[n] = NoWrite
  /\ phase[n] \in {"absent", "checking", "booting"} => ~closed[n]
  /\ renewing[n] # 0 => phase[n] \in Held
  /\ phase[n] \notin Held \cup {"stopped"} => inFlight[n] = {}

\* The first lease write: until it begins the fence stands on the starting
\* lease exactly, and nothing is behind it.
FirstWrite(n) ==
  phase[n] = "booting" =>
    /\ chain[n] # <<>> => /\ chain[n] = <<"keep">>
                          /\ writing[n] = NoWrite
                          /\ validUntil[n] = lease[n]
    /\ writing[n] # NoWrite => chain[n] = <<>> /\ writing[n].kind = "keep"

\* A lease write promises no more than a full lease from now.
Promises(n) ==
  /\ writing[n] # NoWrite => writing[n].expiresAt <= clock + Ttl
  /\ phase[n] \in Held => validUntil[n] <= clock + Ttl
  /\ phase[n] \in Held /\ ~released[n] => lease[n] <= clock + Ttl
  /\ phase[n] \in Held /\ writing[n].kind = "keep" => validUntil[n] <= writing[n].expiresAt
  /\ ~released[n] /\ writing[n].kind = "keep" /\ writing[n].landed =>
       lease[n] = writing[n].expiresAt
  /\ ~released[n] /\ writing[n].kind = "expire" => ~writing[n].landed

\* The fence never stands on more than the lease in the folder.
FenceInLease(n) ==
  phase[n] \in Held /\ ~closed[n] /\ ~released[n] => validUntil[n] <= lease[n]

\* The margin is all that a write under way may use up beyond the lease.
CoveredBy(w, expiresAt) == w.deadline + Margin < expiresAt + Duration(w.git)

\* Every write under way is covered by the lease in the folder, and by the
\* one that is to replace it; a lease write is over before the lease runs out.
Covered(n) ==
  ~released[n] =>
    /\ \A w \in inFlight[n] :
         /\ clock <= w.deadline
         /\ CoveredBy(w, lease[n])
         /\ Unlanded(n) /\ writing[n].kind = "keep" => CoveredBy(w, writing[n].expiresAt)
    /\ Unlanded(n) =>
         /\ clock <= writing[n].deadline
         /\ writing[n].deadline + Skew < lease[n]

\* Once a newer run exists the lease has run out, with nothing under way but
\* git commands.
Superseded(n) ==
  n < latest /\ ~released[n] =>
    /\ \A w \in inFlight[n] : w.git
    /\ ~Unlanded(n)
    /\ phase[n] \in Alive \cup {"checking"} => lease[n] <= clock + Skew

LeaseInv(n) ==
  /\ Lives(n) /\ FirstWrite(n) /\ Promises(n)
  /\ FenceInLease(n) /\ Covered(n) /\ Superseded(n)

IInv == TypeOK /\ (\A n \in Run : LeaseInv(n)) /\ OnlyNewestRunWrites

-----------------------------------------------------------------------------
(* Type correctness.                                                       *)

\* What the fields of a lease write hold.
LEMMA WriteTypes ==
  /\ NoWrite \notin LeaseWrite
  /\ NoWrite.kind = "none" /\ NoWrite.landed = FALSE
  /\ \A w \in LeaseWrite \cup {NoWrite} :
       /\ w.expiresAt \in Nat /\ w.deadline \in Nat /\ w.landed \in BOOLEAN
       /\ w # NoWrite => w \in LeaseWrite /\ w.kind \in WriteKind
<1>1. /\ NoWrite.kind = "none" /\ NoWrite.landed = FALSE
      /\ NoWrite.expiresAt = 0 /\ NoWrite.deadline = 0
  BY DEF NoWrite
<1>2. \A w \in LeaseWrite : /\ w.expiresAt \in Nat /\ w.deadline \in Nat
                           /\ w.landed \in BOOLEAN /\ w.kind \in WriteKind
  BY DEF LeaseWrite, Time
<1>3. NoWrite \notin LeaseWrite
  BY <1>1, <1>2 DEF WriteKind
<1>4. /\ NoWrite.expiresAt \in Nat /\ NoWrite.deadline \in Nat
      /\ NoWrite.landed \in BOOLEAN
  BY DEF NoWrite
<1> QED
  BY <1>1, <1>2, <1>3, <1>4

\* Enqueue keeps the queue a sequence of lease writes.
LEMMA EnqueueType ==
  ASSUME TypeOK, NEW n \in Run, NEW kind \in WriteKind, Enqueue(n, kind)
  PROVE  chain' \in [Run -> Seq(WriteKind)]
BY DEF TypeOK, Enqueue

\* Stop keeps the types of what it resets.
LEMMA StopType ==
  ASSUME TypeOK, NEW n \in Run, Stop(n)
  PROVE  /\ phase' \in [Run -> Phase] /\ checkedAt' \in [Run -> Time]
         /\ validUntil' \in [Run -> Time] /\ closed' \in [Run -> BOOLEAN]
         /\ chain' \in [Run -> Seq(WriteKind)] /\ renewing' \in [Run -> 0..MaxRenewing]
<1>1. /\ phase' \in [Run -> Phase] /\ closed' \in [Run -> BOOLEAN]
      /\ renewing' \in [Run -> 0..MaxRenewing]
  BY BoundsAssumption DEF TypeOK, Stop, Phase
<1>2. checkedAt' \in [Run -> Time] /\ validUntil' \in [Run -> Time]
  BY BoundsAssumption, TimeAssumption DEF TypeOK, Stop, Time
<1>3. chain' \in [Run -> Seq(WriteKind)]
  BY DEF TypeOK, Stop
<1> QED
  BY <1>1, <1>2, <1>3

\* The leases the Sessions API writes are times.
LEMMA ApiLeaseType ==
  ASSUME TypeOK, NEW n \in Run, WriteStartingLease(n) \/ ExpireFailedStart(n)
  PROVE  lease' \in [Run -> Time]
<1>1. \A now \in ApiNow : now \in Nat /\ now + Grace \in Nat
  BY TimeAssumption DEF ApiNow, TypeOK, Time
<1>2. PICK t \in Nat : lease' = [lease EXCEPT ![n] = t]
  BY <1>1 DEF WriteStartingLease, ExpireFailedStart
<1> QED
  BY <1>2 DEF TypeOK, Time

\* The number of renewals under way stays within its bound.
LEMMA RenewingType ==
  ASSUME TypeOK, NEW n \in Run, RenewCheck(n) \/ RenewWrite(n) \/ RenewFailed(n)
  PROVE  renewing' \in [Run -> 0..MaxRenewing]
<1>1. renewing[n] \in 0..MaxRenewing /\ MaxRenewing \in Nat
  BY BoundsAssumption DEF TypeOK
<1>2. PICK k \in 0..MaxRenewing : renewing' = [renewing EXCEPT ![n] = k]
  <2>1. renewing[n] < MaxRenewing => renewing[n] + 1 \in 0..MaxRenewing
    BY <1>1
  <2>2. renewing[n] > 0 => renewing[n] - 1 \in 0..MaxRenewing
    BY <1>1
  <2> QED
    BY <2>1, <2>2 DEF RenewCheck, RenewWrite, RenewFailed
<1> QED
  BY <1>2 DEF TypeOK

\* Each step keeps the types: by the definition of each action.
LEMMA TypeStep == TypeOK /\ [Next]_vars => TypeOK'
<1> SUFFICES ASSUME TypeOK, [Next]_vars PROVE TypeOK'
  OBVIOUS
<1> USE BoundsAssumption, TimeAssumption DEF TypeOK, Time, Run, Phase, apiVars, fenceVars, leaseVars
<1>1. CASE Tick
  <2>1. clock' \in Time
    BY <1>1 DEF Tick
  <2>2. UNCHANGED <<apiVars, leaseVars, phase, checkedAt, fenceVars, inFlight, last>>
    BY <1>1 DEF Tick
  <2> QED
    BY <2>1, <2>2, ZenonT(40)
<1>2. CASE CreateRun
  <2>1. latest' \in 0..MaxRun /\ starting' \subseteq Run
    BY <1>2, SMTT(40) DEF CreateRun
  <2>2. UNCHANGED <<clock, leaseVars, phase, checkedAt, fenceVars, inFlight, last>>
    BY <1>2 DEF CreateRun
  <2> QED
    BY <2>1, <2>2
<1>3. ASSUME NEW n \in Run, Api(n) PROVE TypeOK'
  <2>1. CASE WriteStartingLease(n)
    <3>1. lease' \in [Run -> Time]
      BY <2>1, ApiLeaseType
    <3> QED
      BY <2>1, <3>1 DEF WriteStartingLease
  <2>2. CASE AbandonStart(n)
    BY <2>2 DEF AbandonStart
  <2>3. CASE ExpireFailedStart(n)
    <3>1. lease' \in [Run -> Time]
      BY <2>3, ApiLeaseType
    <3> QED
      BY <2>3, <3>1 DEF ExpireFailedStart
  <2> QED
    BY <1>3, <2>1, <2>2, <2>3 DEF Api
<1>4. ASSUME NEW n \in Run, Harness(n) PROVE TypeOK'
  <2>1. CASE CheckRecord(n)
    <3>1. phase' \in [Run -> Phase]
      BY <2>1 DEF CheckRecord
    <3>2. checkedAt' \in [Run -> Time]
      <4>1. checkedAt' = checkedAt \/ checkedAt' = [checkedAt EXCEPT ![n] = clock]
        BY <2>1 DEF CheckRecord
      <4>2. checkedAt \in [Run -> Time] /\ clock \in Time
        OBVIOUS
      <4> QED
        BY ONLY <4>1, <4>2
    <3> QED
      BY <2>1, <3>1, <3>2 DEF CheckRecord
  <2>2. CASE CheckLease(n)
    <3>1. /\ phase' \in [Run -> Phase] /\ closed' \in [Run -> BOOLEAN]
          /\ renewing' \in [Run -> 0..MaxRenewing]
      <4>1. phase' \in [Run -> Phase] /\ closed' \in [Run -> BOOLEAN]
        BY <2>2 DEF CheckLease, Stop
      <4>2. 0 \in 0..MaxRenewing
        OBVIOUS
      <4>3. renewing' = renewing \/ renewing' = [renewing EXCEPT ![n] = 0]
        BY <2>2 DEF CheckLease, Stop
      <4>4. renewing \in [Run -> 0..MaxRenewing]
        OBVIOUS
      <4>5. [renewing EXCEPT ![n] = 0] \in [Run -> 0..MaxRenewing]
        BY <4>2, <4>4
      <4>6. renewing' \in [Run -> 0..MaxRenewing]
        BY ONLY <4>3, <4>4, <4>5
      <4> QED
        BY ONLY <4>1, <4>6
    <3>2. checkedAt' = [checkedAt EXCEPT ![n] = 0]
      BY <2>2 DEF CheckLease, Stop
    <3>3. \E t \in {lease[n], 0} : validUntil' = [validUntil EXCEPT ![n] = t]
      BY <2>2 DEF CheckLease, Stop
    <3>4. PICK q \in Seq(WriteKind) : chain' = [chain EXCEPT ![n] = q]
      <4>1. <<"keep">> \in Seq(WriteKind) /\ <<>> \in Seq(WriteKind)
        BY DEF WriteKind
      <4> QED
        BY <2>2, <4>1 DEF CheckLease, Stop
    <3>5. checkedAt' \in [Run -> Time]
      BY <3>2
    <3>6. validUntil' \in [Run -> Time]
      BY <3>3
    <3>7. chain' \in [Run -> Seq(WriteKind)]
      BY <3>4
    <3> QED
      BY <2>2, <3>1, <3>5, <3>6, <3>7 DEF CheckLease
  <2>3. CASE FenceRefuses(n)
    BY <2>3, StopType DEF FenceRefuses
  <2>4. CASE Exit(n)
    BY <2>4, StopType DEF Exit
  <2>5. CASE SetState(n)
    <3>1. chain' \in [Run -> Seq(WriteKind)]
      BY EnqueueType, <2>5 DEF SetState, WriteKind
    <3> QED
      BY <2>5, <3>1 DEF SetState
  <2>6. CASE Release(n)
    <3>1. chain' \in [Run -> Seq(WriteKind)]
      BY EnqueueType, <2>6 DEF Release, WriteKind
    <3> QED
      BY <2>6, <3>1 DEF Release
  <2>7. CASE RenewCheck(n)
    <3>1. renewing' \in [Run -> 0..MaxRenewing]
      BY <2>7, RenewingType
    <3> QED
      BY <2>7, <3>1 DEF RenewCheck
  <2>8. CASE RenewWrite(n)
    <3>1. chain' \in [Run -> Seq(WriteKind)]
      BY EnqueueType, <2>8 DEF RenewWrite, WriteKind
    <3>2. renewing' \in [Run -> 0..MaxRenewing]
      BY <2>8, RenewingType
    <3> QED
      BY <2>8, <3>1, <3>2 DEF RenewWrite
  <2>9. CASE RenewSuperseded(n)
    BY <2>9, StopType DEF RenewSuperseded
  <2>10. CASE RenewFailed(n)
    <3>1. renewing' \in [Run -> 0..MaxRenewing]
      BY <2>10, RenewingType
    <3> QED
      BY <2>10, <3>1 DEF RenewFailed
  <2>11. CASE BeginLeaseWrite(n)
    <3>1. chain' \in [Run -> Seq(WriteKind)]
      BY <2>11 DEF BeginLeaseWrite, LeaseWriteOf
    <3>2. writing' \in [Run -> LeaseWrite \cup {NoWrite}]
      <4> DEFINE until == clock + (IF Head(chain[n]) = "expire" THEN 0 ELSE Ttl)
                 new == [kind |-> Head(chain[n]), expiresAt |-> until,
                         deadline |-> clock + FileTime, landed |-> FALSE]
      <4>1. writing' = [writing EXCEPT ![n] = new] /\ chain[n] # <<>>
        BY <2>11 DEF BeginLeaseWrite, LeaseWriteOf
      <4>2. Head(chain[n]) \in WriteKind
        BY <4>1
      <4>3. until \in Nat /\ clock + FileTime \in Nat
        OBVIOUS
      <4> HIDE DEF until
      <4>4. new \in LeaseWrite
        BY <4>2, <4>3 DEF LeaseWrite
      <4> HIDE DEF new
      <4>5. QED
        BY <4>1, <4>4
    <3> QED
      BY <2>11, <3>1, <3>2 DEF BeginLeaseWrite, LeaseWriteOf
  <2>12. CASE DropLeaseWrite(n)
    <3>1. chain' \in [Run -> Seq(WriteKind)]
      BY <2>12 DEF DropLeaseWrite
    <3> QED
      BY <2>12, <3>1 DEF DropLeaseWrite
  <2>13. CASE SettleLeaseWrite(n)
    <3>1. writing' \in [Run -> LeaseWrite \cup {NoWrite}]
      BY <2>13 DEF SettleLeaseWrite
    <3>2. validUntil' \in [Run -> Time] /\ closed' \in [Run -> BOOLEAN]
      BY WriteTypes, <2>13 DEF SettleLeaseWrite
    <3>3. phase' \in [Run -> Phase]
      BY <2>13 DEF SettleLeaseWrite
    <3> QED
      BY <2>13, <3>1, <3>2, <3>3 DEF SettleLeaseWrite
  <2>14. CASE FailLeaseWrite(n)
    BY WriteTypes, <2>14 DEF FailLeaseWrite
  <2>15. CASE FailFirstLeaseWrite(n)
    BY WriteTypes, StopType, <2>15 DEF FailFirstLeaseWrite
  <2>16. ASSUME NEW git \in BOOLEAN, BeginWrite(n, git) PROVE TypeOK'
    <3>1. [git |-> git, deadline |-> clock + Duration(git)] \in DataWrite
      BY DEF DataWrite, Duration
    <3>2. inFlight' \in [Run -> SUBSET DataWrite]
      BY <2>16, <3>1 DEF BeginWrite
    <3>3. UNCHANGED <<clock, apiVars, leaseVars, phase, checkedAt, fenceVars, last>>
      BY <2>16 DEF BeginWrite
    <3> QED
      BY <3>2, <3>3
  <2> HIDE DEF TypeOK, Time, Run, Phase, apiVars, fenceVars, leaseVars
  <2> QED
    BY <1>4, <2>1, <2>2, <2>3, <2>4, <2>5, <2>6, <2>7, <2>8, <2>9, <2>10, <2>11, <2>12, <2>13, <2>14, <2>15, <2>16, ZenonT(60) DEF Harness
<1>5. ASSUME NEW n \in Run, Mount(n) PROVE TypeOK'
  <2>1. CASE LandLeaseWrite(n)
    <3>1. writing' \in [Run -> LeaseWrite \cup {NoWrite}]
      <4>1. writing' = [writing EXCEPT ![n] = [writing[n] EXCEPT !.landed = TRUE]]
            /\ writing[n] \in LeaseWrite /\ writing \in [Run -> LeaseWrite \cup {NoWrite}]
        BY <2>1 DEF LandLeaseWrite
      <4>2. [writing[n] EXCEPT !.landed = TRUE] \in LeaseWrite
        BY <4>1 DEF LeaseWrite
      <4>3. QED
        BY <4>1, <4>2
    <3>2. released' \in [Run -> BOOLEAN]
      BY <2>1 DEF LandLeaseWrite
    <3>3. lease' \in [Run -> Time]
      BY WriteTypes, <2>1 DEF LandLeaseWrite
    <3> QED
      BY <2>1, <3>1, <3>2, <3>3 DEF LandLeaseWrite
  <2>2. CASE ForgetLeaseWrite(n)
    BY WriteTypes, <2>2 DEF ForgetLeaseWrite
  <2>3. ASSUME NEW w \in inFlight[n], LandWrite(n, w) PROVE TypeOK'
    <3>1. last' \in Landing
      BY <2>3 DEF LandWrite, Landing, DataWrite
    <3>2. inFlight' \in [Run -> SUBSET DataWrite]
      BY <2>3 DEF LandWrite
    <3> QED
      BY <2>3, <3>1, <3>2 DEF LandWrite
  <2>4. ASSUME NEW w \in inFlight[n], LoseWrite(n, w) PROVE TypeOK'
    BY <2>4 DEF LoseWrite
  <2> QED
    BY <1>5, <2>1, <2>2, <2>3, <2>4 DEF Mount
<1>6. CASE UNCHANGED vars
  BY <1>6 DEF vars
<1> QED
  BY <1>1, <1>2, <1>3, <1>4, <1>5, <1>6 DEF Next

\* Every reachable state has the declared types.
THEOREM TypeCorrect == Spec => []TypeOK
<1>1. Init => TypeOK
  BY BoundsAssumption, WriteTypes DEF Init, TypeOK, Run, Time, Phase, Landing
<1> QED
  BY <1>1, TypeStep, PTL DEF Spec

-----------------------------------------------------------------------------
(* The inductive step.                                                     *)

\* What a data write holds.
LEMMA DataTypes ==
  /\ \A git \in BOOLEAN : Duration(git) \in Nat
  /\ \A w \in DataWrite : w.git \in BOOLEAN /\ w.deadline \in Nat /\ Duration(w.git) \in Nat
BY TimeAssumption DEF DataWrite, Duration, Time

\* What a step of run n leaves alone in the state of run k.
Same(k) ==
  /\ clock' = clock /\ latest' = latest
  /\ k \in starting' => k \in starting
  /\ lease'[k] = lease[k] /\ released'[k] = released[k]
  /\ phase'[k] = phase[k] /\ validUntil'[k] = validUntil[k] /\ closed'[k] = closed[k]
  /\ chain'[k] = chain[k] /\ writing'[k] = writing[k] /\ inFlight'[k] = inFlight[k]
  /\ renewing'[k] = renewing[k]

LEMMA Frame ==
  ASSUME NEW k \in Run, LeaseInv(k), Same(k)
  PROVE  LeaseInv(k)'
BY DEF Same, LeaseInv, Lives, FirstWrite, Promises, FenceInLease, Covered,
       Superseded, Unlanded

LEMMA WriteStartingLeaseStep ==
  ASSUME MarginCoversFiles, TypeOK, NEW n \in Run, LeaseInv(n), WriteStartingLease(n)
  PROVE  LeaseInv(n)' /\ \A k \in Run \ {n} : Same(k)
BY BoundsAssumption, TimeAssumption, WriteTypes
DEF TypeOK, apiVars, fenceVars, leaseVars, WriteStartingLease, ApiNow, LeaseInv, Lives, FirstWrite,
    Promises, FenceInLease, Covered, Superseded, Unlanded, Held, Alive, Same

LEMMA AbandonStartStep ==
  ASSUME MarginCoversFiles, TypeOK, NEW n \in Run, LeaseInv(n), AbandonStart(n)
  PROVE  LeaseInv(n)' /\ \A k \in Run \ {n} : Same(k)
BY BoundsAssumption, TimeAssumption, WriteTypes
DEF TypeOK, apiVars, fenceVars, leaseVars, AbandonStart, LeaseInv, Lives, FirstWrite,
    Promises, FenceInLease, Covered, Superseded, Unlanded, Held, Alive, Same

LEMMA ExpireFailedStartStep ==
  ASSUME MarginCoversFiles, TypeOK, NEW n \in Run, LeaseInv(n), ExpireFailedStart(n)
  PROVE  LeaseInv(n)' /\ \A k \in Run \ {n} : Same(k)
<1>1. \A k \in Run \ {n} : Same(k)
  BY DEF TypeOK, ExpireFailedStart, apiVars, fenceVars, Same
<1>2. /\ phase[n] = "absent" /\ phase'[n] = "stopped" /\ n \notin starting'
      /\ writing'[n] = NoWrite /\ inFlight'[n] = {} /\ renewing'[n] = 0
      /\ UNCHANGED <<clock, latest>>
  BY DEF TypeOK, ExpireFailedStart, apiVars, LeaseInv, Lives, Held
<1>3. lease[n] > clock
  BY DEF ExpireFailedStart
<1>4. n <= latest'
  BY <1>2, <1>3 DEF TypeOK, Time, LeaseInv, Lives
<1> QED
  BY <1>1, <1>2, <1>4, WriteTypes
  DEF LeaseInv, Lives, FirstWrite, Promises, FenceInLease, Covered, Superseded,
      Unlanded, Held, Alive

LEMMA CheckRecordStep ==
  ASSUME MarginCoversFiles, TypeOK, NEW n \in Run, LeaseInv(n), CheckRecord(n)
  PROVE  LeaseInv(n)' /\ \A k \in Run \ {n} : Same(k)
BY BoundsAssumption, TimeAssumption, WriteTypes
DEF TypeOK, apiVars, fenceVars, leaseVars, CheckRecord, LeaseInv, Lives, FirstWrite,
    Promises, FenceInLease, Covered, Superseded, Unlanded, Held, Alive, Same

LEMMA CheckLeaseStep ==
  ASSUME MarginCoversFiles, TypeOK, NEW n \in Run, LeaseInv(n), CheckLease(n)
  PROVE  LeaseInv(n)' /\ \A k \in Run \ {n} : Same(k)
BY BoundsAssumption, TimeAssumption, WriteTypes
DEF TypeOK, apiVars, fenceVars, leaseVars, CheckLease, Stop, LeaseInv, Lives, FirstWrite,
    Promises, FenceInLease, Covered, Superseded, Unlanded, Held, Alive, Same

LEMMA FenceRefusesStep ==
  ASSUME MarginCoversFiles, TypeOK, NEW n \in Run, LeaseInv(n), FenceRefuses(n)
  PROVE  LeaseInv(n)' /\ \A k \in Run \ {n} : Same(k)
BY BoundsAssumption, TimeAssumption, WriteTypes
DEF TypeOK, apiVars, fenceVars, leaseVars, FenceRefuses, Stop, MayWrite, LeaseInv, Lives, FirstWrite,
    Promises, FenceInLease, Covered, Superseded, Unlanded, Held, Alive, Same

LEMMA ExitStep ==
  ASSUME MarginCoversFiles, TypeOK, NEW n \in Run, LeaseInv(n), Exit(n)
  PROVE  LeaseInv(n)' /\ \A k \in Run \ {n} : Same(k)
BY BoundsAssumption, TimeAssumption, WriteTypes
DEF TypeOK, apiVars, fenceVars, leaseVars, Exit, Stop, LeaseInv, Lives, FirstWrite,
    Promises, FenceInLease, Covered, Superseded, Unlanded, Held, Alive, Same

LEMMA SetStateStep ==
  ASSUME MarginCoversFiles, TypeOK, NEW n \in Run, LeaseInv(n), SetState(n)
  PROVE  LeaseInv(n)' /\ \A k \in Run \ {n} : Same(k)
BY BoundsAssumption, TimeAssumption, WriteTypes
DEF TypeOK, apiVars, fenceVars, leaseVars, SetState, Enqueue, LeaseInv, Lives, FirstWrite,
    Promises, FenceInLease, Covered, Superseded, Unlanded, Held, Alive, Same

LEMMA ReleaseStep ==
  ASSUME MarginCoversFiles, TypeOK, NEW n \in Run, LeaseInv(n), Release(n)
  PROVE  LeaseInv(n)' /\ \A k \in Run \ {n} : Same(k)
BY BoundsAssumption, TimeAssumption, WriteTypes
DEF TypeOK, apiVars, fenceVars, leaseVars, Release, Enqueue, LeaseInv, Lives, FirstWrite,
    Promises, FenceInLease, Covered, Superseded, Unlanded, Held, Alive, Same

LEMMA RenewCheckStep ==
  ASSUME MarginCoversFiles, TypeOK, NEW n \in Run, LeaseInv(n), RenewCheck(n)
  PROVE  LeaseInv(n)' /\ \A k \in Run \ {n} : Same(k)
BY BoundsAssumption, TimeAssumption, WriteTypes
DEF TypeOK, apiVars, fenceVars, leaseVars, RenewCheck, LeaseInv, Lives, FirstWrite,
    Promises, FenceInLease, Covered, Superseded, Unlanded, Held, Alive, Same

LEMMA RenewWriteStep ==
  ASSUME MarginCoversFiles, TypeOK, NEW n \in Run, LeaseInv(n), RenewWrite(n)
  PROVE  LeaseInv(n)' /\ \A k \in Run \ {n} : Same(k)
BY BoundsAssumption, TimeAssumption, WriteTypes
DEF TypeOK, apiVars, fenceVars, leaseVars, RenewWrite, Enqueue, LeaseInv, Lives, FirstWrite,
    Promises, FenceInLease, Covered, Superseded, Unlanded, Held, Alive, Same

LEMMA RenewSupersededStep ==
  ASSUME MarginCoversFiles, TypeOK, NEW n \in Run, LeaseInv(n), RenewSuperseded(n)
  PROVE  LeaseInv(n)' /\ \A k \in Run \ {n} : Same(k)
BY BoundsAssumption, TimeAssumption, WriteTypes
DEF TypeOK, apiVars, fenceVars, leaseVars, RenewSuperseded, Stop, LeaseInv, Lives, FirstWrite,
    Promises, FenceInLease, Covered, Superseded, Unlanded, Held, Alive, Same

LEMMA RenewFailedStep ==
  ASSUME MarginCoversFiles, TypeOK, NEW n \in Run, LeaseInv(n), RenewFailed(n)
  PROVE  LeaseInv(n)' /\ \A k \in Run \ {n} : Same(k)
BY BoundsAssumption, TimeAssumption, WriteTypes
DEF TypeOK, apiVars, fenceVars, leaseVars, RenewFailed, LeaseInv, Lives, FirstWrite,
    Promises, FenceInLease, Covered, Superseded, Unlanded, Held, Alive, Same

LEMMA BeginLeaseWriteStep ==
  ASSUME MarginCoversFiles, TypeOK, NEW n \in Run, LeaseInv(n), BeginLeaseWrite(n)
  PROVE  LeaseInv(n)' /\ \A k \in Run \ {n} : Same(k)
<1>1. /\ writing'[n] # NoWrite /\ writing'[n].kind = Head(chain[n])
      /\ ~writing'[n].landed /\ writing'[n].deadline = clock + FileTime
      /\ Head(chain[n]) \in WriteKind
      /\ writing'[n].expiresAt = IF Head(chain[n]) = "expire" THEN clock ELSE clock + Ttl
  <2>1. chain[n] \in Seq(WriteKind) /\ chain[n] # <<>>
    BY DEF TypeOK, BeginLeaseWrite, LeaseWriteOf
  <2>2. Head(chain[n]) \in WriteKind
    BY <2>1
  <2>3. writing'[n] = [kind |-> Head(chain[n]),
          expiresAt |-> clock + (IF Head(chain[n]) = "expire" THEN 0 ELSE Ttl),
          deadline |-> clock + FileTime,
          landed |-> FALSE]
    BY DEF TypeOK, BeginLeaseWrite, LeaseWriteOf
  <2>4. writing'[n] # NoWrite
    BY <2>2, <2>3 DEF NoWrite, WriteKind
  <2> QED
    BY <2>2, <2>3, <2>4, TimeAssumption DEF TypeOK, Time
<1>2. \A k \in Run \ {n} : Same(k)
  BY DEF TypeOK, BeginLeaseWrite, LeaseWriteOf, apiVars, fenceVars, Same
<1> USE BoundsAssumption, TimeAssumption, WriteTypes DEF TypeOK, Time, WriteKind, apiVars, fenceVars, MayWrite, Held, Alive, Lives
<1>3. UNCHANGED <<clock, latest, phase>>
  BY DEF BeginLeaseWrite, LeaseWriteOf
<1>4. Lives(n)'
  BY <1>1 DEF LeaseInv, BeginLeaseWrite, LeaseWriteOf
<1>5. FirstWrite(n)'
  <2>1. phase[n] = "booting" => chain[n] = <<"keep">>
    BY DEF LeaseInv, FirstWrite, BeginLeaseWrite, LeaseWriteOf
  <2>2. chain'[n] = Tail(chain[n])
    BY DEF BeginLeaseWrite, LeaseWriteOf
  <2>3. phase[n] = "booting" => chain'[n] = <<>> /\ Head(chain[n]) = "keep"
    <3> DEFINE q == <<"keep">>
    <3>1. q \in Seq(WriteKind) /\ Len(q) = 1 /\ Head(q) = "keep"
      OBVIOUS
    <3>2. Tail(q) \in Seq(WriteKind) /\ Len(Tail(q)) = 0
      BY <3>1
    <3>3. Tail(q) = <<>>
      BY <3>2, EmptySeq
    <3> QED
      BY <2>1, <2>2, <3>1, <3>3
  <2> QED
    BY <1>1, <1>3, <2>3 DEF FirstWrite
<1>6. Promises(n)'
  BY <1>1 DEF LeaseInv, FirstWrite, Promises, BeginLeaseWrite, LeaseWriteOf
<1>7. FenceInLease(n)'
  BY <1>1 DEF LeaseInv, Promises, FenceInLease, BeginLeaseWrite, LeaseWriteOf
<1>8. Covered(n)'
  <2> SUFFICES ASSUME ~released[n] PROVE Covered(n)'
    BY DEF Covered, BeginLeaseWrite, LeaseWriteOf
  <2>1. clock + Margin < lease[n]
    BY DEF LeaseInv, FirstWrite, FenceInLease, BeginLeaseWrite, LeaseWriteOf
  <2>2. \A w \in inFlight[n] :
          /\ clock <= w.deadline /\ CoveredBy(w, lease[n])
          /\ lease[n] <= clock + Ttl
    BY DEF LeaseInv, Promises, Covered, BeginLeaseWrite, LeaseWriteOf
  <2>3. \A w \in inFlight[n] : w.deadline \in Nat /\ Duration(w.git) \in Nat
    BY DataTypes
  <2>4. UNCHANGED <<lease, released, inFlight>>
    BY DEF BeginLeaseWrite, LeaseWriteOf
  <2>5. clock' <= writing'[n].deadline /\ writing'[n].deadline + Skew < lease'[n]
    BY <1>1, <1>3, <2>1, <2>4 DEF MarginCoversFiles
  <2>6. writing'[n].kind = "keep" => writing'[n].expiresAt = clock + Ttl
    BY <1>1
  <2>7. \A w \in inFlight'[n] :
          /\ clock' <= w.deadline /\ CoveredBy(w, lease'[n])
          /\ writing'[n].kind = "keep" => CoveredBy(w, writing'[n].expiresAt)
    BY <1>3, <2>2, <2>3, <2>4, <2>6, SMTT(40) DEF CoveredBy
  <2> QED
    BY <2>5, <2>7 DEF Covered
<1>9. Superseded(n)'
  BY <1>1 DEF LeaseInv, FirstWrite, FenceInLease, Superseded, Unlanded, MarginCoversFiles, BeginLeaseWrite, LeaseWriteOf
<1> QED
  BY <1>2, <1>4, <1>5, <1>6, <1>7, <1>8, <1>9 DEF LeaseInv

LEMMA DropLeaseWriteStep ==
  ASSUME MarginCoversFiles, TypeOK, NEW n \in Run, LeaseInv(n), DropLeaseWrite(n)
  PROVE  LeaseInv(n)' /\ \A k \in Run \ {n} : Same(k)
BY BoundsAssumption, TimeAssumption, WriteTypes
DEF TypeOK, apiVars, fenceVars, leaseVars, DropLeaseWrite, LeaseInv, Lives, FirstWrite,
    Promises, FenceInLease, Covered, Superseded, Unlanded, Held, Alive, Same

LEMMA SettleLeaseWriteStep ==
  ASSUME MarginCoversFiles, TypeOK, NEW n \in Run, LeaseInv(n), SettleLeaseWrite(n)
  PROVE  LeaseInv(n)' /\ \A k \in Run \ {n} : Same(k)
BY BoundsAssumption, TimeAssumption, WriteTypes
DEF TypeOK, apiVars, fenceVars, leaseVars, SettleLeaseWrite, LeaseInv, Lives, FirstWrite,
    Promises, FenceInLease, Covered, Superseded, Unlanded, Held, Alive, Same

LEMMA FailLeaseWriteStep ==
  ASSUME MarginCoversFiles, TypeOK, NEW n \in Run, LeaseInv(n), FailLeaseWrite(n)
  PROVE  LeaseInv(n)' /\ \A k \in Run \ {n} : Same(k)
BY BoundsAssumption, TimeAssumption, WriteTypes
DEF TypeOK, apiVars, fenceVars, leaseVars, FailLeaseWrite, LeaseInv, Lives, FirstWrite,
    Promises, FenceInLease, Covered, Superseded, Unlanded, Held, Alive, Same

LEMMA FailFirstLeaseWriteStep ==
  ASSUME MarginCoversFiles, TypeOK, NEW n \in Run, LeaseInv(n), FailFirstLeaseWrite(n)
  PROVE  LeaseInv(n)' /\ \A k \in Run \ {n} : Same(k)
BY BoundsAssumption, TimeAssumption, WriteTypes
DEF TypeOK, apiVars, fenceVars, leaseVars, FailFirstLeaseWrite, Stop, LeaseInv, Lives, FirstWrite,
    Promises, FenceInLease, Covered, Superseded, Unlanded, Held, Alive, Same

LEMMA LandLeaseWriteStep ==
  ASSUME MarginCoversFiles, TypeOK, NEW n \in Run, LeaseInv(n), LandLeaseWrite(n)
  PROVE  LeaseInv(n)' /\ \A k \in Run \ {n} : Same(k)
<1>1. /\ writing'[n] # NoWrite /\ writing'[n].landed
      /\ writing'[n].kind = writing[n].kind
      /\ writing'[n].expiresAt = writing[n].expiresAt
  BY WriteTypes DEF TypeOK, LandLeaseWrite, NoWrite, LeaseWrite
<1>2. \A k \in Run \ {n} : Same(k)
  BY DEF TypeOK, LandLeaseWrite, apiVars, fenceVars, Same
<1> USE BoundsAssumption, TimeAssumption, WriteTypes DEF TypeOK, Time, WriteKind, apiVars, fenceVars, Held, Alive, Lives
<1>3. /\ UNCHANGED <<clock, latest, phase, inFlight, validUntil, closed, chain, renewing>>
      /\ lease'[n] = writing[n].expiresAt
      /\ released'[n] = (released[n] \/ writing[n].kind = "expire")
      /\ Unlanded(n) /\ writing[n].kind \in WriteKind
  BY DEF LandLeaseWrite, Unlanded
<1>4. Lives(n)'
  BY <1>1 DEF LeaseInv, LandLeaseWrite
<1>5. FirstWrite(n)'
  BY <1>1 DEF LeaseInv, FirstWrite, LandLeaseWrite
<1>6. Promises(n)'
  BY <1>1 DEF LeaseInv, FirstWrite, Promises, LandLeaseWrite
<1>7. FenceInLease(n)'
  BY <1>1, <1>3 DEF LeaseInv, Promises, FenceInLease
<1>8. Covered(n)'
  BY <1>1, <1>3 DEF LeaseInv, Covered, Unlanded
<1>9. Superseded(n)'
  BY <1>1 DEF LeaseInv, FirstWrite, FenceInLease, Superseded, Unlanded, MarginCoversFiles, LandLeaseWrite
<1> QED
  BY <1>2, <1>4, <1>5, <1>6, <1>7, <1>8, <1>9 DEF LeaseInv

LEMMA ForgetLeaseWriteStep ==
  ASSUME MarginCoversFiles, TypeOK, NEW n \in Run, LeaseInv(n), ForgetLeaseWrite(n)
  PROVE  LeaseInv(n)' /\ \A k \in Run \ {n} : Same(k)
BY BoundsAssumption, TimeAssumption, WriteTypes
DEF TypeOK, apiVars, fenceVars, leaseVars, ForgetLeaseWrite, LeaseInv, Lives, FirstWrite,
    Promises, FenceInLease, Covered, Superseded, Unlanded, Held, Alive, Same

LEMMA BeginWriteStep ==
  ASSUME MarginCoversFiles, TypeOK, NEW n \in Run, LeaseInv(n),
         NEW git \in BOOLEAN, BeginWrite(n, git)
  PROVE  LeaseInv(n)' /\ \A k \in Run \ {n} : Same(k)
<1> USE BoundsAssumption, TimeAssumption DEF TypeOK, Time, BeginWrite, apiVars, fenceVars, leaseVars
<1>1. \A k \in Run \ {n} : Same(k)
  BY DEF Same
<1>2. Lives(n)' /\ FirstWrite(n)' /\ Promises(n)' /\ FenceInLease(n)'
  BY DEF LeaseInv, Lives, FirstWrite, Promises, FenceInLease, Held
<1>3. ~closed[n] /\ clock + Margin < validUntil[n]
  BY DEF MayWrite
<1>4. ~released[n] => clock + Margin < lease[n]
  BY <1>3 DEF LeaseInv, FenceInLease, Held
<1>5. Covered(n)'
  <2> DEFINE new == [git |-> git, deadline |-> clock + Duration(git)]
  <2>1. inFlight'[n] = inFlight[n] \cup {new}
    OBVIOUS
  <2>2. /\ Duration(git) \in Nat /\ new.deadline = clock + Duration(git)
        /\ Duration(new.git) = Duration(git)
    BY DataTypes
  <2> HIDE DEF new
  <2>3. Unlanded(n) /\ writing[n].kind = "keep" => clock + Margin < writing[n].expiresAt
    BY <1>3, WriteTypes DEF LeaseInv, Promises, Held
  <2>4. writing[n].expiresAt \in Nat
    BY WriteTypes
  <2>5. /\ clock <= new.deadline
        /\ ~released[n] => CoveredBy(new, lease[n])
        /\ Unlanded(n) /\ writing[n].kind = "keep" => CoveredBy(new, writing[n].expiresAt)
    BY <1>4, <2>2, <2>3, <2>4 DEF CoveredBy
  <2> QED
    BY <2>1, <2>5 DEF LeaseInv, Covered, CoveredBy, Unlanded
<1>6. Superseded(n)'
  BY <1>3, <1>4 DEF LeaseInv, Superseded, Alive, MarginCoversFiles
<1> QED
  BY <1>1, <1>2, <1>5, <1>6 DEF LeaseInv

LEMMA EndWriteStep ==
  ASSUME MarginCoversFiles, TypeOK, NEW n \in Run, LeaseInv(n),
         NEW w \in inFlight[n], LandWrite(n, w) \/ LoseWrite(n, w)
  PROVE  LeaseInv(n)' /\ \A k \in Run \ {n} : Same(k)
BY BoundsAssumption, TimeAssumption
DEF TypeOK, apiVars, fenceVars, leaseVars, LandWrite, LoseWrite, LeaseInv, Lives,
    FirstWrite, Promises, FenceInLease, Covered, Superseded, Unlanded, Held, Same

\* Time passes, but not beyond the deadline of a write under way.
LEMMA TickStep ==
  ASSUME TypeOK, NEW n \in Run, LeaseInv(n), Tick
  PROVE  LeaseInv(n)'
<1> USE TimeAssumption, WriteTypes DEF TypeOK, Time, Tick, apiVars, fenceVars, leaseVars
<1>1. Lives(n)' /\ FirstWrite(n)' /\ Promises(n)' /\ FenceInLease(n)'
  BY DEF LeaseInv, Lives, FirstWrite, Promises, FenceInLease, Held
<1>2. \A w \in inFlight[n] : w.deadline \in Nat
  BY DEF DataWrite
<1>3. Covered(n)'
  BY <1>2 DEF LeaseInv, Covered, Unlanded
<1>4. Superseded(n)'
  BY DEF LeaseInv, Superseded, Unlanded
<1> QED
  BY <1>1, <1>3, <1>4 DEF LeaseInv

\* A lease that covers a file or lease write under way has not run out for
\* the API.
LEMMA LeaseNotOver ==
  ASSUME NEW now \in Nat, NEW deadline \in Nat, NEW skew \in Nat, NEW expiry \in Nat,
         now <= deadline, deadline + skew < expiry
  PROVE  ~(expiry <= now + skew)
OBVIOUS

\* A newer run is created only when the API's clock is past the lease: by
\* then every write under the lease has ended, but for git commands.
LEMMA CreateRunStep ==
  ASSUME MarginCoversFiles, TypeOK, NEW n \in Run, LeaseInv(n), CreateRun
  PROVE  LeaseInv(n)'
<1> USE BoundsAssumption, TimeAssumption, WriteTypes DEF TypeOK, Time, Run, CreateRun, leaseVars, fenceVars
<1>1. FirstWrite(n)' /\ Promises(n)' /\ FenceInLease(n)' /\ Covered(n)'
  <2>1. FirstWrite(n)' /\ Promises(n)'
    BY DEF LeaseInv, FirstWrite, Promises, Unlanded
  <2>2. FenceInLease(n)' /\ Covered(n)'
    BY DEF LeaseInv, FenceInLease, Covered, Unlanded
  <2> QED
    BY <2>1, <2>2
<1>2. Lives(n)'
  <2>1. latest \in Nat /\ n \in Nat
    OBVIOUS
  <2> HIDE DEF TypeOK
  <2>2. n \in starting' => n <= latest' /\ phase'[n] = "absent"
    BY <2>1 DEF LeaseInv, Lives
  <2>3. phase'[n] # "absent" \/ lease'[n] # 0 => n <= latest'
    BY <2>1 DEF LeaseInv, Lives
  <2> QED
    BY <2>2, <2>3 DEF LeaseInv, Lives
<1>3. Superseded(n)'
  <2>1. CASE n < latest
    BY <2>1 DEF LeaseInv, Superseded, Unlanded
  <2>2. CASE n = latest
    <3>1. lease[n] <= clock + Skew
      BY <2>2 DEF ApiNow, MarginCoversFiles
    <3>2. ASSUME NEW w \in inFlight[n], ~w.git
          PROVE  w.deadline \in Nat /\ (CoveredBy(w, lease[n]) => w.deadline + Skew < lease[n])
      <4>1. w.deadline \in Nat /\ lease[n] \in Nat
        BY DataTypes
      <4>2. Duration(w.git) = FileTime
        BY <3>2 DEF Duration
      <4> QED
        BY <4>1, <4>2, SMTT(40) DEF CoveredBy, MarginCoversFiles
    <3>3. /\ clock \in Nat /\ Skew \in Nat /\ lease[n] \in Nat
          /\ writing[n].deadline \in Nat
      OBVIOUS
    <3>4. ~released[n] => (\A w \in inFlight[n] : w.git) /\ ~Unlanded(n)
      <4>0. \A w \in inFlight[n] : w.git \in BOOLEAN
        BY DataTypes
      <4> HIDE DEF TypeOK, CreateRun
      <4>1. ASSUME ~released[n], Unlanded(n) PROVE FALSE
        <5>1. /\ clock <= writing[n].deadline
              /\ writing[n].deadline + Skew < lease[n]
          BY <4>1 DEF LeaseInv, Covered
        <5> QED
          BY <3>1, <3>3, <5>1, LeaseNotOver
      <4>2. ASSUME ~released[n], NEW w \in inFlight[n], ~w.git PROVE FALSE
        <5>1. clock <= w.deadline /\ CoveredBy(w, lease[n])
          BY <4>2 DEF LeaseInv, Covered
        <5>2. w.deadline \in Nat /\ w.deadline + Skew < lease[n]
          BY <3>2, <4>2, <5>1
        <5> QED
          BY <3>1, <3>3, <5>1, <5>2, LeaseNotOver
      <4> QED
        BY <4>0, <4>1, <4>2
    <3> QED
      BY <3>1, <3>4 DEF Superseded, Unlanded
  <2>3. CASE n > latest
    BY <2>3 DEF Superseded
  <2> QED
    BY <2>1, <2>2, <2>3
<1> QED
  BY <1>1, <1>2, <1>3 DEF LeaseInv

-----------------------------------------------------------------------------
(* The theorems.                                                           *)

\* A step of one run: its own invariant by the lemma of the action taken,
\* the others' because nothing of theirs changes.
LEMMA RunStep ==
  ASSUME MarginCoversFiles, TypeOK, \A k \in Run : LeaseInv(k),
         NEW n \in Run, Api(n) \/ Harness(n) \/ Mount(n)
  PROVE  \A k \in Run : LeaseInv(k)'
<1>1. LeaseInv(n)' /\ \A k \in Run \ {n} : Same(k)
  <2>1. CASE Api(n)
    BY <2>1, WriteStartingLeaseStep, AbandonStartStep, ExpireFailedStartStep DEF Api
  <2>2. CASE Harness(n)
    BY <2>2, CheckRecordStep, CheckLeaseStep, FenceRefusesStep, ExitStep,
       SetStateStep, ReleaseStep, RenewCheckStep, RenewWriteStep,
       RenewSupersededStep, RenewFailedStep, BeginLeaseWriteStep,
       DropLeaseWriteStep, SettleLeaseWriteStep, FailLeaseWriteStep,
       FailFirstLeaseWriteStep, BeginWriteStep
    DEF Harness
  <2>3. CASE Mount(n)
    BY <2>3, LandLeaseWriteStep, ForgetLeaseWriteStep, EndWriteStep DEF Mount
  <2> QED
    BY <2>1, <2>2, <2>3
<1>2. ASSUME NEW k \in Run \ {n} PROVE LeaseInv(k)'
  BY <1>1, Frame
<1> QED
  BY <1>1, <1>2

\* The file that is written is the newest run's, or comes after its run's
\* released lease: while a newer run exists only git commands are under way.
LEMMA LastWriteStep ==
  ASSUME IInv, [Next]_vars
  PROVE  OnlyNewestRunWrites'
<1> USE DEF IInv, OnlyNewestRunWrites
<1>1. ASSUME NEW n \in Run, NEW w \in inFlight[n], LandWrite(n, w)
      PROVE  OnlyNewestRunWrites'
  <2>1. last' = [run |-> n, newest |-> latest, afterRelease |-> released[n], git |-> w.git]
    BY <1>1 DEF LandWrite
  <2>2. n <= latest
    BY DEF LeaseInv, Lives, Held
  <2>3. ~released[n] => ~(n < latest) \/ w.git
    BY DEF LeaseInv, Superseded
  <2>4. latest \in Int /\ n \in Int /\ released[n] \in BOOLEAN
    BY BoundsAssumption DEF TypeOK, Run
  <2> QED
    BY <2>1, <2>2, <2>3, <2>4
<1>2. CASE UNCHANGED last
  BY <1>2
<1>3. UNCHANGED last \/ \E n \in Run : \E w \in inFlight[n] : LandWrite(n, w)
  BY DEF Next, vars, Tick, CreateRun, Api, Harness, Mount, WriteStartingLease, AbandonStart, ExpireFailedStart, CheckRecord,
         CheckLease, FenceRefuses, Exit, SetState, Release, RenewCheck,
         RenewWrite, RenewSuperseded, RenewFailed, BeginLeaseWrite, LeaseWriteOf,
         DropLeaseWrite, SettleLeaseWrite, FailLeaseWrite, FailFirstLeaseWrite,
         LandLeaseWrite, ForgetLeaseWrite, BeginWrite, LoseWrite
<1> QED
  BY <1>1, <1>2, <1>3

\* The fence's invariant holds in every reachable state.
THEOREM FenceInvariant ==
  ASSUME MarginCoversFiles
  PROVE  Spec => []IInv
<1>1. Init => IInv
  <2> SUFFICES ASSUME Init PROVE IInv
    OBVIOUS
  <2>1. TypeOK
    BY BoundsAssumption, WriteTypes DEF Init, TypeOK, Run, Time, Phase, Landing
  <2>2. \A n \in Run : LeaseInv(n)
    BY WriteTypes, TimeAssumption, BoundsAssumption
    DEF Init, Run, LeaseInv, Lives, FirstWrite, Promises, FenceInLease, Covered,
        Superseded, Unlanded, Held
  <2>3. OnlyNewestRunWrites
    BY DEF Init, OnlyNewestRunWrites
  <2> QED
    BY <2>1, <2>2, <2>3 DEF IInv
<1>2. IInv /\ [Next]_vars => IInv'
  <2> SUFFICES ASSUME IInv, [Next]_vars PROVE IInv'
    OBVIOUS
  <2>1. TypeOK'
    BY TypeStep DEF IInv
  <2>2. OnlyNewestRunWrites'
    BY LastWriteStep
  <2>3. \A n \in Run : LeaseInv(n)'
    <3>1. CASE Tick
      BY <3>1, TickStep DEF IInv
    <3>2. CASE CreateRun
      BY <3>2, CreateRunStep DEF IInv
    <3>3. CASE \E n \in Run : Api(n) \/ Harness(n) \/ Mount(n)
      BY <3>3, RunStep DEF IInv
    <3>4. CASE UNCHANGED vars
      <4>1. \A n \in Run : Same(n)
        BY <3>4 DEF vars, apiVars, fenceVars, leaseVars, Same
      <4> QED
        BY <4>1, Frame DEF IInv
    <3> QED
      BY <3>1, <3>2, <3>3, <3>4 DEF Next
  <2> QED
    BY <2>1, <2>2, <2>3 DEF IInv
<1> QED
  BY <1>1, <1>2, PTL DEF Spec

\* A file is written only while its run is the newest, or after the run's
\* released lease reached the folder.
THEOREM NewestRunWrites ==
  ASSUME MarginCoversFiles
  PROVE  Spec => []OnlyNewestRunWrites
<1>1. IInv => OnlyNewestRunWrites
  BY DEF IInv
<1> QED
  BY <1>1, FenceInvariant, PTL

\* Of its own time, a write under way uses up no more than the margin after
\* its run's lease has run out: for a file, less than nothing.
THEOREM WritesCovered ==
  ASSUME MarginCoversFiles
  PROVE  Spec => []WritesEndBeforeLease
<1>1. IInv => WritesEndBeforeLease
  BY DEF IInv, LeaseInv, Covered, CoveredBy, WritesEndBeforeLease
<1> QED
  BY <1>1, FenceInvariant, PTL

\* Who may begin a write, or is writing a file, and has not released its
\* lease is the newest run.
LEMMA OnlyNewestWrites ==
  ASSUME MarginCoversFiles, IInv, NEW n \in Run, Writes(n)
  PROVE  n = latest
<1>1. ~released[n] /\ n <= latest /\ latest \in Int /\ n \in Int
  <2>1. ~released[n] /\ (phase[n] \in Held \/ inFlight[n] # {})
    BY DEF Writes, Held
  <2>2. phase[n] # "absent"
    BY <2>1 DEF IInv, LeaseInv, Lives, Held
  <2>3. n <= latest
    BY <2>2 DEF IInv, LeaseInv, Lives
  <2>4. latest \in Int /\ n \in Int
    BY BoundsAssumption DEF IInv, TypeOK, Run
  <2> QED
    BY <2>1, <2>3, <2>4
<1>2. CASE phase[n] \in Held /\ MayWrite(n)
  <2>1. clock + Margin < lease[n]
    BY <1>1, <1>2, TimeAssumption DEF IInv, TypeOK, Time, LeaseInv, FenceInLease, MayWrite
  <2>2. n < latest => lease[n] <= clock + Skew
    BY <1>1, <1>2 DEF IInv, LeaseInv, Superseded, Held, Alive
  <2>3. /\ Skew <= Margin /\ Skew \in Nat /\ Margin \in Nat
        /\ clock \in Nat /\ lease[n] \in Nat
    BY TimeAssumption DEF MarginCoversFiles, IInv, TypeOK, Time
  <2> QED
    BY <1>1, <2>1, <2>2, <2>3
<1>3. CASE \E w \in inFlight[n] : ~w.git
  <2>1. ~(n < latest)
    BY <1>1, <1>3 DEF IInv, LeaseInv, Superseded
  <2> QED
    BY <1>1, <2>1
<1> QED
  BY <1>2, <1>3 DEF Writes, Held

\* No two runs that hold their leases write files or begin git commands at
\* once: each of them would be the newest.
THEOREM OneWriter ==
  ASSUME MarginCoversFiles
  PROVE  Spec => []AtMostOneWriter
<1>1. IInv => AtMostOneWriter
  BY OnlyNewestWrites DEF AtMostOneWriter
<1> QED
  BY <1>1, FenceInvariant, PTL

\* The state of the folder that SingleWriter is about.
Busy == {n \in Run : \E w \in inFlight[n] : w.git}

\* RunLease implements SingleWriter: a step hands the folder over, lets go
\* of it, begins or ends a git command, writes, or does not show.
THEOREM Implements ==
  ASSUME MarginCoversFiles
  PROVE  Spec => ImplementsSingleWriter
<1>1. Init => Folder!Init
  BY DEF Init, Folder!Init
<1>2. IInv /\ [Next]_vars => [Folder!Next]_<<latest, {n \in Run : released[n]}, Busy, last>>
  <2> SUFFICES ASSUME IInv, [Next]_vars
               PROVE  [Folder!Next]_<<latest, {n \in Run : released[n]}, Busy, last>>
    OBVIOUS
  <2>1. CASE CreateRun
    BY <2>1 DEF CreateRun, leaseVars, Busy, Folder!Next, Folder!Handover
  <2>2. ASSUME NEW n \in Run, LandLeaseWrite(n), writing[n].kind = "expire"
        PROVE  Folder!LetGo(n)
    <3>1. \A k \in Run : released'[k] = (released[k] \/ k = n)
      BY <2>2 DEF LandLeaseWrite, IInv, TypeOK
    <3> QED
      BY <2>2, <3>1 DEF LandLeaseWrite, apiVars, Folder!LetGo
  <2>3. ASSUME NEW n \in Run, LandLeaseWrite(n), writing[n].kind # "expire"
        PROVE  UNCHANGED <<latest, {k \in Run : released[k]}, Busy, last>>
    <3>1. \A k \in Run : released'[k] = released[k]
      BY <2>3 DEF LandLeaseWrite, IInv, TypeOK
    <3> QED
      BY <2>3, <3>1 DEF LandLeaseWrite, apiVars, Busy
  <2>4. ASSUME NEW n \in Run, NEW w \in inFlight[n], LandWrite(n, w) \/ LoseWrite(n, w)
        PROVE  /\ w.git \in BOOLEAN /\ (w.git => n \in Busy)
               /\ Busy' \in {Busy, Busy \ {n}}
               /\ ~w.git => Busy' = Busy
    <3>1. /\ inFlight'[n] = inFlight[n] \ {w}
          /\ \A k \in Run \ {n} : inFlight'[k] = inFlight[k]
      BY <2>4 DEF LandWrite, LoseWrite, IInv, TypeOK
    <3>2. \A k \in Run \ {n} : k \in Busy' <=> k \in Busy
      BY <3>1 DEF Busy
    <3>3. n \in Busy' => n \in Busy
      BY <3>1 DEF Busy
    <3>4. ~w.git => (n \in Busy => n \in Busy')
      BY <3>1 DEF Busy
    <3>5. w.git \in BOOLEAN /\ (w.git => n \in Busy)
      BY DataTypes DEF Busy, IInv, TypeOK
    <3>6. Busy \subseteq Run /\ Busy' \subseteq Run
      BY DEF Busy
    <3> HIDE DEF Busy
    <3>7. n \in Busy' => Busy' = Busy
      BY <3>2, <3>3, <3>6
    <3>8. n \notin Busy' => Busy' = Busy \ {n}
      BY <3>2, <3>6
    <3>9. n \notin Busy => Busy \ {n} = Busy
      OBVIOUS
    <3> QED
      BY <3>4, <3>5, <3>7, <3>8, <3>9
  <2>5. ASSUME NEW n \in Run, NEW w \in inFlight[n], LandWrite(n, w)
        PROVE  Folder!Write(n, w.git)
    <3>1. n = latest \/ released[n] \/ w.git
      BY DEF IInv, LeaseInv, Lives, Superseded, Held, TypeOK, Run
    <3>2. /\ w.git \in BOOLEAN /\ (w.git => n \in Busy)
          /\ Busy' \in {Busy, Busy \ {n}} /\ (~w.git => Busy' = Busy)
      BY <2>4, <2>5
    <3>3. /\ last' = [run |-> n, newest |-> latest, afterRelease |-> released[n], git |-> w.git]
          /\ latest' = latest /\ released' = released
      BY <2>5 DEF LandWrite, apiVars, leaseVars
    <3>4. released[n] = (n \in {k \in Run : released[k]})
      BY DEF IInv, TypeOK
    <3> QED
      BY <3>1, <3>2, <3>3, <3>4 DEF Folder!Write, Folder!MayBegin, Busy
  <2>6. ASSUME NEW n \in Run, NEW w \in inFlight[n], LoseWrite(n, w)
        PROVE  \/ Folder!EndGit(n)
               \/ UNCHANGED <<latest, {k \in Run : released[k]}, Busy, last>>
    <3>1. Busy' \in {Busy, Busy \ {n}}
      BY <2>4, <2>6
    <3> QED
      BY <2>6, <3>1 DEF LoseWrite, apiVars, leaseVars, Folder!EndGit, Busy
  <2>7. ASSUME NEW n \in Run, NEW git \in BOOLEAN, BeginWrite(n, git)
        PROVE  \/ Folder!BeginGit(n)
               \/ UNCHANGED <<latest, {k \in Run : released[k]}, Busy, last>>
    <3>1. Busy' = IF git THEN Busy \cup {n} ELSE Busy
      <4> DEFINE new == [git |-> git, deadline |-> clock + Duration(git)]
      <4>1. /\ inFlight'[n] = inFlight[n] \cup {new}
            /\ \A k \in Run \ {n} : inFlight'[k] = inFlight[k]
        BY <2>7 DEF BeginWrite, IInv, TypeOK
      <4>2. new.git = git
        OBVIOUS
      <4> HIDE DEF new
      <4> QED
        BY <4>1, <4>2 DEF Busy
    <3>2. n = latest \/ released[n]
      <4>1. ~released[n] => Writes(n)
        BY <2>7 DEF BeginWrite, Writes
      <4> QED
        BY <4>1, OnlyNewestWrites
    <3> QED
      BY <2>7, <3>1, <3>2 DEF BeginWrite, apiVars, leaseVars, Folder!BeginGit, Folder!MayBegin, Busy
  <2>8. \/ CreateRun \/ UNCHANGED <<latest, released, inFlight, last>>
        \/ \E n \in Run : \/ LandLeaseWrite(n)
                          \/ \E w \in inFlight[n] : LandWrite(n, w) \/ LoseWrite(n, w)
                          \/ \E git \in BOOLEAN : BeginWrite(n, git)
    BY DEF Next, vars, apiVars, leaseVars, Tick, Api, Harness, Mount, WriteStartingLease, AbandonStart, ExpireFailedStart, CheckRecord,
           CheckLease, FenceRefuses, Exit, SetState, Release, RenewCheck,
           RenewWrite, RenewSuperseded, RenewFailed, BeginLeaseWrite, LeaseWriteOf,
           DropLeaseWrite, SettleLeaseWrite, FailLeaseWrite, FailFirstLeaseWrite,
           ForgetLeaseWrite
  <2>9. UNCHANGED <<latest, released, inFlight, last>> =>
          UNCHANGED <<latest, {k \in Run : released[k]}, Busy, last>>
    BY DEF Busy
  <2>10. ASSUME NEW n \in Run,
                \/ Folder!LetGo(n) \/ Folder!BeginGit(n) \/ Folder!EndGit(n)
                \/ \E git \in BOOLEAN : Folder!Write(n, git)
         PROVE  Folder!Next
    BY <2>10 DEF Folder!Next, Run
  <2>11. ASSUME NEW n \in Run, NEW w \in inFlight[n], LandWrite(n, w)
         PROVE  Folder!Next
    BY <2>4, <2>5, <2>10, <2>11
  <2>12. ASSUME NEW n \in Run, LandLeaseWrite(n)
         PROVE  Folder!Next \/ UNCHANGED <<latest, {k \in Run : released[k]}, Busy, last>>
    BY <2>2, <2>3, <2>10, <2>12
  <2> QED
    BY <2>1, <2>6, <2>7, <2>8, <2>9, <2>10, <2>11, <2>12
<1> QED
  BY <1>1, <1>2, FenceInvariant, PTL DEF Spec, ImplementsSingleWriter, Folder!Spec, Busy


-----------------------------------------------------------------------------
(***************************************************************************)
(* A harness that is scheduled on time (LeaseTimers), for every length of  *)
(* the renewal's period, the lease and the margin, and every number of     *)
(* failures in a row: it stops soon after its successor appears and, when  *)
(* RenewalsFitTheTerm, its lease never runs down under it.                 *)
(***************************************************************************)
(* The inductive invariant, part by part.                                  *)

\* What k rounds of the timer take.
Rounds(k) == Renew * k

\* The timers' own state.
TimersTypeOK ==
  /\ renewAt \in [Run -> Nat] /\ newerAt \in [Run -> Nat]
  /\ failed \in [Run -> 0..MaxFailed] /\ missed \in [Run -> 0..MaxFailed]

\* A harness that has not started keeps nothing; one that starts keeps its
\* first lease write.
Unstarted(n) ==
  /\ phase[n] \in {"absent", "checking"} => writing[n] = NoWrite
  /\ phase[n] \in {"absent", "checking", "booting"} => ~closed[n] /\ renewing[n] = 0
  /\ phase[n] = "booting" =>
       /\ chain[n] # <<>> => chain[n] = <<"keep">> /\ writing[n] = NoWrite
       /\ writing[n] # NoWrite => chain[n] = <<>>

\* Until the release every lease write keeps the lease, and none is late.
Keeps(n) ==
  /\ phase[n] \in {"booting", "running"} /\ writing[n] # NoWrite =>
       /\ writing[n].kind = "keep"
       /\ clock <= writing[n].deadline /\ writing[n].deadline <= clock + FileTime
       /\ writing[n].expiresAt + FileTime = writing[n].deadline + Ttl
  /\ phase[n] = "running" =>
       ~closed[n] /\ \A i \in 1..Len(chain[n]) : chain[n][i] = "keep"

\* The timer is never late, and never more than a round away; while a
\* renewal looks for a newer run, the only one, the timer is not due.
TimerRuns(n) ==
  phase[n] = "running" =>
    /\ clock <= renewAt[n] /\ renewAt[n] <= clock + Renew
    /\ renewing[n] # 0 => renewing[n] = 1 /\ clock < renewAt[n]

\* The next renewal is at most failed[n] + 2 rounds after the last good
\* write's end.  When it is that far away, this round's renewal is at work.
RenewsInTime(n) ==
  phase[n] = "running" =>
    /\ renewAt[n] + Ttl <= validUntil[n] + FileTime + Rounds(failed[n] + 2)
    /\ renewAt[n] + Ttl > validUntil[n] + FileTime + Rounds(failed[n] + 1) =>
         /\ writing[n] = NoWrite =>
              (renewing[n] # 0 \/ chain[n] # <<>>) /\ clock + Renew <= renewAt[n]
         /\ writing[n] # NoWrite => writing[n].deadline + Renew <= renewAt[n] + FileTime

\* The next look-up for a newer run comes at most missed[n] + 1 rounds after
\* the newer run did; or it is being made, by then.
LooksInTime(n) ==
  /\ newerAt[n] # 0 => n < latest /\ phase[n] \in {"running", "releasing", "stopped"}
  /\ phase[n] = "running" /\ newerAt[n] # 0 =>
       IF renewing[n] # 0
       THEN /\ clock <= newerAt[n] + Rounds(missed[n] + 1)
            /\ renewAt[n] <= newerAt[n] + Rounds(missed[n] + 2)
       ELSE renewAt[n] <= newerAt[n] + Rounds(missed[n] + 1)

\* All of it but RenewsInTime, which alone needs renewals to fit the term.
Timely(n) == Unstarted(n) /\ Keeps(n) /\ TimerRuns(n) /\ LooksInTime(n)

HandoverInv == TypeOK /\ TimersTypeOK /\ \A n \in Run : Timely(n)

RenewalInv == HandoverInv /\ \A n \in Run : RenewsInTime(n)

-----------------------------------------------------------------------------
(* A step of LeaseTimers is a step of RunLease.                            *)

\* The timers only add conditions to what RunLease may do.
LEMMA TimersStepsAreSteps == [TimersNext]_<<vars, timerVars>> => [Next]_vars
<1> SUFFICES ASSUME [TimersNext]_<<vars, timerVars>> PROVE [Next]_vars
  OBVIOUS
<1>1. CASE TimedTick
  BY <1>1 DEF TimedTick, Next
<1>2. CASE TimedCreateRun
  BY <1>2 DEF TimedCreateRun, Next
<1>3. ASSUME NEW n \in Run, \/ TimerFires(n) \/ LookUpFailed(n) \/ LookUpAnswered(n)
                            \/ LeaseKept(n) \/ LeaseNotKept(n)
      PROVE  Next
  <2>1. Harness(n)
    BY <1>3 DEF TimerFires, LookUpFailed, LookUpAnswered, LeaseKept, LeaseNotKept, Harness
  <2> QED
    BY <2>1 DEF Next
<1>4. ASSUME NEW n \in Run, Untimed(n) PROVE Next
  <2>1. Api(n) \/ Harness(n) \/ Mount(n)
    BY <1>4 DEF Untimed, Harness
  <2> QED
    BY <2>1 DEF Next
<1>5. CASE UNCHANGED <<vars, timerVars>>
  BY <1>5
<1> QED
  BY <1>1, <1>2, <1>3, <1>4, <1>5 DEF TimersNext

-----------------------------------------------------------------------------
(* Rounds of the timer.                                                    *)

\* One round more takes Renew longer.
LEMMA RoundsAdd ==
  ASSUME NEW k \in Nat
  PROVE  /\ Rounds(k) \in Nat /\ Rounds(k + 1) \in Nat /\ Rounds(k + 2) \in Nat
         /\ Rounds(k + 1) = Rounds(k) + Renew
         /\ Rounds(k + 2) = Rounds(k + 1) + Renew
         /\ Renew <= Rounds(k + 1)
<1>1. Renew \in Nat
  BY TimersAssumption
<1>2. Renew * k \in Nat
  BY <1>1
<1>3. Renew * (k + 1) = Renew * k + Renew /\ Renew * (k + 2) = Renew * k + Renew + Renew
  BY <1>1
<1> QED
  BY <1>1, <1>2, <1>3 DEF Rounds

\* More rounds take no less.
LEMMA RoundsGrow ==
  ASSUME NEW j \in Nat, NEW k \in Nat, j <= k
  PROVE  Rounds(j) <= Rounds(k)
<1>1. PICK d \in Nat : k = j + d
  <2>1. k - j \in Nat /\ k = j + (k - j)
    OBVIOUS
  <2> QED
    BY <2>1
<1>2. Renew \in Nat /\ Renew * j \in Nat /\ Renew * d \in Nat
  BY TimersAssumption
<1>3. Renew * k = Renew * j + Renew * d
  BY <1>1, <1>2
<1> QED
  BY <1>2, <1>3 DEF Rounds

-----------------------------------------------------------------------------
(* What a step leaves alone, and the state a run stops in.                 *)

\* The numbers of a run's state.
LEMMA TimedTypes ==
  ASSUME TypeOK, TimersTypeOK, NEW n \in Run
  PROVE  /\ clock \in Nat /\ latest \in Nat /\ n \in Nat
         /\ renewAt[n] \in Nat /\ newerAt[n] \in Nat /\ validUntil[n] \in Nat
         /\ failed[n] \in Nat /\ failed[n] <= MaxFailed
         /\ missed[n] \in Nat /\ missed[n] <= MaxFailed
         /\ writing[n].deadline \in Nat /\ writing[n].expiresAt \in Nat
         /\ writing[n].landed \in BOOLEAN /\ renewing[n] \in Nat
         /\ writing[n] \in LeaseWrite \cup {NoWrite}
         /\ chain[n] \in Seq(WriteKind)
         /\ FileTime \in Nat /\ Ttl \in Nat /\ Margin \in Nat
         /\ Renew \in Nat /\ 0 < Renew /\ MaxFailed \in Nat
<1>1. writing[n] \in LeaseWrite \cup {NoWrite}
  BY DEF TypeOK
<1>2. /\ writing[n].deadline \in Nat /\ writing[n].expiresAt \in Nat
      /\ writing[n].landed \in BOOLEAN
  BY <1>1, WriteTypes
<1>3. /\ failed[n] \in Nat /\ failed[n] <= MaxFailed
      /\ missed[n] \in Nat /\ missed[n] <= MaxFailed
      /\ renewAt[n] \in Nat /\ newerAt[n] \in Nat
  BY TimersAssumption DEF TimersTypeOK
<1>4. /\ clock \in Nat /\ latest \in Nat /\ n \in Nat /\ validUntil[n] \in Nat
      /\ renewing[n] \in Nat /\ chain[n] \in Seq(WriteKind)
  BY BoundsAssumption DEF TypeOK, Time, Run
<1> QED
  BY <1>1, <1>2, <1>3, <1>4, TimeAssumption, TimersAssumption

\* Nothing that the invariant says of run k changes.
Kept(k) ==
  /\ clock' = clock /\ latest' = latest
  /\ phase'[k] = phase[k] /\ validUntil'[k] = validUntil[k] /\ closed'[k] = closed[k]
  /\ chain'[k] = chain[k] /\ writing'[k] = writing[k] /\ renewing'[k] = renewing[k]
  /\ renewAt'[k] = renewAt[k] /\ failed'[k] = failed[k]
  /\ missed'[k] = missed[k] /\ newerAt'[k] = newerAt[k]

LEMMA KeptStep ==
  ASSUME NEW k \in Run, Kept(k)
  PROVE  /\ Timely(k) => Timely(k)'
         /\ RenewsInTime(k) => RenewsInTime(k)'
BY DEF Kept, Timely, Unstarted, Keeps, TimerRuns, LooksInTime, RenewsInTime

\* Run k has stopped.
Stopped(k) ==
  phase'[k] = "stopped" /\ latest' = latest /\ newerAt'[k] = newerAt[k]

LEMMA StoppedStep ==
  ASSUME NEW k \in Run, Timely(k), Stopped(k)
  PROVE  Timely(k)' /\ RenewsInTime(k)'
BY DEF Stopped, Timely, Unstarted, Keeps, TimerRuns, LooksInTime, RenewsInTime

-----------------------------------------------------------------------------
(* Time passes, and a newer run appears.                                   *)

LEMMA TimedTickStep ==
  ASSUME TypeOK, TimersTypeOK, NEW n \in Run, Timely(n), TimedTick
  PROVE  /\ Timely(n)'
         /\ FileTime < Renew /\ RenewsInTime(n) => RenewsInTime(n)'
<1>1. /\ clock' = clock + 1 /\ latest' = latest
      /\ phase'[n] = phase[n] /\ validUntil'[n] = validUntil[n] /\ closed'[n] = closed[n]
      /\ chain'[n] = chain[n] /\ writing'[n] = writing[n] /\ renewing'[n] = renewing[n]
      /\ renewAt'[n] = renewAt[n] /\ failed'[n] = failed[n]
      /\ missed'[n] = missed[n] /\ newerAt'[n] = newerAt[n]
  BY DEF TimedTick, Tick, timerVars, apiVars, leaseVars, fenceVars
<1>2. /\ phase[n] = "running" => clock < renewAt[n]
      /\ phase[n] \in Alive =>
           /\ renewing[n] = 0
           /\ ~writing[n].landed
           /\ writing[n] = NoWrite => chain[n] = <<>>
  BY DEF TimedTick, Prompt, Alive
<1>3. writing[n] # NoWrite /\ ~writing[n].landed => clock < writing[n].deadline
  BY DEF TimedTick, Tick
<1>4. /\ clock \in Nat /\ renewAt[n] \in Nat /\ Renew \in Nat
      /\ writing[n].deadline \in Nat
  BY TimedTypes
<1>5. Unstarted(n)' /\ LooksInTime(n)'
  <2>1. Unstarted(n)'
    BY <1>1 DEF Timely, Unstarted
  <2>2. phase[n] = "running" => renewing[n] = 0
    BY <1>2 DEF Alive
  <2>3. LooksInTime(n)'
    BY <1>1, <2>2 DEF Timely, LooksInTime
  <2> QED
    BY <2>1, <2>3
<1>6. TimerRuns(n)'
  BY <1>1, <1>2, <1>4 DEF Timely, TimerRuns, Alive
<1>7. Keeps(n)'
  <2>1. phase[n] \in {"booting", "running"} /\ writing[n] # NoWrite =>
          clock + 1 <= writing[n].deadline /\ writing[n].deadline <= clock + 1 + FileTime
    BY <1>2, <1>3, <1>4, TimeAssumption DEF Alive, Timely, Keeps
  <2> QED
    BY <1>1, <2>1 DEF Timely, Keeps
<1>8. ASSUME RenewsInTime(n) PROVE RenewsInTime(n)'
  <2>1. phase[n] = "running" => renewing[n] = 0 /\ (writing[n] = NoWrite => chain[n] = <<>>)
    BY <1>2 DEF Alive
  <2> QED
    BY <1>1, <1>8, <2>1 DEF RenewsInTime
<1> QED
  BY <1>5, <1>6, <1>7, <1>8 DEF Timely

LEMMA TimedCreateRunStep ==
  ASSUME TypeOK, TimersTypeOK, NEW n \in Run, Timely(n), TimedCreateRun
  PROVE  /\ Timely(n)'
         /\ RenewsInTime(n) => RenewsInTime(n)'
<1>1. /\ clock' = clock /\ latest' = latest + 1
      /\ phase'[n] = phase[n] /\ validUntil'[n] = validUntil[n] /\ closed'[n] = closed[n]
      /\ chain'[n] = chain[n] /\ writing'[n] = writing[n] /\ renewing'[n] = renewing[n]
      /\ renewAt'[n] = renewAt[n] /\ failed'[n] = failed[n] /\ missed'[n] = missed[n]
  BY DEF TimedCreateRun, CreateRun, leaseVars, fenceVars
<1>2. newerAt'[n] = IF n = latest /\ phase[n] = "running" THEN clock ELSE newerAt[n]
  BY DEF TimedCreateRun
<1>3. Unstarted(n)' /\ Keeps(n)' /\ TimerRuns(n)'
  BY <1>1 DEF Timely, Unstarted, Keeps, TimerRuns
<1>4. RenewsInTime(n) => RenewsInTime(n)'
  BY <1>1 DEF RenewsInTime
<1>5. latest \in Nat /\ n \in Nat /\ clock \in Nat /\ missed[n] \in Nat /\ renewAt[n] \in Nat
      /\ Renew \in Nat /\ newerAt[n] \in Nat
  BY TimedTypes
<1>6. LooksInTime(n)'
  <2>1. CASE n = latest /\ phase[n] = "running"
    <3>1. newerAt'[n] = clock /\ n < latest'
      BY <1>1, <1>2, <1>5, <2>1
    <3>2. clock <= renewAt[n] /\ renewAt[n] <= clock + Renew
      BY <2>1 DEF Timely, TimerRuns
    <3>3. /\ renewAt[n] <= clock + Rounds(missed[n] + 1)
          /\ renewAt[n] <= clock + Rounds(missed[n] + 2)
          /\ clock <= clock + Rounds(missed[n] + 1)
      <4>1. /\ Rounds(missed[n] + 1) \in Nat /\ Rounds(missed[n] + 2) \in Nat
            /\ Renew <= Rounds(missed[n] + 1)
            /\ Rounds(missed[n] + 2) = Rounds(missed[n] + 1) + Renew
        BY <1>5, RoundsAdd
      <4> QED
        BY <1>5, <3>2, <4>1
    <3> QED
      BY <1>1, <2>1, <3>1, <3>3 DEF LooksInTime
  <2>2. CASE ~(n = latest /\ phase[n] = "running")
    <3>1. newerAt'[n] = newerAt[n]
      BY <1>2, <2>2
    <3>2. n < latest => n < latest'
      BY <1>1, <1>5
    <3> QED
      BY <1>1, <3>1, <3>2 DEF Timely, LooksInTime
  <2> QED
    BY <2>1, <2>2
<1> QED
  BY <1>3, <1>4, <1>6 DEF Timely

-----------------------------------------------------------------------------
(* The timer, the look-up of a newer run, and the end of a lease write.    *)

\* The other runs: only run n's state changes.
OthersKept(n) == \A k \in Run \ {n} : Kept(k)

\* The timer fires once a round.  When the next renewal would be as far off
\* as it may be, this round's was done, so the timer was not due.
LEMMA TimerFiresStep ==
  ASSUME TypeOK, TimersTypeOK, NEW n \in Run, Timely(n), TimerFires(n)
  PROVE  /\ TimersTypeOK' /\ OthersKept(n)
         /\ Timely(n)'
         /\ FileTime < Renew /\ RenewsInTime(n) => RenewsInTime(n)'
<1>0. phase[n] = "running" /\ renewing[n] = 0 /\ clock = renewAt[n]
  BY TimedTypes DEF TimerFires, RenewCheck, Timely, TimerRuns
<1>1. /\ phase[n] = "running" /\ renewing[n] = 0 /\ clock = renewAt[n]
      /\ renewing'[n] = 1 /\ renewAt'[n] = clock + Renew
      /\ clock' = clock /\ latest' = latest /\ phase' = phase
      /\ validUntil' = validUntil /\ closed' = closed /\ chain' = chain
      /\ writing' = writing /\ failed' = failed /\ missed' = missed /\ newerAt' = newerAt
  BY <1>0 DEF TimerFires, RenewCheck, apiVars, fenceVars, TypeOK, TimersTypeOK
<1>2. OthersKept(n)
  BY <1>1 DEF TimerFires, RenewCheck, OthersKept, Kept, TypeOK, TimersTypeOK
<1>3. /\ clock \in Nat /\ renewAt[n] \in Nat /\ Renew \in Nat /\ 0 < Renew
      /\ missed[n] \in Nat /\ failed[n] \in Nat /\ newerAt[n] \in Nat
      /\ validUntil[n] \in Nat /\ FileTime \in Nat /\ Ttl \in Nat
      /\ writing[n].deadline \in Nat
  BY TimedTypes
<1>4. TimersTypeOK'
  <2>1. renewAt' \in [Run -> Nat]
    BY <1>3 DEF TimersTypeOK, TimerFires
  <2> QED
    BY <1>1, <2>1 DEF TimersTypeOK
<1>5. Unstarted(n)' /\ Keeps(n)' /\ TimerRuns(n)'
  <2>1. Unstarted(n)'
    BY <1>1 DEF Unstarted
  <2>2. Keeps(n)'
    BY <1>1 DEF Timely, Keeps
  <2>3. TimerRuns(n)'
    BY <1>1, <1>3 DEF TimerRuns
  <2> QED
    BY <2>1, <2>2, <2>3
<1>6. LooksInTime(n)'
  <2>1. newerAt[n] # 0 => n < latest /\ renewAt[n] <= newerAt[n] + Rounds(missed[n] + 1)
    BY <1>1 DEF Timely, LooksInTime
  <2>2. newerAt[n] # 0 => clock + Renew <= newerAt[n] + Rounds(missed[n] + 2)
    <3>1. Rounds(missed[n] + 1) \in Nat /\ Rounds(missed[n] + 2) = Rounds(missed[n] + 1) + Renew
      BY <1>3, RoundsAdd
    <3> QED
      BY <1>1, <1>3, <2>1, <3>1
  <2> QED
    BY <1>1, <2>1, <2>2 DEF LooksInTime
<1>7. ASSUME FileTime < Renew, RenewsInTime(n) PROVE RenewsInTime(n)'
  <2>1. PICK a, b \in Nat : /\ a = Rounds(failed[n] + 1) /\ b = Rounds(failed[n] + 2)
                            /\ b = a + Renew
    BY <1>3, RoundsAdd
  <2>2. writing[n] # NoWrite => clock <= writing[n].deadline
    BY <1>1 DEF Timely, Keeps
  <2>3. clock + Ttl <= validUntil[n] + FileTime + a
    <3>1. clock + Ttl > validUntil[n] + FileTime + a =>
            /\ writing[n] = NoWrite => clock + Renew <= clock
            /\ writing[n] # NoWrite => writing[n].deadline + Renew <= clock + FileTime
      BY <1>1, <1>7, <2>1 DEF RenewsInTime
    <3> QED
      BY <1>3, <1>7, <2>1, <2>2, <3>1
  <2>4. clock + Renew + Ttl <= validUntil[n] + FileTime + b
    BY <1>3, <2>1, <2>3
  <2>5. writing[n] # NoWrite => writing[n].deadline + Renew <= clock + Renew + FileTime
    <3>1. writing[n] # NoWrite => writing[n].deadline <= clock + FileTime
      BY <1>1 DEF Timely, Keeps
    <3> QED
      BY <1>3, <3>1
  <2> QED
    BY <1>1, <1>3, <2>1, <2>4, <2>5 DEF RenewsInTime
<1> QED
  BY <1>2, <1>4, <1>5, <1>6, <1>7 DEF Timely

LEMMA LookUpFailedStep ==
  ASSUME TypeOK, TimersTypeOK, NEW n \in Run, Timely(n), LookUpFailed(n)
  PROVE  /\ TimersTypeOK' /\ OthersKept(n)
         /\ Timely(n)'
         /\ FileTime < Renew /\ RenewsInTime(n) => RenewsInTime(n)'
<1>0. renewing[n] # 0 /\ (phase[n] = "running" => renewing'[n] = 0)
  <2>1. renewing[n] > 0 /\ renewing'[n] = renewing[n] - 1
    BY DEF LookUpFailed, RenewFailed, TypeOK
  <2>2. phase[n] = "running" /\ renewing[n] # 0 => renewing[n] = 1
    BY DEF Timely, TimerRuns
  <2> QED
    BY <2>1, <2>2, TimedTypes
<1>1. /\ renewing[n] # 0 /\ failed[n] < MaxFailed /\ missed[n] < MaxFailed
      /\ phase[n] = "running" => renewing'[n] = 0
      /\ failed'[n] = failed[n] + 1 /\ missed'[n] = missed[n] + 1
      /\ clock' = clock /\ latest' = latest /\ phase' = phase
      /\ validUntil' = validUntil /\ closed' = closed /\ chain' = chain
      /\ writing' = writing /\ renewAt' = renewAt /\ newerAt' = newerAt
  BY <1>0 DEF LookUpFailed, RenewFailed, apiVars, fenceVars, TypeOK, TimersTypeOK
<1>2. OthersKept(n)
  BY <1>1 DEF LookUpFailed, RenewFailed, OthersKept, Kept, TypeOK, TimersTypeOK
<1>3. /\ clock \in Nat /\ renewAt[n] \in Nat /\ Renew \in Nat
      /\ missed[n] \in Nat /\ failed[n] \in Nat /\ newerAt[n] \in Nat
      /\ validUntil[n] \in Nat /\ FileTime \in Nat /\ Ttl \in Nat /\ MaxFailed \in Nat
  BY TimedTypes
<1>4. TimersTypeOK'
  <2>1. failed[n] + 1 \in 0..MaxFailed /\ missed[n] + 1 \in 0..MaxFailed
    BY <1>1, <1>3
  <2>2. failed' \in [Run -> 0..MaxFailed] /\ missed' \in [Run -> 0..MaxFailed]
    BY <2>1 DEF LookUpFailed, TimersTypeOK
  <2> QED
    BY <1>1, <2>2 DEF TimersTypeOK
<1>5. Unstarted(n)' /\ Keeps(n)' /\ TimerRuns(n)'
  BY <1>1 DEF Timely, Unstarted, Keeps, TimerRuns
<1>6. LooksInTime(n)'
  <2>1. missed'[n] + 1 = missed[n] + 2
    BY <1>1, <1>3
  <2> QED
    BY <1>1, <2>1 DEF Timely, LooksInTime
<1>7. ASSUME RenewsInTime(n) PROVE RenewsInTime(n)'
  <2>1. PICK m \in Nat : m = failed[n] + 1
    BY <1>3
  <2>2. failed'[n] = m /\ failed[n] + 2 = m + 1
    BY <1>1, <1>3, <2>1
  <2>3. Rounds(m + 1) \in Nat /\ Rounds(m + 2) = Rounds(m + 1) + Renew
    BY RoundsAdd
  <2>4. phase[n] = "running" => renewAt[n] + Ttl <= validUntil[n] + FileTime + Rounds(m + 1)
    BY <1>7, <2>2 DEF RenewsInTime
  <2>5. phase[n] = "running" =>
          /\ renewAt[n] + Ttl <= validUntil[n] + FileTime + Rounds(m + 2)
          /\ ~(renewAt[n] + Ttl > validUntil[n] + FileTime + Rounds(m + 1))
    BY <1>3, <2>3, <2>4
  <2> QED
    BY <1>1, <2>2, <2>5 DEF RenewsInTime
<1> QED
  BY <1>2, <1>4, <1>5, <1>6, <1>7 DEF Timely

\* What Enqueue leaves behind: one more write, of that kind.
LEMMA EnqueueSays ==
  ASSUME TypeOK, NEW n \in Run, NEW kind \in WriteKind, Enqueue(n, kind)
  PROVE  /\ chain'[n] = Append(chain[n], kind) /\ chain'[n] # <<>>
         /\ \A k \in Run \ {n} : chain'[k] = chain[k]
         /\ kind = "keep" /\ (\A i \in 1..Len(chain[n]) : chain[n][i] = "keep") =>
              \A i \in 1..Len(chain'[n]) : chain'[n][i] = "keep"
<1>1. chain'[n] = Append(chain[n], kind) /\ \A k \in Run \ {n} : chain'[k] = chain[k]
  BY DEF Enqueue, TypeOK
<1>2. PICK s \in Seq(WriteKind) : s = chain[n]
  BY DEF TypeOK
<1>3. /\ Len(Append(s, kind)) = Len(s) + 1 /\ Append(s, kind)[Len(s) + 1] = kind
      /\ \A i \in 1..Len(s) : Append(s, kind)[i] = s[i]
      /\ Append(s, kind) # <<>>
  OBVIOUS
<1>4. \A i \in 1..(Len(s) + 1) : i \in 1..Len(s) \/ i = Len(s) + 1
  OBVIOUS
<1> QED
  BY <1>1, <1>2, <1>3, <1>4

LEMMA LookUpAnsweredStep ==
  ASSUME TypeOK, TimersTypeOK, NEW n \in Run, Timely(n), LookUpAnswered(n)
  PROVE  /\ TimersTypeOK' /\ OthersKept(n)
         /\ Timely(n)'
         /\ FileTime < Renew /\ RenewsInTime(n) => RenewsInTime(n)'
<1>0. renewing[n] # 0 /\ (phase[n] = "running" => renewing'[n] = 0)
  <2>1. renewing[n] > 0 /\ renewing'[n] = renewing[n] - 1
    BY DEF LookUpAnswered, RenewWrite, TypeOK
  <2>2. phase[n] = "running" /\ renewing[n] # 0 => renewing[n] = 1
    BY DEF Timely, TimerRuns
  <2> QED
    BY <2>1, <2>2, TimedTypes
<1>1. /\ renewing[n] # 0 /\ latest = n
      /\ phase[n] = "running" => renewing'[n] = 0
      /\ missed'[n] = 0
      /\ clock' = clock /\ latest' = latest /\ phase' = phase
      /\ validUntil' = validUntil /\ closed' = closed /\ failed' = failed
      /\ writing' = writing /\ renewAt' = renewAt /\ newerAt' = newerAt
  BY <1>0 DEF LookUpAnswered, RenewWrite, apiVars, fenceVars, TypeOK, TimersTypeOK
<1>2. /\ chain'[n] # <<>>
      /\ \A k \in Run \ {n} : chain'[k] = chain[k]
      /\ (\A i \in 1..Len(chain[n]) : chain[n][i] = "keep") =>
           \A i \in 1..Len(chain'[n]) : chain'[n][i] = "keep"
  <2>1. Enqueue(n, "keep") /\ "keep" \in WriteKind
    BY DEF LookUpAnswered, RenewWrite, WriteKind
  <2> QED
    BY <2>1, EnqueueSays
<1>3. OthersKept(n)
  BY <1>1, <1>2 DEF LookUpAnswered, RenewWrite, OthersKept, Kept, TypeOK, TimersTypeOK
<1>4. TimersTypeOK'
  <2>1. 0 \in 0..MaxFailed
    BY TimersAssumption
  <2>2. missed' \in [Run -> 0..MaxFailed]
    BY <2>1 DEF LookUpAnswered, TimersTypeOK
  <2> QED
    BY <1>1, <2>2 DEF TimersTypeOK
<1>5. /\ phase[n] \notin {"absent", "checking", "booting"}
      /\ newerAt[n] = 0
  BY <1>1, TimedTypes DEF Timely, Unstarted, LooksInTime
<1>6. Unstarted(n)' /\ Keeps(n)' /\ TimerRuns(n)' /\ LooksInTime(n)'
  BY <1>1, <1>2, <1>5 DEF Timely, Unstarted, Keeps, TimerRuns, LooksInTime
<1>7. RenewsInTime(n) => RenewsInTime(n)'
  BY <1>1, <1>2 DEF RenewsInTime
<1> QED
  BY <1>3, <1>4, <1>6, <1>7 DEF Timely

LEMMA LeaseNotKeptStep ==
  ASSUME TypeOK, TimersTypeOK, NEW n \in Run, Timely(n), LeaseNotKept(n)
  PROVE  /\ TimersTypeOK' /\ OthersKept(n)
         /\ Timely(n)'
         /\ FileTime < Renew /\ RenewsInTime(n) => RenewsInTime(n)'
<1>1. /\ phase[n] \in {"running", "releasing"} /\ writing[n] # NoWrite
      /\ writing'[n] = NoWrite
      /\ closed'[n] = (closed[n] \/ writing[n].kind = "expire")
      /\ failed[n] < MaxFailed /\ failed'[n] = failed[n] + 1
      /\ clock' = clock /\ latest' = latest /\ phase' = phase
      /\ validUntil' = validUntil /\ chain' = chain /\ renewing' = renewing
      /\ renewAt' = renewAt /\ missed' = missed /\ newerAt' = newerAt
  BY DEF LeaseNotKept, FailLeaseWrite, apiVars, TypeOK, TimersTypeOK
<1>2. OthersKept(n)
  BY <1>1 DEF LeaseNotKept, FailLeaseWrite, OthersKept, Kept, TypeOK, TimersTypeOK
<1>3. /\ clock \in Nat /\ renewAt[n] \in Nat /\ Renew \in Nat
      /\ failed[n] \in Nat
      /\ validUntil[n] \in Nat /\ FileTime \in Nat /\ Ttl \in Nat /\ MaxFailed \in Nat
  BY TimedTypes
<1>4. TimersTypeOK'
  <2>1. failed[n] + 1 \in 0..MaxFailed
    BY <1>1, <1>3
  <2>2. failed' \in [Run -> 0..MaxFailed]
    BY <2>1 DEF LeaseNotKept, TimersTypeOK
  <2> QED
    BY <1>1, <2>2 DEF TimersTypeOK
<1>5. Unstarted(n)' /\ TimerRuns(n)' /\ LooksInTime(n)'
  BY <1>1 DEF Timely, Unstarted, TimerRuns, LooksInTime
<1>6. Keeps(n)'
  <2>1. phase[n] = "running" => writing[n].kind = "keep" /\ ~closed[n]
    BY <1>1 DEF Timely, Keeps
  <2> QED
    BY <1>1, <2>1 DEF Timely, Keeps
<1>7. ASSUME RenewsInTime(n) PROVE RenewsInTime(n)'
  <2>1. PICK m \in Nat : m = failed[n] + 1
    BY <1>3
  <2>2. failed'[n] = m /\ failed[n] + 2 = m + 1
    BY <1>1, <1>3, <2>1
  <2>3. Rounds(m + 1) \in Nat /\ Rounds(m + 2) = Rounds(m + 1) + Renew
    BY RoundsAdd
  <2>4. phase[n] = "running" => renewAt[n] + Ttl <= validUntil[n] + FileTime + Rounds(m + 1)
    BY <1>7, <2>2 DEF RenewsInTime
  <2>5. phase[n] = "running" =>
          /\ renewAt[n] + Ttl <= validUntil[n] + FileTime + Rounds(m + 2)
          /\ ~(renewAt[n] + Ttl > validUntil[n] + FileTime + Rounds(m + 1))
    BY <1>3, <2>3, <2>4
  <2> QED
    BY <1>1, <2>2, <2>5 DEF RenewsInTime
<1> QED
  BY <1>2, <1>4, <1>5, <1>6, <1>7 DEF Timely

\* A good write starts the count of rounds anew, from when it began.
LEMMA LeaseKeptStep ==
  ASSUME TypeOK, TimersTypeOK, NEW n \in Run, Timely(n), LeaseKept(n)
  PROVE  /\ TimersTypeOK' /\ OthersKept(n)
         /\ Timely(n)'
         /\ FileTime < Renew /\ RenewsInTime(n) => RenewsInTime(n)'
<1>1. /\ phase[n] \in Alive /\ writing[n].landed
      /\ writing'[n] = NoWrite /\ failed'[n] = 0
      /\ phase'[n] = IF phase[n] = "booting" THEN "running" ELSE phase[n]
      /\ clock' = clock /\ latest' = latest /\ chain' = chain
      /\ renewing' = renewing /\ missed' = missed
  BY DEF LeaseKept, SettleLeaseWrite, apiVars, TypeOK, TimersTypeOK
<1>2. writing[n].kind = "keep" =>
        /\ closed'[n] = closed[n]
        /\ ~closed[n] => validUntil'[n] = writing[n].expiresAt
  BY DEF LeaseKept, SettleLeaseWrite, TypeOK
<1>3. IF phase[n] = "booting"
      THEN /\ renewAt'[n] = clock + Renew
           /\ newerAt'[n] = IF latest > n THEN clock ELSE newerAt[n]
      ELSE renewAt'[n] = renewAt[n] /\ newerAt'[n] = newerAt[n]
  BY DEF LeaseKept, TimersTypeOK
<1>4. OthersKept(n)
  <2>1. ASSUME NEW k \in Run \ {n}
        PROVE  /\ phase'[k] = phase[k] /\ validUntil'[k] = validUntil[k]
               /\ closed'[k] = closed[k] /\ writing'[k] = writing[k]
    BY DEF LeaseKept, SettleLeaseWrite, TypeOK
  <2>2. ASSUME NEW k \in Run \ {n}
        PROVE  /\ renewAt'[k] = renewAt[k] /\ failed'[k] = failed[k]
               /\ newerAt'[k] = newerAt[k]
    BY DEF LeaseKept, TimersTypeOK
  <2> QED
    BY <1>1, <2>1, <2>2 DEF OthersKept, Kept
<1>5. /\ clock \in Nat /\ latest \in Nat /\ n \in Nat /\ renewAt[n] \in Nat
      /\ Renew \in Nat /\ newerAt[n] \in Nat /\ missed[n] \in Nat
      /\ FileTime \in Nat /\ Ttl \in Nat /\ MaxFailed \in Nat
      /\ writing[n].deadline \in Nat /\ writing[n].expiresAt \in Nat
  BY TimedTypes
<1>6. TimersTypeOK'
  <2>1. 0 \in 0..MaxFailed /\ clock + Renew \in Nat
    BY <1>5
  <2>2. failed' \in [Run -> 0..MaxFailed]
    BY <2>1 DEF LeaseKept, TimersTypeOK
  <2>3. renewAt' \in [Run -> Nat] /\ newerAt' \in [Run -> Nat]
    BY <1>5, <2>1 DEF LeaseKept, TimersTypeOK
  <2> QED
    BY <1>1, <2>2, <2>3 DEF TimersTypeOK
<1>7. writing[n] # NoWrite
  BY <1>1, WriteTypes
<1>8. /\ phase'[n] = phase[n] \/ phase'[n] = "running"
      /\ phase'[n] \in {"running", "releasing"}
  BY <1>1 DEF Alive
\* A write that settles in a run that is then running: it was on time.
<1>9. phase'[n] = "running" =>
        /\ phase[n] \in {"booting", "running"} /\ writing[n].kind = "keep" /\ ~closed[n]
        /\ clock <= writing[n].deadline
        /\ writing[n].expiresAt + FileTime = writing[n].deadline + Ttl
        /\ validUntil'[n] = writing[n].expiresAt /\ ~closed'[n]
  <2>1. phase'[n] = "running" => phase[n] \in {"booting", "running"}
    BY <1>1
  <2>2. phase[n] \in {"booting", "running"} =>
          /\ writing[n].kind = "keep" /\ ~closed[n] /\ clock <= writing[n].deadline
          /\ writing[n].expiresAt + FileTime = writing[n].deadline + Ttl
    BY <1>7 DEF Timely, Unstarted, Keeps
  <2> QED
    BY <1>2, <2>1, <2>2
<1>10. Unstarted(n)'
  BY <1>8 DEF Unstarted
<1>11. Keeps(n)'
  <2>1. phase'[n] = "running" => \A i \in 1..Len(chain[n]) : chain[n][i] = "keep"
    <3>1. phase[n] = "booting" => chain[n] = <<>>
      BY <1>7 DEF Timely, Unstarted
    <3>2. phase[n] = "running" => \A i \in 1..Len(chain[n]) : chain[n][i] = "keep"
      BY DEF Timely, Keeps
    <3>3. \A i \in 1..Len(<<>>) : FALSE
      OBVIOUS
    <3> QED
      BY <1>9, <3>1, <3>2, <3>3
  <2> QED
    BY <1>1, <1>9, <2>1 DEF Keeps
<1>12. phase'[n] = "running" => clock <= renewAt'[n] /\ renewAt'[n] <= clock + Renew
  BY <1>3, <1>5, <1>9 DEF Timely, TimerRuns
<1>13. TimerRuns(n)'
  <2>1. phase[n] = "booting" => renewing[n] = 0
    BY DEF Timely, Unstarted
  <2>2. phase[n] = "running" /\ renewing[n] # 0 => renewing[n] = 1 /\ clock < renewAt[n]
    BY DEF Timely, TimerRuns
  <2>3. phase'[n] = "running" /\ renewing'[n] # 0 => renewing'[n] = 1 /\ clock' < renewAt'[n]
    BY <1>1, <1>3, <1>9, <2>1, <2>2
  <2> QED
    BY <1>1, <1>12, <2>3 DEF TimerRuns
<1>14. LooksInTime(n)'
  <2>1. CASE phase[n] = "booting"
    <3>1. newerAt[n] = 0 /\ renewing[n] = 0
      BY <2>1 DEF Timely, LooksInTime, Unstarted
    <3>2. newerAt'[n] # 0 => n < latest /\ newerAt'[n] = clock
      BY <1>3, <1>5, <2>1, <3>1
    <3>3. clock + Renew <= clock + Rounds(missed[n] + 1)
      <4>1. Rounds(missed[n] + 1) \in Nat /\ Renew <= Rounds(missed[n] + 1)
        BY <1>5, RoundsAdd
      <4> QED
        BY <1>5, <4>1
    <3> QED
      BY <1>1, <1>3, <1>8, <2>1, <3>1, <3>2, <3>3 DEF LooksInTime
  <2>2. CASE phase[n] # "booting"
    BY <1>1, <1>3, <2>2 DEF Timely, LooksInTime
  <2> QED
    BY <2>1, <2>2
<1>15. FileTime < Renew => RenewsInTime(n)'
  <2>1. PICK a, b \in Nat : a = Rounds(0 + 1) /\ b = Rounds(0 + 2) /\ b = a + Renew /\ Renew <= a
    BY RoundsAdd, TimersAssumption
  <2>2. failed'[n] + 1 = 0 + 1 /\ failed'[n] + 2 = 0 + 2
    BY <1>1
  <2>3. PICK r \in Nat : r = renewAt'[n]
    BY <1>6 DEF TimersTypeOK
  <2>4. phase'[n] = "running" => r <= writing[n].deadline + Renew
    BY <1>5, <1>9, <1>12, <2>3
  <2>5. phase'[n] = "running" =>
          /\ r + Ttl <= writing[n].expiresAt + FileTime + b
          /\ ~(r + Ttl > writing[n].expiresAt + FileTime + a)
    BY <1>5, <1>9, <2>1, <2>4
  <2> QED
    BY <1>9, <2>1, <2>2, <2>3, <2>5 DEF RenewsInTime
<1> QED
  BY <1>4, <1>6, <1>10, <1>11, <1>13, <1>14, <1>15 DEF Timely

-----------------------------------------------------------------------------
(* The steps that leave the timers alone.                                  *)

\* Steps of other parts of the run's state.
LEMMA QuietSteps ==
  ASSUME TypeOK, NEW n \in Run, UNCHANGED timerVars,
         \/ WriteStartingLease(n)
         \/ \E w \in inFlight[n] : LandWrite(n, w) \/ LoseWrite(n, w)
         \/ \E git \in BOOLEAN : BeginWrite(n, git)
  PROVE  \A k \in Run : Kept(k)
<1>1. CASE WriteStartingLease(n)
  BY <1>1 DEF WriteStartingLease, timerVars, fenceVars, Kept
<1>2. CASE \E w \in inFlight[n] : LandWrite(n, w) \/ LoseWrite(n, w)
  BY <1>2 DEF LandWrite, LoseWrite, timerVars, apiVars, leaseVars, fenceVars, Kept
<1>3. CASE \E git \in BOOLEAN : BeginWrite(n, git)
  BY <1>3 DEF BeginWrite, timerVars, apiVars, leaseVars, fenceVars, Kept
<1> QED
  BY <1>1, <1>2, <1>3

\* Stop stops the run, and no other.
LEMMA StopSays ==
  ASSUME TypeOK, NEW n \in Run, UNCHANGED timerVars, Stop(n),
         UNCHANGED <<clock, latest>>,
         \A k \in Run \ {n} : writing'[k] = writing[k]
  PROVE  Stopped(n) /\ OthersKept(n)
BY DEF Stop, TypeOK, timerVars, Stopped, OthersKept, Kept

\* Steps in which the run stops.
LEMMA StoppingSteps ==
  ASSUME TypeOK, NEW n \in Run, UNCHANGED timerVars,
         \/ AbandonStart(n) \/ ExpireFailedStart(n) \/ FenceRefuses(n) \/ Exit(n)
         \/ RenewSuperseded(n) \/ FailFirstLeaseWrite(n)
  PROVE  Stopped(n) /\ OthersKept(n)
<1>1. CASE AbandonStart(n)
  BY <1>1 DEF AbandonStart, TypeOK, timerVars, leaseVars, fenceVars, Stopped, OthersKept, Kept
<1>2. CASE ExpireFailedStart(n)
  BY <1>2 DEF ExpireFailedStart, TypeOK, timerVars, apiVars, fenceVars, Stopped, OthersKept, Kept
<1>3. CASE FenceRefuses(n)
  BY <1>3, StopSays DEF FenceRefuses, apiVars
<1>4. CASE Exit(n)
  BY <1>4, StopSays DEF Exit, apiVars
<1>5. CASE RenewSuperseded(n)
  BY <1>5, StopSays DEF RenewSuperseded, apiVars
<1>6. CASE FailFirstLeaseWrite(n)
  <2>1. \A k \in Run \ {n} : writing'[k] = writing[k]
    BY <1>6 DEF FailFirstLeaseWrite, TypeOK
  <2> QED
    BY <1>6, <2>1, StopSays DEF FailFirstLeaseWrite, apiVars
<1> QED
  BY <1>1, <1>2, <1>3, <1>4, <1>5, <1>6

\* checkRun's first reads: the run goes on to check the lease, or stops.
LEMMA CheckRecordTimed ==
  ASSUME TypeOK, TimersTypeOK, NEW n \in Run, UNCHANGED timerVars,
         Timely(n), CheckRecord(n)
  PROVE  OthersKept(n) /\ Timely(n)' /\ RenewsInTime(n)'
<1>1. /\ phase[n] = "absent" /\ phase'[n] \in {"checking", "stopped"}
      /\ latest' = latest /\ newerAt' = newerAt
      /\ writing' = writing /\ closed' = closed /\ renewing' = renewing
  BY DEF CheckRecord, TypeOK, apiVars, leaseVars, fenceVars, timerVars
<1>2. OthersKept(n)
  BY DEF CheckRecord, TypeOK, apiVars, leaseVars, fenceVars, timerVars, OthersKept, Kept
<1>3. newerAt[n] = 0 /\ writing[n] = NoWrite /\ ~closed[n] /\ renewing[n] = 0
  BY <1>1 DEF Timely, LooksInTime, Unstarted
<1>4. Timely(n)' /\ RenewsInTime(n)'
  BY <1>1, <1>3 DEF Timely, LooksInTime, Unstarted, Keeps, TimerRuns, RenewsInTime
<1> QED
  BY <1>2, <1>4

\* checkRun's last read: the first lease write is queued, or the run stops.
LEMMA CheckLeaseTimed ==
  ASSUME TypeOK, TimersTypeOK, NEW n \in Run, UNCHANGED timerVars,
         Timely(n), CheckLease(n)
  PROVE  OthersKept(n) /\ Timely(n)' /\ RenewsInTime(n)'
<1>1. /\ phase[n] = "checking" /\ phase'[n] \in {"booting", "stopped"}
      /\ latest' = latest /\ newerAt' = newerAt /\ writing' = writing
  BY DEF CheckLease, Stop, TypeOK, apiVars, timerVars
<1>2. phase'[n] = "booting" =>
        chain'[n] = <<"keep">> /\ closed' = closed /\ renewing' = renewing
  BY DEF CheckLease, Stop, TypeOK
<1>3. OthersKept(n)
  <2>1. ASSUME NEW k \in Run \ {n}
        PROVE  /\ phase'[k] = phase[k] /\ validUntil'[k] = validUntil[k]
               /\ closed'[k] = closed[k] /\ chain'[k] = chain[k]
               /\ renewing'[k] = renewing[k]
    BY DEF CheckLease, Stop, TypeOK
  <2> QED
    BY <1>1, <2>1 DEF CheckLease, apiVars, timerVars, OthersKept, Kept
<1>4. newerAt[n] = 0 /\ writing[n] = NoWrite /\ ~closed[n] /\ renewing[n] = 0
  BY <1>1 DEF Timely, LooksInTime, Unstarted
<1>5. Timely(n)' /\ RenewsInTime(n)'
  <2>1. Unstarted(n)'
    BY <1>1, <1>2, <1>4 DEF Unstarted
  <2>2. Keeps(n)' /\ TimerRuns(n)' /\ LooksInTime(n)' /\ RenewsInTime(n)'
    BY <1>1, <1>4 DEF Keeps, TimerRuns, LooksInTime, RenewsInTime
  <2> QED
    BY <2>1, <2>2 DEF Timely
<1> QED
  BY <1>3, <1>5

\* A state change: one more lease write that keeps the lease.
LEMMA SetStateTimed ==
  ASSUME TypeOK, TimersTypeOK, NEW n \in Run, UNCHANGED timerVars,
         Timely(n), SetState(n)
  PROVE  OthersKept(n) /\ Timely(n)' /\ (RenewsInTime(n) => RenewsInTime(n)')
<1>1. /\ phase[n] = "running" /\ clock' = clock /\ latest' = latest /\ phase' = phase
      /\ validUntil' = validUntil /\ closed' = closed /\ writing' = writing
      /\ renewing' = renewing /\ renewAt' = renewAt /\ failed' = failed
      /\ missed' = missed /\ newerAt' = newerAt
  BY DEF SetState, apiVars, fenceVars, timerVars
<1>2. /\ chain'[n] # <<>>
      /\ \A k \in Run \ {n} : chain'[k] = chain[k]
      /\ (\A i \in 1..Len(chain[n]) : chain[n][i] = "keep") =>
           \A i \in 1..Len(chain'[n]) : chain'[n][i] = "keep"
  <2>1. Enqueue(n, "keep") /\ "keep" \in WriteKind
    BY DEF SetState, WriteKind
  <2> QED
    BY <2>1, EnqueueSays
<1>3. OthersKept(n)
  BY <1>1, <1>2 DEF OthersKept, Kept
<1>4. Unstarted(n)' /\ Keeps(n)' /\ TimerRuns(n)' /\ LooksInTime(n)'
  BY <1>1, <1>2 DEF Timely, Unstarted, Keeps, TimerRuns, LooksInTime
<1>5. RenewsInTime(n) => RenewsInTime(n)'
  BY <1>1, <1>2 DEF RenewsInTime
<1> QED
  BY <1>3, <1>4, <1>5 DEF Timely

\* The release: the timer is stopped.
LEMMA ReleaseTimed ==
  ASSUME TypeOK, TimersTypeOK, NEW n \in Run, UNCHANGED timerVars,
         Timely(n), Release(n)
  PROVE  OthersKept(n) /\ Timely(n)' /\ RenewsInTime(n)'
<1>1. /\ phase[n] = "running" /\ phase'[n] = "releasing"
      /\ clock' = clock /\ latest' = latest
      /\ validUntil' = validUntil /\ closed' = closed /\ writing' = writing
      /\ renewing' = renewing /\ renewAt' = renewAt /\ failed' = failed
      /\ missed' = missed /\ newerAt' = newerAt
  BY DEF Release, TypeOK, apiVars, fenceVars, timerVars
<1>2. \A k \in Run \ {n} : chain'[k] = chain[k] /\ phase'[k] = phase[k]
  BY DEF Release, Enqueue, TypeOK
<1>3. OthersKept(n)
  BY <1>1, <1>2 DEF OthersKept, Kept
<1>4. Unstarted(n)' /\ Keeps(n)' /\ TimerRuns(n)' /\ LooksInTime(n)' /\ RenewsInTime(n)'
  BY <1>1 DEF Timely, Unstarted, Keeps, TimerRuns, LooksInTime, RenewsInTime
<1> QED
  BY <1>3, <1>4 DEF Timely

\* What is left of a queue of writes that keep the lease.
LEMMA TailKeeps ==
  ASSUME NEW s \in Seq(WriteKind), s # <<>>,
         \A i \in 1..Len(s) : s[i] = "keep"
  PROVE  Head(s) = "keep" /\ \A i \in 1..Len(Tail(s)) : Tail(s)[i] = "keep"
<1>1. /\ Head(s) = s[1] /\ Len(s) \in Nat /\ Len(s) >= 1 /\ Len(Tail(s)) = Len(s) - 1
      /\ \A i \in 1..Len(Tail(s)) : Tail(s)[i] = s[i + 1]
  BY HeadTailProperties, EmptySeq, LenProperties
<1>2. \A i \in 1..Len(Tail(s)) : i + 1 \in 1..Len(s)
  BY <1>1
<1> QED
  BY <1>1, <1>2

\* A lease write begins: it will end, and promises the lease, in time.
LEMMA BeginLeaseWriteTimed ==
  ASSUME TypeOK, TimersTypeOK, NEW n \in Run, UNCHANGED timerVars,
         Timely(n), BeginLeaseWrite(n)
  PROVE  OthersKept(n) /\ Timely(n)' /\ (RenewsInTime(n) => RenewsInTime(n)')
<1>1. /\ phase[n] \in Alive /\ writing[n] = NoWrite /\ chain[n] # <<>>
      /\ chain'[n] = Tail(chain[n])
      /\ clock' = clock /\ latest' = latest /\ phase' = phase
      /\ validUntil' = validUntil /\ closed' = closed
      /\ renewing' = renewing /\ renewAt' = renewAt /\ failed' = failed
      /\ missed' = missed /\ newerAt' = newerAt
  BY DEF BeginLeaseWrite, LeaseWriteOf, TypeOK, apiVars, fenceVars, timerVars
<1>2. /\ writing'[n].kind = Head(chain[n])
      /\ writing'[n].deadline = clock + FileTime
      /\ Head(chain[n]) = "keep" => writing'[n].expiresAt = clock + Ttl
  BY DEF BeginLeaseWrite, LeaseWriteOf, TypeOK
<1>3. OthersKept(n)
  <2>1. \A k \in Run \ {n} : chain'[k] = chain[k] /\ writing'[k] = writing[k]
    BY DEF BeginLeaseWrite, LeaseWriteOf, TypeOK
  <2> QED
    BY <1>1, <2>1 DEF OthersKept, Kept
<1>4. /\ clock \in Nat /\ renewAt[n] \in Nat /\ Renew \in Nat
      /\ FileTime \in Nat /\ Ttl \in Nat /\ chain[n] \in Seq(WriteKind)
  BY TimedTypes
<1>5. phase[n] = "booting" => Head(chain[n]) = "keep" /\ Tail(chain[n]) = <<>>
  <2>1. phase[n] = "booting" => chain[n] = <<"keep">>
    BY <1>1 DEF Timely, Unstarted
  <2>2. Head(<<"keep">>) = "keep" /\ Tail(<<"keep">>) = <<>>
    OBVIOUS
  <2> QED
    BY <2>1, <2>2
<1>6. phase[n] = "running" =>
        /\ ~closed[n] /\ Head(chain[n]) = "keep"
        /\ \A i \in 1..Len(Tail(chain[n])) : Tail(chain[n])[i] = "keep"
  <2>1. phase[n] = "running" => ~closed[n] /\ \A i \in 1..Len(chain[n]) : chain[n][i] = "keep"
    BY DEF Timely, Keeps
  <2> QED
    BY <1>1, <1>4, <2>1, TailKeeps
<1>7. Unstarted(n)'
  <2>1. phase[n] \notin {"absent", "checking"}
    BY <1>1 DEF Alive
  <2> QED
    BY <1>1, <1>5, <2>1 DEF Timely, Unstarted
<1>8. Keeps(n)'
  <2>1. clock <= clock + FileTime /\ (clock + Ttl) + FileTime = (clock + FileTime) + Ttl
    BY <1>4
  <2>2. phase[n] \in {"booting", "running"} =>
          /\ writing'[n].kind = "keep"
          /\ clock <= writing'[n].deadline /\ writing'[n].deadline <= clock + FileTime
          /\ writing'[n].expiresAt + FileTime = writing'[n].deadline + Ttl
    BY <1>2, <1>4, <1>5, <1>6, <2>1
  <2> QED
    BY <1>1, <1>6, <2>2 DEF Keeps
<1>9. TimerRuns(n)' /\ LooksInTime(n)'
  BY <1>1 DEF Timely, TimerRuns, LooksInTime
<1>10. ASSUME RenewsInTime(n) PROVE RenewsInTime(n)'
  <2>1. writing'[n] # NoWrite
    <3>1. writing'[n].kind \in WriteKind
      BY <1>1, <1>2, <1>4, HeadTailProperties
    <3> QED
      BY <3>1, WriteTypes DEF WriteKind
  <2>2. clock + Renew <= renewAt[n] =>
          writing'[n].deadline + Renew <= renewAt[n] + FileTime
    BY <1>2, <1>4
  <2> QED
    BY <1>1, <1>10, <2>1, <2>2 DEF RenewsInTime
<1> QED
  BY <1>3, <1>7, <1>8, <1>9, <1>10 DEF Timely

\* Only a harness that is releasing its lease finds the fence closed.
LEMMA DropLeaseWriteTimed ==
  ASSUME TypeOK, TimersTypeOK, NEW n \in Run, UNCHANGED timerVars,
         Timely(n), DropLeaseWrite(n)
  PROVE  OthersKept(n) /\ Timely(n)' /\ RenewsInTime(n)'
<1>1. /\ phase[n] \in Alive /\ closed[n] /\ phase' = phase
      /\ clock' = clock /\ latest' = latest /\ writing' = writing
      /\ validUntil' = validUntil /\ closed' = closed
      /\ renewing' = renewing /\ renewAt' = renewAt /\ failed' = failed
      /\ missed' = missed /\ newerAt' = newerAt
  BY DEF DropLeaseWrite, apiVars, fenceVars, timerVars
<1>2. OthersKept(n)
  <2>1. \A k \in Run \ {n} : chain'[k] = chain[k]
    BY DEF DropLeaseWrite, TypeOK
  <2> QED
    BY <1>1, <2>1 DEF OthersKept, Kept
<1>3. phase[n] = "releasing"
  BY <1>1 DEF Timely, Unstarted, Keeps, Alive
<1>4. Timely(n)' /\ RenewsInTime(n)'
  BY <1>1, <1>3 DEF Timely, Unstarted, Keeps, TimerRuns, LooksInTime, RenewsInTime
<1> QED
  BY <1>2, <1>4

\* The rename changes nothing the harness knows.
LEMMA LandLeaseWriteTimed ==
  ASSUME TypeOK, TimersTypeOK, NEW n \in Run, UNCHANGED timerVars,
         Timely(n), LandLeaseWrite(n)
  PROVE  OthersKept(n) /\ Timely(n)' /\ (RenewsInTime(n) => RenewsInTime(n)')
<1>1. /\ writing[n] # NoWrite
      /\ clock' = clock /\ latest' = latest /\ phase' = phase /\ chain' = chain
      /\ validUntil' = validUntil /\ closed' = closed
      /\ renewing' = renewing /\ renewAt' = renewAt /\ failed' = failed
      /\ missed' = missed /\ newerAt' = newerAt
  BY DEF LandLeaseWrite, apiVars, fenceVars, timerVars
<1>2. writing[n] \in LeaseWrite
  BY <1>1 DEF TypeOK
<1>3. /\ writing'[n].kind = writing[n].kind
      /\ writing'[n].deadline = writing[n].deadline
      /\ writing'[n].expiresAt = writing[n].expiresAt
      /\ \A k \in Run \ {n} : writing'[k] = writing[k]
  <2>1. writing'[n] = [writing[n] EXCEPT !.landed = TRUE]
        /\ \A k \in Run \ {n} : writing'[k] = writing[k]
    BY DEF LandLeaseWrite, TypeOK
  <2>2. ASSUME NEW w \in LeaseWrite
        PROVE  LET v == [w EXCEPT !.landed = TRUE]
               IN v.kind = w.kind /\ v.deadline = w.deadline /\ v.expiresAt = w.expiresAt
    BY DEF LeaseWrite
  <2> QED
    BY <1>2, <2>1, <2>2
<1>4. writing'[n] # NoWrite
  BY <1>2, <1>3, WriteTypes DEF WriteKind
<1>5. OthersKept(n)
  BY <1>1, <1>3 DEF OthersKept, Kept
<1>6. Unstarted(n)' /\ Keeps(n)' /\ TimerRuns(n)' /\ LooksInTime(n)'
  BY <1>1, <1>3, <1>4 DEF Timely, Unstarted, Keeps, TimerRuns, LooksInTime
<1>7. RenewsInTime(n) => RenewsInTime(n)'
  BY <1>1, <1>3, <1>4 DEF RenewsInTime
<1> QED
  BY <1>5, <1>6, <1>7 DEF Timely

\* A write whose process is gone.
LEMMA ForgetLeaseWriteTimed ==
  ASSUME TypeOK, NEW n \in Run, UNCHANGED timerVars, ForgetLeaseWrite(n)
  PROVE  Stopped(n) /\ OthersKept(n)
BY DEF ForgetLeaseWrite, TypeOK, apiVars, fenceVars, timerVars, Stopped, OthersKept, Kept

\* Each of them keeps the invariant of every run.
LEMMA UntimedStep ==
  ASSUME TypeOK, TimersTypeOK, \A k \in Run : Timely(k), NEW n \in Run, Untimed(n)
  PROVE  \A k \in Run : Timely(k)' /\ (RenewsInTime(k) => RenewsInTime(k)')
<1>1. UNCHANGED timerVars
  BY DEF Untimed
<1>2. ASSUME \A k \in Run : Kept(k)
      PROVE  \A k \in Run : Timely(k)' /\ (RenewsInTime(k) => RenewsInTime(k)')
  BY <1>2, KeptStep
<1>3. ASSUME Timely(n)' /\ (RenewsInTime(n) => RenewsInTime(n)'), OthersKept(n)
      PROVE  \A k \in Run : Timely(k)' /\ (RenewsInTime(k) => RenewsInTime(k)')
  <2>1. ASSUME NEW k \in Run \ {n}
        PROVE  Timely(k)' /\ (RenewsInTime(k) => RenewsInTime(k)')
    BY <1>3, KeptStep DEF OthersKept
  <2> QED
    BY <1>3, <2>1
<1>4. ASSUME Stopped(n), OthersKept(n)
      PROVE  \A k \in Run : Timely(k)' /\ (RenewsInTime(k) => RenewsInTime(k)')
  BY <1>3, <1>4, StoppedStep
<1>5. CASE Api(n)
  BY <1>1, <1>2, <1>4, <1>5, QuietSteps, StoppingSteps DEF Api
<1>6. CASE Mount(n)
  BY <1>1, <1>2, <1>3, <1>4, <1>6, QuietSteps, LandLeaseWriteTimed, ForgetLeaseWriteTimed DEF Mount
<1>7. CASE FenceRefuses(n) \/ Exit(n) \/ RenewSuperseded(n) \/ FailFirstLeaseWrite(n)
  BY <1>1, <1>4, <1>7, StoppingSteps
<1>8. CASE \E git \in BOOLEAN : BeginWrite(n, git)
  BY <1>1, <1>2, <1>8, QuietSteps
<1>9. CASE \/ CheckRecord(n) \/ CheckLease(n) \/ SetState(n) \/ Release(n)
           \/ BeginLeaseWrite(n) \/ DropLeaseWrite(n)
  <2>1. OthersKept(n) /\ Timely(n)' /\ (RenewsInTime(n) => RenewsInTime(n)')
    BY <1>1, <1>9, CheckRecordTimed, CheckLeaseTimed, SetStateTimed, ReleaseTimed,
       BeginLeaseWriteTimed, DropLeaseWriteTimed
  <2> QED
    BY <1>3, <2>1
<1> QED
  BY <1>5, <1>6, <1>7, <1>8, <1>9 DEF Untimed

-----------------------------------------------------------------------------
(* The theorems.                                                           *)

\* Every step keeps every run's invariant.
LEMMA TimersStep ==
  ASSUME HandoverInv, [TimersNext]_<<vars, timerVars>>
  PROVE  /\ HandoverInv'
         /\ FileTime < Renew /\ (\A k \in Run : RenewsInTime(k)) =>
              (\A k \in Run : RenewsInTime(k)')
<1>1. TypeOK /\ TimersTypeOK /\ \A k \in Run : Timely(k)
  BY DEF HandoverInv
<1>2. TypeOK'
  BY <1>1, TimersStepsAreSteps, TypeStep
<1>3. SUFFICES /\ TimersTypeOK'
               /\ \A k \in Run : Timely(k)' /\ (FileTime < Renew /\ RenewsInTime(k) => RenewsInTime(k)')
  BY <1>2, <1>3 DEF HandoverInv
<1>4. CASE TimedTick
  <2>1. TimersTypeOK'
    BY <1>1, <1>4 DEF TimedTick, timerVars, TimersTypeOK
  <2> QED
    BY <1>1, <1>4, <2>1, TimedTickStep
<1>5. CASE TimedCreateRun
  <2>1. TimersTypeOK'
    <3>1. newerAt' \in [Run -> Nat]
      BY <1>1, <1>5 DEF TimedCreateRun, TypeOK, Time, TimersTypeOK
    <3> QED
      BY <1>1, <1>5, <3>1 DEF TimedCreateRun, TimersTypeOK
  <2> QED
    BY <1>1, <1>5, <2>1, TimedCreateRunStep
<1>6. ASSUME NEW n \in Run, \/ TimerFires(n) \/ LookUpFailed(n) \/ LookUpAnswered(n)
                            \/ LeaseKept(n) \/ LeaseNotKept(n)
      PROVE  /\ TimersTypeOK'
             /\ \A k \in Run : Timely(k)' /\ (FileTime < Renew /\ RenewsInTime(k) => RenewsInTime(k)')
  <2>1. /\ TimersTypeOK' /\ OthersKept(n) /\ Timely(n)'
        /\ FileTime < Renew /\ RenewsInTime(n) => RenewsInTime(n)'
    <3>1. Timely(n)
      BY <1>1
    <3> QED
      BY <1>1, <1>6, <3>1, TimerFiresStep, LookUpFailedStep, LookUpAnsweredStep, LeaseKeptStep,
         LeaseNotKeptStep
  <2>2. ASSUME NEW k \in Run \ {n}
        PROVE  Timely(k)' /\ (RenewsInTime(k) => RenewsInTime(k)')
    BY <1>1, <2>1, KeptStep DEF OthersKept
  <2> QED
    BY <2>1, <2>2
<1>7. ASSUME NEW n \in Run, Untimed(n)
      PROVE  /\ TimersTypeOK'
             /\ \A k \in Run : Timely(k)' /\ (FileTime < Renew /\ RenewsInTime(k) => RenewsInTime(k)')
  <2>1. TimersTypeOK'
    BY <1>1, <1>7 DEF Untimed, timerVars, TimersTypeOK
  <2> QED
    BY <1>1, <1>7, <2>1, UntimedStep
<1>8. CASE UNCHANGED <<vars, timerVars>>
  <2>1. TimersTypeOK'
    BY <1>1, <1>8 DEF timerVars, TimersTypeOK
  <2>2. \A k \in Run : Kept(k)
    BY <1>8 DEF vars, apiVars, leaseVars, fenceVars, timerVars, Kept
  <2> QED
    BY <1>1, <2>1, <2>2, KeptStep
<1> QED
  BY <1>4, <1>5, <1>6, <1>7, <1>8 DEF TimersNext

LEMMA TimersStart == TimersInit => RenewalInv
<1> SUFFICES ASSUME TimersInit PROVE RenewalInv
  OBVIOUS
<1>1. TypeOK
  BY BoundsAssumption, WriteTypes DEF TimersInit, Init, TypeOK, Run, Time, Phase, Landing
<1>2. TimersTypeOK
  BY TimersAssumption DEF TimersInit, TimersTypeOK
<1>3. ASSUME NEW n \in Run PROVE Timely(n) /\ RenewsInTime(n)
  BY DEF TimersInit, Init, Timely, Unstarted, Keeps, TimerRuns, LooksInTime, RenewsInTime
<1> QED
  BY <1>1, <1>2, <1>3 DEF RenewalInv, HandoverInv

\* The timer's state follows the lease's in every reachable state.
THEOREM TimersInvariant == TimersSpec => []HandoverInv
<1>1. HandoverInv /\ [TimersNext]_<<vars, timerVars>> => HandoverInv'
  BY TimersStep
<1>2. TimersInit => HandoverInv
  BY TimersStart DEF RenewalInv
<1> QED
  BY <1>1, <1>2, PTL DEF TimersSpec

\* A harness that runs beside its successor stops soon: its next look-up is
\* never more than a round away, and at most MaxFailed of them fail.
THEOREM HandoverBounded == TimersSpec => []HandoverIsBounded
<1>1. HandoverInv => HandoverIsBounded
  <2> SUFFICES ASSUME HandoverInv, NEW n \in Run, phase[n] = "running", newerAt[n] # 0
               PROVE  clock <= newerAt[n] + Renew * (MaxFailed + 1)
    BY DEF HandoverIsBounded
  <2>1. TypeOK /\ TimersTypeOK /\ Timely(n)
    BY DEF HandoverInv
  <2>2. /\ clock \in Nat /\ renewAt[n] \in Nat /\ newerAt[n] \in Nat
        /\ missed[n] \in Nat /\ missed[n] <= MaxFailed /\ MaxFailed \in Nat
    BY <2>1, TimedTypes
  <2>3. PICK a, b \in Nat : /\ a = Rounds(missed[n] + 1) /\ b = Rounds(MaxFailed + 1)
                            /\ a <= b
    BY <2>2, RoundsAdd, RoundsGrow
  <2>4. clock <= newerAt[n] + a
    <3>1. clock <= newerAt[n] + a \/ (clock <= renewAt[n] /\ renewAt[n] <= newerAt[n] + a)
      BY <2>1, <2>3 DEF Timely, LooksInTime, TimerRuns
    <3> QED
      BY <2>2, <2>3, <3>1
  <2>5. clock <= newerAt[n] + b
    BY <2>2, <2>3, <2>4
  <2> QED
    BY <2>3, <2>5 DEF Rounds
<1> QED
  BY <1>1, TimersInvariant, PTL

\* A harness scheduled on time passes its fence whenever it asks: the last
\* good write is never older than MaxFailed + 1 rounds and two writes.
THEOREM FenceIsKept ==
  ASSUME RenewalsFitTheTerm
  PROVE  TimersSpec => []PromptHarnessKeepsItsFence
<1>1. RenewalInv /\ [TimersNext]_<<vars, timerVars>> => RenewalInv'
  <2> SUFFICES ASSUME RenewalInv, [TimersNext]_<<vars, timerVars>> PROVE RenewalInv'
    OBVIOUS
  <2>1. HandoverInv' /\ \A k \in Run : RenewsInTime(k)'
    BY TimersStep DEF RenewalInv, RenewalsFitTheTerm
  <2> QED
    BY <2>1 DEF RenewalInv
<1>2. RenewalInv => PromptHarnessKeepsItsFence
  <2> SUFFICES ASSUME RenewalInv, NEW n \in Run, phase[n] = "running"
               PROVE  MayWrite(n)
    BY DEF PromptHarnessKeepsItsFence
  <2>1. TypeOK /\ TimersTypeOK /\ Timely(n) /\ RenewsInTime(n)
    BY DEF RenewalInv, HandoverInv
  <2>2. /\ clock \in Nat /\ renewAt[n] \in Nat /\ validUntil[n] \in Nat
        /\ failed[n] \in Nat /\ failed[n] <= MaxFailed /\ MaxFailed \in Nat
        /\ writing[n].deadline \in Nat /\ Renew \in Nat
        /\ FileTime \in Nat /\ Ttl \in Nat /\ Margin \in Nat
    BY <2>1, TimedTypes
  <2>3. PICK a, b, c \in Nat : /\ a = Rounds(failed[n] + 1) /\ b = Rounds(failed[n] + 2)
                               /\ c = Rounds(MaxFailed + 1)
                               /\ b = a + Renew /\ a <= c
    <3>1. /\ Rounds(failed[n] + 1) \in Nat /\ Rounds(failed[n] + 2) \in Nat
          /\ Rounds(failed[n] + 2) = Rounds(failed[n] + 1) + Renew
      BY <2>2, RoundsAdd
    <3>2. Rounds(MaxFailed + 1) \in Nat
      BY <2>2, RoundsAdd
    <3>3. failed[n] + 1 \in Nat /\ MaxFailed + 1 \in Nat /\ failed[n] + 1 <= MaxFailed + 1
      BY <2>2
    <3>4. Rounds(failed[n] + 1) <= Rounds(MaxFailed + 1)
      BY <3>3, RoundsGrow
    <3> QED
      BY <3>1, <3>2, <3>4
  <2>4. /\ ~closed[n] /\ clock <= renewAt[n]
        /\ writing[n] # NoWrite => clock <= writing[n].deadline
    BY <2>1 DEF Timely, Keeps, TimerRuns
  <2>5. clock + Ttl <= validUntil[n] + 2 * FileTime + a
    <3>1. /\ renewAt[n] + Ttl <= validUntil[n] + FileTime + b
          /\ renewAt[n] + Ttl > validUntil[n] + FileTime + a =>
               \/ clock + Renew <= renewAt[n]
               \/ writing[n] # NoWrite /\ writing[n].deadline + Renew <= renewAt[n] + FileTime
      BY <2>1, <2>3 DEF RenewsInTime
    <3>2. CASE renewAt[n] + Ttl > validUntil[n] + FileTime + a
      <4>1. clock + Renew <= renewAt[n] + FileTime
        BY <2>2, <2>4, <3>1, <3>2
      <4> QED
        BY <2>2, <2>3, <3>1, <4>1
    <3>3. CASE ~(renewAt[n] + Ttl > validUntil[n] + FileTime + a)
      BY <2>2, <2>3, <2>4, <3>3
    <3> QED
      BY <3>2, <3>3
  <2>6. c + 2 * FileTime + Margin < Ttl
    BY <2>3 DEF RenewalsFitTheTerm, Rounds
  <2>7. clock + Margin < validUntil[n]
    BY <2>2, <2>3, <2>5, <2>6
  <2> QED
    BY <2>4, <2>7 DEF MayWrite
<1> QED
  BY <1>1, <1>2, TimersStart, PTL DEF TimersSpec
=============================================================================
