----------------------------- MODULE LeaseTimers -----------------------------
(***************************************************************************)
(* RunLease with the renewal timer (setInterval every LEASE_RENEW_MS in    *)
(* lease.ts RunLease.start) and a harness that is scheduled on time: no    *)
(* time passes while its timer is due, while the look-up of a newer run    *)
(* has not answered, or while a lease write could begin or settle.         *)
(* RunLease itself lets all of these be late; what is checked here is what *)
(* the 30 s / 90 s / 15 s constants buy a harness that is not.             *)
(***************************************************************************)
EXTENDS RunLease

CONSTANTS
  Renew,     \* LEASE_RENEW_MS
  MaxFailed  \* renewals that may fail in a row (an assumption, not code)

ASSUME TimersAssumption == Renew \in Nat \ {0} /\ MaxFailed \in Nat

VARIABLES
  renewAt,   \* renewAt[n]: when run n's timer fires next (0: no timer)
  failed,    \* failed[n]: renewals and writes that failed since the last good write
  missed,    \* missed[n]: look-ups for a newer run that failed in a row
  newerAt    \* newerAt[n]: since when run n runs beside run n+1 (0: it does not)

timerVars == <<renewAt, failed, missed, newerAt>>

TimersInit ==
  /\ Init
  /\ renewAt = [n \in Run |-> 0]
  /\ failed = [n \in Run |-> 0]
  /\ missed = [n \in Run |-> 0]
  /\ newerAt = [n \in Run |-> 0]

\* Nothing run n's event loop should be doing by now is still to be done.
Prompt(n) ==
  phase[n] \in Alive =>
    /\ phase[n] = "running" => clock < renewAt[n]
    /\ renewing[n] = 0
    /\ ~writing[n].landed
    /\ writing[n] = NoWrite => chain[n] = <<>>

TimedTick ==
  /\ \A n \in Run : Prompt(n)
  /\ Tick
  /\ UNCHANGED timerVars

TimedCreateRun ==
  /\ CreateRun
  /\ newerAt' = [n \in Run |->
       IF n = latest /\ phase[n] = "running" THEN clock ELSE newerAt[n]]
  /\ UNCHANGED <<renewAt, failed, missed>>

\* MUTANT of TimerFires: setTimeout for the whole of the lease's term.
TimerFiresLate(n) ==
  /\ clock = renewAt[n]
  /\ RenewCheck(n)
  /\ renewAt' = [renewAt EXCEPT ![n] = clock + Ttl]
  /\ UNCHANGED <<failed, missed, newerAt>>

\* setInterval: the timer fires, and again Renew later.
TimerFires(n) ==
  /\ clock = renewAt[n]
  /\ RenewCheck(n)
  /\ renewAt' = [renewAt EXCEPT ![n] = clock + Renew]
  /\ UNCHANGED <<failed, missed, newerAt>>

\* MUTANT of LeaseKept: every good write puts the timer off.
LeaseKeptRearms(n) ==
  /\ SettleLeaseWrite(n)
  /\ failed' = [failed EXCEPT ![n] = 0]
  /\ renewAt' = [renewAt EXCEPT ![n] = clock + Renew]
  /\ newerAt' = [newerAt EXCEPT ![n] =
       IF phase[n] = "booting" /\ latest > n THEN clock ELSE @]
  /\ UNCHANGED missed

\* The first write starts the interval; the others leave it alone.
LeaseKept(n) ==
  /\ SettleLeaseWrite(n)
  /\ failed' = [failed EXCEPT ![n] = 0]
  /\ \/ /\ phase[n] = "booting"
        /\ renewAt' = [renewAt EXCEPT ![n] = clock + Renew]
        /\ newerAt' = [newerAt EXCEPT ![n] = IF latest > n THEN clock ELSE @]
     \/ /\ phase[n] # "booting"
        /\ UNCHANGED <<renewAt, newerAt>>
  /\ UNCHANGED missed

LeaseNotKept(n) ==
  /\ FailLeaseWrite(n)
  /\ failed[n] < MaxFailed
  /\ failed' = [failed EXCEPT ![n] = @ + 1]
  /\ UNCHANGED <<renewAt, missed, newerAt>>

LookUpFailed(n) ==
  /\ RenewFailed(n)
  /\ failed[n] < MaxFailed /\ missed[n] < MaxFailed
  /\ failed' = [failed EXCEPT ![n] = @ + 1]
  /\ missed' = [missed EXCEPT ![n] = @ + 1]
  /\ UNCHANGED <<renewAt, newerAt>>

LookUpAnswered(n) ==
  /\ RenewWrite(n)
  /\ missed' = [missed EXCEPT ![n] = 0]
  /\ UNCHANGED <<renewAt, failed, newerAt>>

Untimed(n) ==
  /\ \/ Api(n) \/ Mount(n)
     \/ CheckRecord(n) \/ CheckLease(n) \/ FenceRefuses(n) \/ Exit(n)
     \/ SetState(n) \/ Release(n) \/ RenewSuperseded(n)
     \/ BeginLeaseWrite(n) \/ DropLeaseWrite(n) \/ FailFirstLeaseWrite(n)
     \/ \E git \in BOOLEAN : BeginWrite(n, git)
  /\ UNCHANGED timerVars

TimersNext ==
  \/ TimedTick
  \/ TimedCreateRun
  \/ \E n \in Run :
       \/ TimerFires(n) \/ LookUpFailed(n) \/ LookUpAnswered(n)
       \/ LeaseKept(n) \/ LeaseNotKept(n)
       \/ Untimed(n)

TimersSpec == TimersInit /\ [][TimersNext]_<<vars, timerVars>>

-----------------------------------------------------------------------------

\* The renewals come soon enough: MaxFailed + 1 rounds and two slow writes
\* end before the last good lease runs down to the margin.
RenewalsFitTheTerm ==
  /\ FileTime < Renew
  /\ Renew * (MaxFailed + 1) + 2 * FileTime + Margin < Ttl

(***************************************************************************)
(* A harness that is scheduled on time and loses no more than MaxFailed    *)
(* lease writes in a row always passes its fence: it is never superseded   *)
(* by its own lease (lease.ts: failures are logged, "the fence stops       *)
(* writes before the last good lease runs out").                           *)
(***************************************************************************)
PromptHarnessKeepsItsFence ==
  \A n \in Run : phase[n] = "running" => MayWrite(n)

(***************************************************************************)
(* A harness that runs beside its successor, as in `--dev', stops at one   *)
(* of its next renewals, however often its state changes rewrite the lease *)
(* meanwhile (dev.ts: "sees the new record at its next renewal and stops").*)
(***************************************************************************)
HandoverIsBounded ==
  \A n \in Run :
    phase[n] = "running" /\ newerAt[n] # 0 =>
      clock <= newerAt[n] + Renew * (MaxFailed + 1)
=============================================================================
