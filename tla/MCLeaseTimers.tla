---------------------------- MODULE MCLeaseTimers ----------------------------
(***************************************************************************)
(* An instance of LeaseTimers in units of 15 s: a margin and a write of    *)
(* one, a renewal every two.  The lease is eight, not the source's six,    *)
(* since a write may take a whole unit here and eats into it.              *)
(***************************************************************************)
EXTENDS LeaseTimers

\* The instance is one the fence's theorem is about.
ASSUME InstanceFits == RenewalsFitTheTerm

\* For the handover of run 1 to run 2 only run 2's record matters, not what
\* its harness does: the other runs' harnesses stay unbooted.
OnlyFirstHarnessRuns == \A n \in Run \ {1} : phase[n] \in {"absent", "stopped"}
=============================================================================
