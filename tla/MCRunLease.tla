----------------------------- MODULE MCRunLease -----------------------------
(***************************************************************************)
(* An instance of RunLease.  The order of the times that matters is kept:  *)
(* FileTime + Skew <= Margin < GitTime, and Ttl < Grace; a git command is  *)
(* long enough to outlast its run's lease and meet the next run.           *)
(***************************************************************************)
EXTENDS RunLease

\* The instance is one the fence's theorems are about.
ASSUME InstanceFits == MarginCoversFiles

\* No run follows the last one: its timer has nothing to find, and its git
\* commands meet nobody.  It writes files and keeps its lease all the same.
LastRunHasNoSuccessor ==
  renewing[MaxRun] = 0 /\ \A w \in inFlight[MaxRun] : ~w.git
=============================================================================
