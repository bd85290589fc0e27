---------------------------- MODULE SingleWriter ----------------------------
(***************************************************************************)
(* What the Sessions API may rely on about a session's folder: runs follow *)
(* one another, a file is written by the current run, or by one that has   *)
(* let go of the folder for good, and a git command is begun by one of     *)
(* these.  A git command that is under way when the next run is created    *)
(* still writes, until it ends; no other is begun.                         *)
(*                                                                         *)
(* RunLease implements it: current is the newest run record, a run lets go *)
(* when its released lease reaches the folder.                             *)
(***************************************************************************)
EXTENDS Integers

CONSTANT MaxRun  \* runs of the session

VARIABLES
  current,  \* the current run (0: none yet)
  letGo,    \* runs that let go of the folder
  busy,     \* runs with git commands under way
  last      \* the latest write: who wrote it, the current run then, whether
            \* the writer had let go, and whether a git command wrote it

Init ==
  /\ current = 0
  /\ letGo = {}
  /\ busy = {}
  /\ last = [run |-> 0, newest |-> 0, afterRelease |-> FALSE, git |-> FALSE]

MayBegin(n) == n = current \/ n \in letGo

Handover ==
  /\ current < MaxRun
  /\ current' = current + 1
  /\ UNCHANGED <<letGo, busy, last>>

LetGo(n) ==
  /\ letGo' = letGo \cup {n}
  /\ UNCHANGED <<current, busy, last>>

BeginGit(n) ==
  /\ MayBegin(n)
  /\ busy' = busy \cup {n}
  /\ UNCHANGED <<current, letGo, last>>

EndGit(n) ==
  /\ busy' = busy \ {n}
  /\ UNCHANGED <<current, letGo, last>>

Write(n, git) ==
  /\ IF git THEN n \in busy /\ busy' \in {busy, busy \ {n}}
            ELSE MayBegin(n) /\ UNCHANGED busy
  /\ last' = [run |-> n, newest |-> current, afterRelease |-> n \in letGo, git |-> git]
  /\ UNCHANGED <<current, letGo>>

Next ==
  \/ Handover
  \/ \E n \in 1..MaxRun :
       \/ LetGo(n) \/ BeginGit(n) \/ EndGit(n)
       \/ \E git \in BOOLEAN : Write(n, git)

Spec == Init /\ [][Next]_<<current, letGo, busy, last>>
=============================================================================
