---------------------------- MODULE GitSync_proofs ----------------------------
(***************************************************************************)
(* Proofs about GitSync, for every set of turns, edits and files and every *)
(* number of crashes, failures and syncs: the repository keeps its shape,  *)
(* what is announced can be pulled, no edit made in the session is lost,   *)
(* what the user pushed is kept until it was merged or refused, and a turn *)
(* that was rolled back stays undone, however often the session and a      *)
(* clone that still has it are merged.                                     *)
(***************************************************************************)
EXTENDS GitSync, TLAPS, WellFoundedInduction

-----------------------------------------------------------------------------
(* What is left of each job's steps, wherever it is.                       *)
StartPlans == {<<"abort", "bundle">>, <<"seed", "bundle">>, <<"bundle">>}

MessagePlans ==
  {<<"work", "commit", "bundle", "announce">>, <<"commit", "bundle", "announce">>,
   <<"bundle", "announce">>, <<"announce">>}

FilesPlans ==
  {<<"copy", "commitPaths", "bundle", "handled">>, <<"commitPaths", "bundle", "handled">>,
   <<"bundle", "handled">>, <<"handled">>}

PushPlans ==
  {<<"commit", "bundle", "merge", "bundle", "remove", "announce", "handled">>,
   <<"bundle", "merge", "bundle", "remove", "announce", "handled">>,
   <<"merge", "bundle", "remove", "announce", "handled">>,
   <<"bundle", "remove", "announce", "handled">>,
   <<"remove", "announce", "handled">>, <<"announce", "handled">>, <<"handled">>,
   <<"abort", "refuse", "remove", "handled">>, <<"refuse", "remove", "handled">>,
   <<"remove", "handled">>}

RollbackPlans ==
  {<<"commit", "bundle", "restore", "commit", "bundle", "announce", "handled">>,
   <<"bundle", "restore", "commit", "bundle", "announce", "handled">>,
   <<"restore", "commit", "bundle", "announce", "handled">>,
   <<"commit", "bundle", "announce", "handled">>, <<"bundle", "announce", "handled">>,
   <<"announce", "handled">>, <<"handled">>}

ExitPlans == {<<"commit", "bundle", "exit">>, <<"bundle", "exit">>, <<"exit">>}

(* A job is at one of its steps.                                           *)
PlanOK ==
  \/ plan = <<>>
  \/ job.type = "start" /\ plan \in StartPlans
  \/ job.type = "message" /\ plan \in MessagePlans
  \/ job.type = "add-files" /\ plan \in FilesPlans
  \/ job.type = "apply-bundle" /\ plan \in PushPlans
  \/ job.type = "rollback" /\ plan \in RollbackPlans
  \/ job.type = "exit" /\ plan \in ExitPlans

(* The next two steps.                                                     *)
Then(first, second) == Does(first) /\ Len(plan) > 1 /\ plan[2] = second

(***************************************************************************)
(* The inductive invariant, in parts.                                      *)
(***************************************************************************)
(* Commits carry their ancestors, who carry theirs.                        *)
CommitSet ==
  [parent : Nat, turn : Nat, files : SUBSET Edits, past : SUBSET Nat, line : SUBSET Nat]

HistoryOK ==
  /\ commits \in Seq(CommitSet)
  /\ \A c \in 1..Len(commits) :
       /\ commits[c].parent \in 0..Len(commits) /\ commits[c].turn \in Turns \cup {None}
       /\ c \in commits[c].line /\ commits[c].line \subseteq commits[c].past
       /\ commits[c].past \subseteq 1..c
       /\ \A d \in commits[c].past : commits[d].past \subseteq commits[c].past

(* Every ref names a commit; main.bundle is behind main.                   *)
RefsOK ==
  /\ main \in 0..Len(commits) /\ bundle \in 0..Len(commits)
  /\ clone \in 0..Len(commits) /\ fetched \in 0..Len(commits)
  /\ Past(bundle) \subseteq Past(main)

(* What was pushed, and what the commands not yet handled name.            *)
CommandSet ==
  [type : {"message", "add-files", "apply-bundle", "rollback"}, arg : Nat]

Names(cmd, n) ==
  /\ cmd.type = "message" => cmd.arg \in Turns
  /\ cmd.type = "add-files" => cmd.arg \in AddedFiles
  /\ cmd.type = "apply-bundle" => cmd.arg \in 1..n

PushesOK ==
  /\ pushes \in Seq([commit : Nat, gone : BOOLEAN])
  /\ \A p \in 1..Len(pushes) : pushes[p].commit \in 1..Len(commits)
  /\ pushes # <<>> => clone # None

TodoOK ==
  /\ todo \in Seq(CommandSet)
  /\ \A i \in 1..Len(todo) : Names(todo[i], Len(pushes))

(* The job under way.                                                      *)
JobOK ==
  /\ PlanOK
  /\ Names(job, Len(pushes))
  /\ job.source \in 0..Len(commits)
  /\ plan # <<>> /\ job.type \in {"add-files", "apply-bundle", "rollback"} => todo # <<>>
  /\ ~up => plan = <<>>

(* When the working tree is main's, so that it may be overwritten.         *)
Clean ==
  \/ Does("merge") \/ Does("restore")
  \/ Then("bundle", "merge") \/ Then("bundle", "restore")

FilesOK ==
  /\ merging \in BOOLEAN
  /\ written \subseteq Edits
  /\ merging \/ Does("abort") => files \subseteq Files(main) \cup {Markers}
  /\ merging /\ up => Does("abort")
  /\ ~merging => files \subseteq Edits
  /\ Clean => files = Files(main)
  /\ Does("seed") => main = None

(* What must hold before the pushed file is removed.                       *)
RemovalOK ==
  /\ Then("bundle", "remove") => Theirs \in Past(main)
  /\ Then("remove", "announce") => Theirs \in Past(bundle)
  /\ Then("remove", "handled") =>
       \E e \in announced : e.type = "local-merge-conflict" /\ e.arg = job.arg

(* The bundle is main's where no command failed, or just before its event. *)
BundleOK ==
  /\ failures \in Nat
  /\ up /\ ~Does("bundle") /\ (plan = <<>> \/ job.type # "start") => failures > 0 \/ bundle = main
  /\ Does("announce") /\ job.type # "rollback" => bundle = main
  /\ Then("remove", "announce") => bundle = main

FlagsOK == up \in BOOLEAN /\ pulled \in BOOLEAN

IInv ==
  /\ HistoryOK /\ RefsOK /\ PushesOK /\ TodoOK /\ JobOK /\ FilesOK /\ RemovalOK /\ BundleOK
  /\ FlagsOK /\ NoEditIsLost /\ PushIsKept /\ AnnouncedCanBePulled

(* No step changes a commit.                                               *)
Kept ==
  /\ Len(commits) <= Len(commits')
  /\ \A c \in 1..Len(commits) : commits'[c] = commits[c]

-----------------------------------------------------------------------------
(* The steps that are left after each.                                     *)
LEMMA Tails ==
  /\ Tail(<<"commit", "bundle", "merge", "bundle", "remove", "announce", "handled">>) =
       <<"bundle", "merge", "bundle", "remove", "announce", "handled">>
  /\ Tail(<<"commit", "bundle", "restore", "commit", "bundle", "announce", "handled">>) =
       <<"bundle", "restore", "commit", "bundle", "announce", "handled">>
  /\ Tail(<<"bundle", "merge", "bundle", "remove", "announce", "handled">>) =
       <<"merge", "bundle", "remove", "announce", "handled">>
  /\ Tail(<<"bundle", "restore", "commit", "bundle", "announce", "handled">>) =
       <<"restore", "commit", "bundle", "announce", "handled">>
  /\ Tail(<<"merge", "bundle", "remove", "announce", "handled">>) =
       <<"bundle", "remove", "announce", "handled">>
  /\ Tail(<<"restore", "commit", "bundle", "announce", "handled">>) =
       <<"commit", "bundle", "announce", "handled">>
  /\ Tail(<<"bundle", "remove", "announce", "handled">>) = <<"remove", "announce", "handled">>
  /\ Tail(<<"abort", "refuse", "remove", "handled">>) = <<"refuse", "remove", "handled">>
  /\ Tail(<<"commit", "bundle", "announce", "handled">>) = <<"bundle", "announce", "handled">>
  /\ Tail(<<"copy", "commitPaths", "bundle", "handled">>) = <<"commitPaths", "bundle", "handled">>
  /\ Tail(<<"work", "commit", "bundle", "announce">>) = <<"commit", "bundle", "announce">>
  /\ Tail(<<"remove", "announce", "handled">>) = <<"announce", "handled">>
  /\ Tail(<<"refuse", "remove", "handled">>) = <<"remove", "handled">>
  /\ Tail(<<"bundle", "announce", "handled">>) = <<"announce", "handled">>
  /\ Tail(<<"commitPaths", "bundle", "handled">>) = <<"bundle", "handled">>
  /\ Tail(<<"commit", "bundle", "announce">>) = <<"bundle", "announce">>
  /\ Tail(<<"commit", "bundle", "exit">>) = <<"bundle", "exit">>
  /\ Tail(<<"announce", "handled">>) = <<"handled">>
  /\ Tail(<<"remove", "handled">>) = <<"handled">>
  /\ Tail(<<"bundle", "handled">>) = <<"handled">>
  /\ Tail(<<"bundle", "announce">>) = <<"announce">>
  /\ Tail(<<"bundle", "exit">>) = <<"exit">>
  /\ Tail(<<"abort", "bundle">>) = <<"bundle">>
  /\ Tail(<<"seed", "bundle">>) = <<"bundle">>
  /\ Tail(<<"handled">>) = <<>>
  /\ Tail(<<"announce">>) = <<>>
  /\ Tail(<<"exit">>) = <<>>
  /\ Tail(<<"bundle">>) = <<>>
<1>1. /\ Tail(<<"commit", "bundle", "merge", "bundle", "remove", "announce", "handled">>) =
          <<"bundle", "merge", "bundle", "remove", "announce", "handled">>
     /\ Tail(<<"commit", "bundle", "restore", "commit", "bundle", "announce", "handled">>) =
          <<"bundle", "restore", "commit", "bundle", "announce", "handled">>
     /\ Tail(<<"bundle", "merge", "bundle", "remove", "announce", "handled">>) =
          <<"merge", "bundle", "remove", "announce", "handled">>
     /\ Tail(<<"bundle", "restore", "commit", "bundle", "announce", "handled">>) =
          <<"restore", "commit", "bundle", "announce", "handled">>
  OBVIOUS
<1>2. /\ Tail(<<"merge", "bundle", "remove", "announce", "handled">>) =
          <<"bundle", "remove", "announce", "handled">>
     /\ Tail(<<"restore", "commit", "bundle", "announce", "handled">>) =
          <<"commit", "bundle", "announce", "handled">>
     /\ Tail(<<"bundle", "remove", "announce", "handled">>) = <<"remove", "announce", "handled">>
     /\ Tail(<<"abort", "refuse", "remove", "handled">>) = <<"refuse", "remove", "handled">>
  OBVIOUS
<1>3. /\ Tail(<<"commit", "bundle", "announce", "handled">>) = <<"bundle", "announce", "handled">>
     /\ Tail(<<"copy", "commitPaths", "bundle", "handled">>) =
          <<"commitPaths", "bundle", "handled">>
     /\ Tail(<<"work", "commit", "bundle", "announce">>) = <<"commit", "bundle", "announce">>
     /\ Tail(<<"remove", "announce", "handled">>) = <<"announce", "handled">>
  OBVIOUS
<1>4. /\ Tail(<<"refuse", "remove", "handled">>) = <<"remove", "handled">>
     /\ Tail(<<"bundle", "announce", "handled">>) = <<"announce", "handled">>
     /\ Tail(<<"commitPaths", "bundle", "handled">>) = <<"bundle", "handled">>
     /\ Tail(<<"commit", "bundle", "announce">>) = <<"bundle", "announce">>
  OBVIOUS
<1>5. /\ Tail(<<"commit", "bundle", "exit">>) = <<"bundle", "exit">>
     /\ Tail(<<"announce", "handled">>) = <<"handled">>
     /\ Tail(<<"remove", "handled">>) = <<"handled">>
     /\ Tail(<<"bundle", "handled">>) = <<"handled">>
  OBVIOUS
<1>6. /\ Tail(<<"bundle", "announce">>) = <<"announce">>
     /\ Tail(<<"bundle", "exit">>) = <<"exit">>
     /\ Tail(<<"abort", "bundle">>) = <<"bundle">>
     /\ Tail(<<"seed", "bundle">>) = <<"bundle">>
  OBVIOUS
<1>7. /\ Tail(<<"handled">>) = <<>>
     /\ Tail(<<"announce">>) = <<>>
     /\ Tail(<<"exit">>) = <<>>
     /\ Tail(<<"bundle">>) = <<>>
  OBVIOUS
<1>8. QED
  BY <1>1, <1>2, <1>3, <1>4, <1>5, <1>6, <1>7

(* A job that goes on is at one of its steps.                              *)
LEMMA PlanGoesOn ==
  ASSUME PlanOK, plan # <<>>, GoOn, UNCHANGED job
  PROVE  PlanOK'
<1> USE DEF PlanOK, GoOn
<1>1. CASE job.type = "start"
  BY <1>1, Tails DEF StartPlans
<1>2. CASE job.type = "message"
  BY <1>2, Tails DEF MessagePlans
<1>3. CASE job.type = "add-files"
  BY <1>3, Tails DEF FilesPlans
<1>4. CASE job.type = "apply-bundle"
  BY <1>4, Tails DEF PushPlans
<1>5. CASE job.type = "rollback"
  BY <1>5, Tails DEF RollbackPlans
<1>6. CASE job.type = "exit"
  BY <1>6, Tails DEF ExitPlans
<1>7. QED
  BY <1>1, <1>2, <1>3, <1>4, <1>5, <1>6

(* Where a step stands in the plans.                                       *)
LEMMA WorkStep == ASSUME PlanOK, Does("work") PROVE job.type = "message"
BY DEF PlanOK, Does, StartPlans, MessagePlans, FilesPlans, PushPlans, RollbackPlans, ExitPlans

LEMMA CopyStep ==
  ASSUME PlanOK, Does("copy") \/ Does("commitPaths")
  PROVE  job.type = "add-files"
BY DEF PlanOK, Does, StartPlans, MessagePlans, FilesPlans, PushPlans, RollbackPlans, ExitPlans

LEMMA MergeStep ==
  ASSUME PlanOK, Does("merge") \/ Does("refuse") \/ Does("remove") \/ Then("bundle", "remove")
  PROVE  job.type = "apply-bundle" /\ plan # <<>>
BY DEF PlanOK, Does, Then, StartPlans, MessagePlans, FilesPlans, PushPlans, RollbackPlans, ExitPlans

LEMMA RestoreStep ==
  ASSUME PlanOK, Does("restore")
  PROVE  job.type = "rollback"
BY DEF PlanOK, Does, StartPlans, MessagePlans, FilesPlans, PushPlans, RollbackPlans, ExitPlans

LEMMA HandledStep ==
  ASSUME PlanOK, Does("handled")
  PROVE  job.type \in {"add-files", "apply-bundle", "rollback"} /\ plan = <<"handled">>
BY DEF PlanOK, Does, StartPlans, MessagePlans, FilesPlans, PushPlans, RollbackPlans, ExitPlans

LEMMA ExitStep == ASSUME PlanOK, Does("exit") PROVE plan = <<"exit">>
BY DEF PlanOK, Does, StartPlans, MessagePlans, FilesPlans, PushPlans, RollbackPlans, ExitPlans

LEMMA RemoveStep ==
  ASSUME PlanOK, Does("remove")
  PROVE  Then("remove", "announce") \/ Then("remove", "handled")
BY DEF PlanOK, Does, Then, StartPlans, MessagePlans, FilesPlans, PushPlans, RollbackPlans,
       ExitPlans

LEMMA SeedStep == ASSUME PlanOK, Does("seed") PROVE job.type = "start"
BY DEF PlanOK, Does, MessagePlans, FilesPlans, PushPlans, RollbackPlans, ExitPlans

LEMMA StartSteps ==
  ASSUME PlanOK, plan # <<>>, job.type = "start"
  PROVE  Does("abort") \/ Does("seed") \/ Does("bundle")
BY DEF PlanOK, Does, StartPlans

(* What a job that goes on comes to.                                       *)
LEMMA PlanAfterStep ==
  ASSUME PlanOK, plan # <<>>, GoOn
  PROVE  /\ ~Does("abort")' /\ ~Does("seed")'
         /\ Clean' => Does("commit") \/ (Does("bundle") /\ Clean)
         /\ Then("bundle", "remove")' => Does("merge")
         /\ Then("remove", "announce")' => Then("bundle", "remove")
         /\ Then("remove", "handled")' => Does("refuse")
<1> USE Tails DEF GoOn, Does, Then, Clean
<1>1. CASE plan \in StartPlans
  BY <1>1 DEF StartPlans
<1>2. CASE plan \in MessagePlans
  BY <1>2 DEF MessagePlans
<1>3. CASE plan \in FilesPlans
  BY <1>3 DEF FilesPlans
<1>4. CASE plan \in PushPlans
  <2>1. ~Does("abort")'
    BY <1>4 DEF PushPlans
  <2>2. ~Does("seed")'
    BY <1>4 DEF PushPlans
  <2>3. Clean' => Does("commit") \/ (Does("bundle") /\ Clean)
    BY <1>4 DEF PushPlans
  <2>4. Then("bundle", "remove")' => Does("merge")
    BY <1>4 DEF PushPlans
  <2>5. Then("remove", "announce")' => Then("bundle", "remove")
    BY <1>4 DEF PushPlans
  <2>6. Then("remove", "handled")' => Does("refuse")
    BY <1>4 DEF PushPlans
  <2>7. QED
    BY <2>1, <2>2, <2>3, <2>4, <2>5, <2>6
<1>5. CASE plan \in RollbackPlans
  <2>1. ~Does("abort")' /\ ~Does("seed")'
    BY <1>5 DEF RollbackPlans
  <2>2. Clean' => Does("commit") \/ (Does("bundle") /\ Clean)
    BY <1>5 DEF RollbackPlans
  <2>3. Then("bundle", "remove")' => Does("merge")
    BY <1>5 DEF RollbackPlans
  <2>4. Then("remove", "announce")' => Then("bundle", "remove")
    BY <1>5 DEF RollbackPlans
  <2>5. Then("remove", "handled")' => Does("refuse")
    BY <1>5 DEF RollbackPlans
  <2>6. QED
    BY <2>1, <2>2, <2>3, <2>4, <2>5
<1>6. CASE plan \in ExitPlans
  <2>1. ~Does("abort")' /\ ~Does("seed")'
    BY <1>6 DEF ExitPlans
  <2>2. Clean' => Does("commit") \/ (Does("bundle") /\ Clean)
    BY <1>6 DEF ExitPlans
  <2>3. Then("bundle", "remove")' => Does("merge")
    BY <1>6 DEF ExitPlans
  <2>4. Then("remove", "announce")' => Then("bundle", "remove")
    BY <1>6 DEF ExitPlans
  <2>5. Then("remove", "handled")' => Does("refuse")
    BY <1>6 DEF ExitPlans
  <2>6. QED
    BY <2>1, <2>2, <2>3, <2>4, <2>5
<1>7. QED
  BY <1>1, <1>2, <1>3, <1>4, <1>5, <1>6 DEF PlanOK

LEMMA PlanAfterSkip ==
  ASSUME PlanOK, SkipBundle, UNCHANGED job,
         Does("commitPaths") \/ (Does("commit") /\ job.type # "message")
  PROVE  /\ PlanOK'
         /\ ~Does("abort")' /\ ~Does("seed")'
         /\ Clean' => Does("commit")
         /\ ~Then("bundle", "remove")' /\ ~Does("remove")'
<1>1. CASE job.type = "add-files"
  <2>1. plan \in FilesPlans
    BY <1>1 DEF PlanOK, Does
  <2>2. plan = <<"commitPaths", "bundle", "handled">>
    BY <2>1 DEF FilesPlans, Does
  <2>3. plan' = <<"handled">>
    BY <2>2, Tails DEF SkipBundle
  <2>4. PlanOK'
    BY <1>1, <2>3 DEF PlanOK, FilesPlans
  <2>5. QED
    BY <1>1, <2>2, <2>3, <2>4 DEF Does, Then, Clean
<1>2. CASE job.type = "apply-bundle"
  <2>1. plan \in PushPlans
    BY <1>2 DEF PlanOK, Does
  <2>2. plan = <<"commit", "bundle", "merge", "bundle", "remove", "announce", "handled">>
    BY <2>1 DEF PushPlans, Does
  <2>3. plan' = <<"merge", "bundle", "remove", "announce", "handled">>
    BY <2>2, Tails DEF SkipBundle
  <2>4. PlanOK'
    BY <1>2, <2>3 DEF PlanOK, PushPlans
  <2>5. QED
    BY <1>2, <2>2, <2>3, <2>4 DEF Does, Then, Clean
<1>3. CASE job.type = "rollback"
  <2>1. plan \in RollbackPlans
    BY <1>3 DEF PlanOK, Does
  <2>2. \/ plan = <<"commit", "bundle", "restore", "commit", "bundle", "announce", "handled">>
        \/ plan = <<"commit", "bundle", "announce", "handled">>
    BY <2>1 DEF RollbackPlans, Does
  <2>3. \/ plan' = <<"restore", "commit", "bundle", "announce", "handled">>
        \/ plan' = <<"announce", "handled">>
    BY <2>2, Tails DEF SkipBundle
  <2>4. PlanOK'
    BY <1>3, <2>3 DEF PlanOK, RollbackPlans
  <2>5. QED
    BY <1>3, <2>2, <2>3, <2>4 DEF Does, Then, Clean
<1>4. CASE job.type = "exit"
  <2>1. plan \in ExitPlans
    BY <1>4 DEF PlanOK, Does
  <2>2. plan = <<"commit", "bundle", "exit">>
    BY <2>1 DEF ExitPlans, Does
  <2>3. plan' = <<"exit">>
    BY <2>2, Tails DEF SkipBundle
  <2>4. PlanOK'
    BY <1>4, <2>3 DEF PlanOK, ExitPlans
  <2>5. QED
    BY <1>4, <2>2, <2>3, <2>4 DEF Does, Then, Clean
<1>5. job.type # "start" /\ job.type # "message"
  BY DEF PlanOK, Does, StartPlans, MessagePlans
<1>6. QED
  BY <1>1, <1>2, <1>3, <1>4, <1>5 DEF PlanOK, Does

(* The bundle is written after what changes main, and before its event.    *)
LEMMA BundleComesNext ==
  ASSUME PlanOK, plan # <<>>, GoOn
  PROVE  /\ job.type = "start" /\ ~Does("bundle") => Does("bundle")'
         /\ Does("commit") \/ Does("commitPaths") \/ Does("merge") => Does("bundle")'
         /\ Does("announce")' /\ job.type # "rollback" => Does("bundle") \/ Then("remove", "announce")
         /\ Then("remove", "announce")' => Does("bundle")
<1>1. ASSUME job.type = "start", ~Does("bundle")
      PROVE  Does("bundle")'
  <2>1. plan \in StartPlans
    BY <1>1 DEF PlanOK
  <2>2. plan = <<"abort", "bundle">> \/ plan = <<"seed", "bundle">>
    BY <1>1, <2>1 DEF StartPlans, Does
  <2>3. plan' = <<"bundle">>
    BY <2>2, Tails DEF GoOn
  <2>4. QED
    BY <2>3 DEF Does
<1>2. ASSUME Does("commit") \/ Does("commitPaths") \/ Does("merge")
      PROVE  Does("bundle")'
  <2>1. CASE Does("commit")
    <3>1. \/ plan = <<"commit", "bundle", "announce">>
          \/ plan = <<"commit", "bundle", "merge", "bundle", "remove", "announce", "handled">>
          \/ plan = <<"commit", "bundle", "restore", "commit", "bundle", "announce", "handled">>
          \/ plan = <<"commit", "bundle", "announce", "handled">>
          \/ plan = <<"commit", "bundle", "exit">>
      BY <2>1 DEF PlanOK, Does, StartPlans, MessagePlans, FilesPlans, PushPlans, RollbackPlans,
                  ExitPlans
    <3>2. \/ plan' = <<"bundle", "announce">>
          \/ plan' = <<"bundle", "merge", "bundle", "remove", "announce", "handled">>
          \/ plan' = <<"bundle", "restore", "commit", "bundle", "announce", "handled">>
          \/ plan' = <<"bundle", "announce", "handled">>
          \/ plan' = <<"bundle", "exit">>
      BY <3>1, Tails DEF GoOn
    <3>3. QED
      BY <3>2 DEF Does
  <2>2. CASE Does("commitPaths") \/ Does("merge")
    <3>1. \/ plan = <<"commitPaths", "bundle", "handled">>
          \/ plan = <<"merge", "bundle", "remove", "announce", "handled">>
      BY <2>2 DEF PlanOK, Does, StartPlans, MessagePlans, FilesPlans, PushPlans, RollbackPlans,
                  ExitPlans
    <3>2. \/ plan' = <<"bundle", "handled">>
          \/ plan' = <<"bundle", "remove", "announce", "handled">>
      BY <3>1, Tails DEF GoOn
    <3>3. QED
      BY <3>2 DEF Does
  <2>3. QED
    BY <1>2, <2>1, <2>2
<1>3. /\ Does("announce")' /\ job.type # "rollback" => Does("bundle") \/ Then("remove", "announce")
      /\ Then("remove", "announce")' => Does("bundle")
  <2> USE Tails DEF GoOn, Does, Then
  <2>1. CASE plan \in StartPlans
    BY <2>1 DEF StartPlans
  <2>2. CASE plan \in MessagePlans
    BY <2>2 DEF MessagePlans
  <2>3. CASE plan \in FilesPlans
    BY <2>3 DEF FilesPlans
  <2>4. CASE plan \in PushPlans
    BY <2>4 DEF PushPlans
  <2>5. CASE job.type = "rollback" /\ plan \in RollbackPlans
    BY <2>5 DEF RollbackPlans
  <2>6. CASE plan \in ExitPlans
    BY <2>6 DEF ExitPlans
  <2>7. QED
    BY <2>1, <2>2, <2>3, <2>4, <2>5, <2>6 DEF PlanOK
<1>4. job.type = "start" /\ ~Does("bundle") => Does("bundle")'
  BY <1>1
<1>5. Does("commit") \/ Does("commitPaths") \/ Does("merge") => Does("bundle")'
  BY <1>2
<1>6. QED
  BY <1>3, <1>4, <1>5 DEF Does, Then

(* Where nothing is committed, the event that comes next is a rollback's.  *)
LEMMA SkipsToRollback ==
  ASSUME PlanOK, SkipBundle, Does("commitPaths") \/ Does("commit"), Does("announce")'
  PROVE  job.type \in {"rollback", "message"}
<1>1. plan # <<>>
  BY DEF Does
<1>2. ASSUME job.type = "start" PROVE FALSE
  BY <1>1, <1>2, StartSteps DEF Does
<1>3. ASSUME job.type = "add-files" PROVE FALSE
  <2>1. plan = <<"commitPaths", "bundle", "handled">>
    BY <1>1, <1>3 DEF PlanOK, FilesPlans, Does
  <2>2. plan' = <<"handled">>
    BY <2>1, Tails DEF SkipBundle
  <2>3. QED
    BY <2>2 DEF Does
<1>4. ASSUME job.type = "exit" PROVE FALSE
  <2>1. plan = <<"commit", "bundle", "exit">>
    BY <1>1, <1>4 DEF PlanOK, ExitPlans, Does
  <2>2. plan' = <<"exit">>
    BY <2>1, Tails DEF SkipBundle
  <2>3. QED
    BY <2>2 DEF Does
<1>5. ASSUME job.type = "apply-bundle" PROVE FALSE
  <2>1. plan = <<"commit", "bundle", "merge", "bundle", "remove", "announce", "handled">>
    BY <1>1, <1>5 DEF PlanOK, PushPlans, Does
  <2>2. plan' = <<"merge", "bundle", "remove", "announce", "handled">>
    BY <2>1, Tails DEF SkipBundle
  <2>3. QED
    BY <2>2 DEF Does
<1>6. QED
  BY <1>1, <1>2, <1>3, <1>4, <1>5 DEF PlanOK

(* A job whose step fails is handled, or ended.                            *)
LEMMA PlanAfterFail ==
  ASSUME PlanOK, Fail
  PROVE  PlanOK' /\ plan' \in {<<"handled">>, <<"exit">>, <<>>}
BY DEF PlanOK, Fail, MayFail, StartPlans, MessagePlans, FilesPlans, PushPlans, RollbackPlans,
       ExitPlans

(* A merge that fails is refused.                                          *)
LEMMA PlanAfterMergeFails ==
  ASSUME PlanOK, MergeFails
  PROVE  /\ PlanOK' /\ plan # <<>> /\ job.type = "apply-bundle"
         /\ plan' = <<"abort", "refuse", "remove", "handled">>
         /\ Does("merge") /\ Does("abort")'
         /\ ~Does("seed")' /\ ~Does("bundle")' /\ ~Does("announce")'
         /\ ~Then("bundle", "remove")' /\ ~Then("remove", "announce")'
         /\ ~Then("remove", "handled")' /\ ~Clean'
<1>1. Does("merge") /\ plan' = <<"abort", "refuse", "remove", "handled">> /\ job' = job
  BY DEF MergeFails, Refusal
<1>2. job.type = "apply-bundle" /\ plan # <<>>
  BY <1>1, MergeStep
<1>3. PlanOK'
  BY <1>1, <1>2 DEF PlanOK, PushPlans
<1>4. QED
  BY <1>1, <1>2, <1>3 DEF Does, Then, Clean

-----------------------------------------------------------------------------
(* Edits are not markers.                                                  *)
LEMMA EditsAreNumbers ==
  Edits \subseteq Nat \ {0} /\ Turns \subseteq Edits /\ AddedFiles \subseteq Edits
  /\ UserEdits \subseteq Edits
BY GitAssumption DEF Edits

(* What a commit is, and that the history stays one (git commit).          *)
LEMMA NewCommitIs ==
  ASSUME HistoryOK, NEW first \in 0..Len(commits), NEW second \in 0..Len(commits),
         NEW turn \in Turns \cup {None}, NEW tree \in SUBSET Edits,
         NewCommit(first, second, turn, tree)
  PROVE  /\ HistoryOK' /\ Kept
         /\ Len(commits') = Newest /\ Newest \in Nat \ {0}
         /\ commits'[Newest].past = {Newest} \cup Past(first) \cup Past(second)
         /\ commits'[Newest].files = tree
<1> DEFINE new == [parent |-> first, turn |-> turn, files |-> tree,
                   past |-> {Newest} \cup Past(first) \cup Past(second),
                   line |-> {Newest} \cup Line(first)]
<1>1. Newest \in Nat \ {0} /\ commits \in Seq(CommitSet)
  BY DEF HistoryOK, Newest
<1>2. /\ Past(first) \subseteq 1..Len(commits) /\ Past(second) \subseteq 1..Len(commits)
     /\ Line(first) \subseteq Past(first)
  BY DEF HistoryOK, Past, Line, None, CommitSet
<1>3. new \in CommitSet
  BY <1>1, <1>2, EditsAreNumbers DEF CommitSet, None
<1>4. commits' = Append(commits, new)
  BY DEF NewCommit
<1>5. /\ commits' \in Seq(CommitSet) /\ Len(commits') = Newest /\ commits'[Newest] = new
     /\ \A c \in 1..Len(commits) : commits'[c] = commits[c]
  BY <1>1, <1>3, <1>4 DEF Newest
<1>6. Kept
  BY <1>1, <1>5 DEF Kept, Newest
<1>7. \A c \in 1..Len(commits) : \A d \in commits[c].past : d \in 1..Len(commits)
  BY <1>1 DEF HistoryOK, CommitSet
<1>8. ASSUME NEW c \in 1..Len(commits)
      PROVE  /\ commits'[c].parent \in 0..Len(commits') /\ commits'[c].turn \in Turns \cup {None}
             /\ c \in commits'[c].line /\ commits'[c].line \subseteq commits'[c].past
             /\ commits'[c].past \subseteq 1..c
             /\ \A d \in commits'[c].past : commits'[d].past \subseteq commits'[c].past
  <2>1. commits'[c] = commits[c] /\ \A d \in commits[c].past : commits'[d] = commits[d]
    BY <1>5, <1>7
  <2>2. 0..Len(commits) \subseteq 0..Len(commits')
    BY <1>1, <1>5 DEF Newest
  <2>3. QED
    BY <2>1, <2>2 DEF HistoryOK
<1>9. /\ new.parent \in 0..Newest /\ new.turn \in Turns \cup {None}
     /\ Newest \in new.line /\ new.line \subseteq new.past /\ new.past \subseteq 1..Newest
  BY <1>1, <1>2 DEF Newest
<1>10. ASSUME NEW d \in new.past PROVE commits'[d].past \subseteq new.past
  <2>1. CASE d = Newest
    BY <2>1, <1>5
  <2>2. ASSUME NEW p \in 1..Len(commits), d \in commits[p].past, commits[p].past \subseteq new.past
        PROVE  commits'[d].past \subseteq new.past
    <3>1. d \in 1..Len(commits) /\ commits[d].past \subseteq commits[p].past
      BY <1>7, <2>2 DEF HistoryOK
    <3>2. QED
      BY <2>2, <3>1, <1>5
  <2>3. CASE d \in Past(first) \/ d \in Past(second)
    BY <2>2, <2>3 DEF Past, None
  <2>4. QED
    BY <2>1, <2>3
<1>11. HistoryOK'
  <2>1. 1..Len(commits') = 1..Len(commits) \cup {Newest}
    BY <1>1, <1>5 DEF Newest
  <2>2. QED
    BY <1>5, <1>8, <1>9, <1>10, <2>1 DEF HistoryOK
<1>12. QED
  BY <1>1, <1>5, <1>6, <1>11

(* A merge has the edits of the two only.                                  *)
LEMMA MergedTrees ==
  ASSUME HistoryOK, NEW a \in 0..Len(commits), NEW b \in 0..Len(commits),
         NEW tree \in Merged(a, b)
  PROVE  tree \in SUBSET Edits
<1>1. \A c \in 1..Len(commits) : commits[c] \in CommitSet
  BY DEF HistoryOK
<1>2. Files(a) \subseteq Edits /\ Files(b) \subseteq Edits
  BY <1>1 DEF Files, None, CommitSet
<1>3. PICK base \in BaseTrees(a, b) : tree = ThreeWay(base, Files(a), Files(b))
  BY DEF Merged
<1>4. QED
  BY <1>2, <1>3 DEF ThreeWay

-----------------------------------------------------------------------------
(* The trees of main and of the clone have edits only.                     *)
LEMMA TreesAreEdits ==
  ASSUME IInv
  PROVE  /\ Files(main) \subseteq Edits /\ Files(clone) \subseteq Edits
         /\ None \in 0..Len(commits)
<1>1. \A c \in 1..Len(commits) : commits[c] \in CommitSet
  BY DEF IInv, HistoryOK
<1>2. Files(main) \subseteq Edits /\ Files(clone) \subseteq Edits
  BY <1>1 DEF Files, None, CommitSet, IInv, RefsOK
<1>3. None \in 0..Len(commits)
  BY DEF HistoryOK, None, IInv
<1>4. QED
  BY <1>2, <1>3

(* main moves to a commit on top of it.                                    *)
MainIsNew(past, tree) ==
  /\ HistoryOK' /\ Kept
  /\ main' = Newest /\ Newest = Len(commits') /\ Newest \in Nat \ {0}
  /\ Past(main)' = {Newest} \cup past
  /\ Files(main)' = tree

(* Seed and Commit: the whole working tree (commitChanges).                *)
LEMMA CommitEffect ==
  ASSUME IInv, Seed \/ Commit
  PROVE  MainIsNew(Past(main), files)
<1> USE DEF IInv
<1>1. ~merging
  BY DEF Seed, Commit, Does, FilesOK, JobOK
<1>2. files \in SUBSET Edits /\ TurnId \in Turns \cup {None}
  BY <1>1 DEF FilesOK, TurnId, JobOK, Names
<1>3. CASE Seed
  <2>1. NewCommit(None, None, None, files) /\ main' = Newest
    BY <1>3 DEF Seed
  <2>2. /\ HistoryOK' /\ Kept /\ Len(commits') = Newest /\ Newest \in Nat \ {0}
       /\ commits'[Newest].past = {Newest} \cup Past(None) \cup Past(None)
       /\ commits'[Newest].files = files
    BY <1>2, <2>1, NewCommitIs, TreesAreEdits
  <2>3. Past(None) = {} /\ Past(main) = {}
    BY <1>3 DEF Past, Seed, FilesOK
  <2>4. QED
    BY <2>1, <2>2, <2>3 DEF MainIsNew, Past, Files, None
<1>4. CASE Commit
  <2>1. NewCommit(main, None, TurnId, files) /\ main' = Newest
    BY <1>4 DEF Commit
  <2>2. /\ HistoryOK' /\ Kept /\ Len(commits') = Newest /\ Newest \in Nat \ {0}
       /\ commits'[Newest].past = {Newest} \cup Past(main) \cup Past(None)
       /\ commits'[Newest].files = files
    BY <1>2, <2>1, NewCommitIs, TreesAreEdits DEF RefsOK
  <2>3. QED
    BY <2>1, <2>2 DEF MainIsNew, Past, Files, None
<1>5. QED
  BY <1>3, <1>4

(* The added file alone (commitPaths).                                     *)
LEMMA PathsEffect ==
  ASSUME IInv, CommitPaths
  PROVE  \/ UNCHANGED repo
         \/ /\ MainIsNew(Past(main), Files(main) \cup {job.arg})
            /\ UNCHANGED <<files, merging, bundle>>
<1> SUFFICES ASSUME NewCommit(main, None, None, Files(main) \cup {job.arg}), main' = Newest
             PROVE  MainIsNew(Past(main), Files(main) \cup {job.arg})
  BY DEF CommitPaths
<1>1. Files(main) \cup {job.arg} \in SUBSET Edits
  BY CopyStep, EditsAreNumbers, TreesAreEdits DEF CommitPaths, IInv, JobOK, Names
<1>2. /\ HistoryOK' /\ Kept /\ Len(commits') = Newest /\ Newest \in Nat \ {0}
     /\ commits'[Newest].past = {Newest} \cup Past(main) \cup Past(None)
     /\ commits'[Newest].files = Files(main) \cup {job.arg}
  BY <1>1, NewCommitIs, TreesAreEdits DEF RefsOK, IInv
<1>3. QED
  BY <1>2 DEF MainIsNew, Past, Files, None

(* What the merge of a push finds.                                         *)
LEMMA TheirsIsThere ==
  ASSUME IInv, Does("merge") \/ Does("refuse") \/ Does("remove") \/ Then("bundle", "remove")
  PROVE  job.arg \in 1..Len(pushes) /\ Theirs \in 1..Len(commits)
BY MergeStep DEF IInv, JobOK, Names, PushesOK, Theirs

LEMMA MergeEffect ==
  ASSUME IInv, Merge
  PROVE  MainIsNew(Past(main) \cup Past(Theirs), files') /\ files' \in SUBSET Edits
<1>1. Theirs \in 0..Len(commits) /\ main \in 0..Len(commits) /\ HistoryOK
  BY TheirsIsThere DEF Merge, Diverged, IInv, RefsOK
<1>2. files' \in SUBSET Edits
  BY <1>1, MergedTrees DEF Merge
<1>3. NewCommit(main, Theirs, None, files') /\ main' = Newest
  BY DEF Merge
<1>4. /\ HistoryOK' /\ Kept /\ Len(commits') = Newest /\ Newest \in Nat \ {0}
     /\ commits'[Newest].past = {Newest} \cup Past(main) \cup Past(Theirs)
     /\ commits'[Newest].files = files'
  BY <1>1, <1>2, <1>3, NewCommitIs
<1>5. QED
  BY <1>2, <1>3, <1>4 DEF MainIsNew, Past, Files, None

(* Every action keeps the commits there are, and adds proper ones.         *)
LEMMA HistoryStep ==
  ASSUME IInv, [Next]_vars
  PROVE  HistoryOK' /\ Kept
<1> USE DEF IInv
<1>1. CASE UNCHANGED commits
  BY <1>1 DEF HistoryOK, Kept
<1>2. CASE Seed \/ Commit \/ CommitPaths \/ Merge
  BY <1>1, <1>2, CommitEffect, PathsEffect, MergeEffect DEF MainIsNew, repo
<1>3. CASE Pull
  <2>1. ASSUME NEW tree \in Merged(clone, bundle), NewCommit(clone, bundle, None, tree)
        PROVE  HistoryOK' /\ Kept
    BY <2>1, MergedTrees, NewCommitIs DEF RefsOK, None
  <2>2. QED
    BY <1>1, <1>3, <2>1 DEF Pull
<1>4. ASSUME NEW edit \in UserEdits, UserCommits(edit)
      PROVE  HistoryOK' /\ Kept
  BY <1>4, NewCommitIs, EditsAreNumbers, TreesAreEdits DEF UserCommits, RefsOK, None
<1>5. CASE Start \/ Take \/ Exit \/ Fail \/ MergeFails \/ Crash \/ Push \/ UNCHANGED vars
  BY <1>1, <1>5 DEF Start, Take, TakeMessage, TakeFiles, TakePush, SkipRollback, TakeRollback,
                    Exit, Fail, MergeFails, Crash, Push, vars, repo
<1>6. ASSUME NEW type, NEW arg, Send(type, arg)
      PROVE  HistoryOK' /\ Kept
  BY <1>1, <1>6 DEF Send, repo
<1>7. CASE Step /\ ~(Seed \/ Commit \/ CommitPaths \/ Merge)
  BY <1>1, <1>7 DEF Step, Work, Copy, NothingToCommit, WriteBundle, UpToDate, FastForward,
                    Conflict, AbortMerge, RemoveIncoming, Restore, Announce, Handled, Exited, repo
<1>8. QED
  BY <1>2, <1>3, <1>4, <1>5, <1>6, <1>7 DEF Next, SendMessage, SendRollback, SendOnce

(* A commit there is keeps its ancestors and its files.                    *)
LEMMA KeptRefs ==
  ASSUME HistoryOK, Kept
  PROVE  \A c \in 0..Len(commits) : Past(c)' = Past(c) /\ Files(c)' = Files(c)
BY DEF HistoryOK, Kept, Past, Files, None

(* main only grows: nothing that was in its history leaves it.             *)
LEMMA MainStep ==
  ASSUME IInv, [Next]_vars
  PROVE  main' \in 0..Len(commits') /\ Past(main) \subseteq Past(main)'
<1> USE DEF IInv
<1>1. HistoryOK' /\ Kept /\ Len(commits) \in Nat /\ Len(commits') \in Nat
  BY HistoryStep DEF HistoryOK
<1>2. CASE UNCHANGED main
  BY <1>1, <1>2, KeptRefs DEF RefsOK, Kept, Past
<1>3. CASE Seed \/ Commit \/ CommitPaths \/ Merge
  BY <1>1, <1>2, <1>3, CommitEffect, PathsEffect, MergeEffect DEF MainIsNew, repo
<1>4. CASE FastForward
  <2>1. main' = Theirs /\ main \in Past(Theirs) /\ Theirs \in 1..Len(commits)
    BY <1>4, TheirsIsThere DEF FastForward
  <2>2. Past(main)' = commits[Theirs].past
    BY <2>1, <1>4 DEF Past, None, FastForward
  <2>3. main \in commits[Theirs].past /\ main \in 0..Len(commits)
    BY <2>1 DEF Past, None, RefsOK
  <2>4. Past(main) \subseteq commits[Theirs].past
    BY <2>1, <2>3 DEF HistoryOK, Past
  <2>5. QED
    BY <1>4, <2>1, <2>2, <2>4 DEF FastForward
<1>5. CASE Start \/ Take \/ Exit \/ Fail \/ MergeFails \/ Crash \/ Push \/ Pull \/ UNCHANGED vars
  BY <1>2, <1>5 DEF Start, Take, TakeMessage, TakeFiles, TakePush, SkipRollback, TakeRollback,
                    Exit, Fail, MergeFails, Crash, Push, Pull, vars, repo
<1>6. ASSUME NEW type, NEW arg, Send(type, arg)
      PROVE  UNCHANGED main
  BY <1>6 DEF Send, repo
<1>7. ASSUME NEW edit \in UserEdits, UserCommits(edit)
      PROVE  UNCHANGED main
  BY <1>7 DEF UserCommits
<1>8. CASE Step /\ ~(Seed \/ Commit \/ CommitPaths \/ Merge \/ FastForward)
  BY <1>2, <1>8 DEF Step, Work, Copy, NothingToCommit, WriteBundle, UpToDate,
                    Conflict, AbortMerge, RemoveIncoming, Restore, Announce, Handled, Exited, repo
<1>9. QED
  BY <1>2, <1>3, <1>4, <1>5, <1>6, <1>7, <1>8 DEF Next, SendMessage, SendRollback, SendOnce

(* main.bundle stays behind main, and the clone has commits there are.     *)
LEMMA RefsStep ==
  ASSUME IInv, [Next]_vars
  PROVE  RefsOK'
<1> USE DEF IInv
<1>1. /\ HistoryOK' /\ Kept /\ Len(commits) \in Nat /\ Len(commits') \in Nat
     /\ Len(commits) <= Len(commits')
  BY HistoryStep, SMTT(40) DEF HistoryOK, Kept
<1>2. main' \in 0..Len(commits') /\ Past(main) \subseteq Past(main)'
  BY MainStep
<1>3. bundle' \in 0..Len(commits') /\ Past(bundle)' \subseteq Past(main)'
  <2>1. CASE UNCHANGED bundle
    BY <1>1, <1>2, <2>1, KeptRefs DEF RefsOK, Past
  <2>2. CASE WriteBundle
    BY <1>1, <1>2, <2>2 DEF WriteBundle, Past
  <2>3. CASE Start \/ Take \/ Exit \/ Fail \/ MergeFails \/ Crash \/ Push \/ Pull \/ UNCHANGED vars
    BY <2>1, <2>3 DEF Start, Take, TakeMessage, TakeFiles, TakePush, SkipRollback, TakeRollback,
                      Exit, Fail, MergeFails, Crash, Push, Pull, vars, repo
  <2>4. ASSUME NEW type, NEW arg, Send(type, arg)
        PROVE  UNCHANGED bundle
    BY <2>4 DEF Send, repo
  <2>5. ASSUME NEW edit \in UserEdits, UserCommits(edit)
        PROVE  UNCHANGED bundle
    BY <2>5 DEF UserCommits
  <2>6. CASE Step /\ ~WriteBundle
    BY <2>1, <2>6 DEF Step, Work, Copy, Seed, NothingToCommit, Commit, CommitPaths, UpToDate,
                      FastForward, Merge, Conflict, AbortMerge, RemoveIncoming, Restore,
                      Announce, Handled, Exited, repo
  <2>7. QED
    BY <2>1, <2>2, <2>3, <2>4, <2>5, <2>6 DEF Next, SendMessage, SendRollback, SendOnce
<1>4. clone' \in 0..Len(commits') /\ fetched' \in 0..Len(commits')
  <2>1. CASE UNCHANGED <<clone, fetched>>
    BY <1>1, <2>1 DEF RefsOK
  <2>2. CASE Pull
    <3>1. fetched' \in 0..Len(commits')
      BY <1>1, <2>2 DEF Pull, RefsOK
    <3>2. ASSUME NEW tree, NewCommit(clone, bundle, None, tree)
          PROVE  Len(commits') = Newest
      BY <3>2 DEF NewCommit, HistoryOK, Newest
    <3>3. QED
      BY <1>1, <2>2, <3>1, <3>2 DEF Pull, RefsOK, Newest
  <2>3. ASSUME NEW edit \in UserEdits, UserCommits(edit)
        PROVE  clone' \in 0..Len(commits') /\ fetched' \in 0..Len(commits')
    BY <1>1, <2>3 DEF UserCommits, NewCommit, HistoryOK, Newest, RefsOK
  <2>4. CASE Start \/ Take \/ Exit \/ Fail \/ MergeFails \/ Crash \/ Push \/ UNCHANGED vars
    BY <2>1, <2>4 DEF Start, Take, TakeMessage, TakeFiles, TakePush, SkipRollback, TakeRollback,
                      Exit, Fail, MergeFails, Crash, Push, vars, user
  <2>5. ASSUME NEW type, NEW arg, Send(type, arg)
        PROVE  UNCHANGED <<clone, fetched>>
    BY <2>5 DEF Send
  <2>6. CASE Step
    BY <2>1, <2>6 DEF Step, Work, Copy, Seed, NothingToCommit, Commit, CommitPaths, WriteBundle,
                      UpToDate, FastForward, Merge, Conflict, AbortMerge, RemoveIncoming, Restore,
                      Announce, Handled, Exited, Outside, user
  <2>7. QED
    BY <2>1, <2>2, <2>3, <2>4, <2>5, <2>6 DEF Next, SendMessage, SendRollback, SendOnce
<1>5. QED
  BY <1>2, <1>3, <1>4 DEF RefsOK

-----------------------------------------------------------------------------
(* The pushes name commits, and none comes before there is a clone (the    *)
(* push of a sync).                                                        *)
LEMMA PushesStep ==
  ASSUME IInv, [Next]_vars
  PROVE  /\ PushesOK' /\ Len(pushes) \in Nat /\ Len(pushes') \in Nat
         /\ Len(pushes) <= Len(pushes')
         /\ \A p \in 1..Len(pushes) : pushes'[p].commit = pushes[p].commit
<1> USE DEF IInv
<1>1. /\ Kept /\ Len(commits) \in Nat /\ Len(commits') \in Nat
     /\ Len(commits) <= Len(commits') /\ Len(pushes) \in Nat
  <2>1. HistoryOK' /\ Kept
    BY HistoryStep
  <2>2. Len(commits) \in Nat /\ Len(commits') \in Nat /\ Len(pushes) \in Nat
    BY <2>1 DEF HistoryOK, PushesOK
  <2>3. QED
    BY <2>1, <2>2 DEF Kept
<1>2. ASSUME clone # None PROVE clone' # None
  <2>1. CASE UNCHANGED clone
    BY <1>2, <2>1
  <2>2. CASE Pull
    BY <1>1, <1>2, <2>2 DEF Pull, Past, None, Newest
  <2>3. ASSUME NEW edit \in UserEdits, UserCommits(edit)
        PROVE  clone' # None
    BY <1>1, <2>3 DEF UserCommits, None, Newest
  <2>4. CASE Start \/ Take \/ Exit \/ Fail \/ MergeFails \/ Crash \/ Push \/ UNCHANGED vars
    BY <2>1, <2>4 DEF Start, Take, TakeMessage, TakeFiles, TakePush, SkipRollback, TakeRollback,
                      Exit, Fail, MergeFails, Crash, Push, vars, user
  <2>5. ASSUME NEW type, NEW arg, Send(type, arg)
        PROVE  UNCHANGED clone
    BY <2>5 DEF Send
  <2>6. CASE Step
    BY <2>1, <2>6 DEF Step, Work, Copy, Seed, NothingToCommit, Commit, CommitPaths, WriteBundle,
                      UpToDate, FastForward, Merge, Conflict, AbortMerge, RemoveIncoming, Restore,
                      Announce, Handled, Exited, Outside, user
  <2>7. QED
    BY <2>1, <2>2, <2>3, <2>4, <2>5, <2>6 DEF Next, SendMessage, SendRollback, SendOnce
<1>3. CASE UNCHANGED pushes
  BY <1>1, <1>2, <1>3 DEF PushesOK
<1>4. CASE RemoveIncoming
  <2>1. job.arg \in 1..Len(pushes)
    BY <1>4, TheirsIsThere DEF RemoveIncoming
  <2>2. pushes' = [pushes EXCEPT ![job.arg] = [commit |-> Theirs, gone |-> TRUE]]
    BY <1>4 DEF RemoveIncoming
  <2>3. [commit |-> Theirs, gone |-> TRUE] \in [commit : Nat, gone : BOOLEAN]
    BY <2>1 DEF Theirs, PushesOK
  <2>4. /\ pushes' \in Seq([commit : Nat, gone : BOOLEAN]) /\ Len(pushes') = Len(pushes)
       /\ \A p \in 1..Len(pushes) : pushes'[p].commit = pushes[p].commit
    BY <2>1, <2>2, <2>3 DEF Theirs, PushesOK
  <2>5. pushes # <<>> /\ clone' # None
    BY <1>1, <1>2, <2>1 DEF PushesOK
  <2>6. \A p \in 1..Len(pushes) : pushes[p].commit \in 1..Len(commits')
    BY <1>1 DEF PushesOK
  <2>7. QED
    BY <2>4, <2>5, <2>6 DEF PushesOK
<1>5. CASE Push /\ ~UNCHANGED pushes
  <2>1. /\ pushes' = Append(pushes, [commit |-> clone, gone |-> FALSE])
       /\ clone # LastPushed /\ clone' = clone
    BY <1>5 DEF Push
  <2>2. clone # None
    BY <2>1 DEF LastPushed, PushesOK
  <2>3. clone \in 1..Len(commits) /\ clone \in Nat
    BY <1>1, <2>2 DEF RefsOK, None
  <2>4. QED
    BY <1>1, <2>1, <2>2, <2>3 DEF PushesOK
<1>6. CASE Start \/ Take \/ Exit \/ Fail \/ MergeFails \/ Crash \/ Pull \/ UNCHANGED vars
  BY <1>3, <1>6 DEF Start, Take, TakeMessage, TakeFiles, TakePush, SkipRollback, TakeRollback,
                    Exit, Fail, MergeFails, Crash, Pull, vars
<1>7. ASSUME NEW type, NEW arg, Send(type, arg)
      PROVE  UNCHANGED pushes
  BY <1>7 DEF Send
<1>8. ASSUME NEW edit \in UserEdits, UserCommits(edit)
      PROVE  UNCHANGED pushes
  BY <1>8 DEF UserCommits
<1>9. CASE Step /\ ~RemoveIncoming
  BY <1>3, <1>9 DEF Step, Work, Copy, Seed, NothingToCommit, Commit, CommitPaths, WriteBundle,
                    UpToDate, FastForward, Merge, Conflict, AbortMerge, Restore,
                    Announce, Handled, Exited, Outside
<1>10. QED
  BY <1>3, <1>4, <1>5, <1>6, <1>7, <1>8, <1>9 DEF Next, SendMessage, SendRollback, SendOnce

(* The commands not yet handled name what is there.                        *)
LEMMA TodoStep ==
  ASSUME IInv, [Next]_vars
  PROVE  TodoOK'
<1> USE DEF IInv
<1>1. /\ Len(pushes) \in Nat /\ Len(pushes') \in Nat /\ Len(pushes) <= Len(pushes')
     /\ todo \in Seq(CommandSet)
  BY PushesStep DEF TodoOK
<1>2. \A i \in 1..Len(todo) : Names(todo[i], Len(pushes'))
  BY <1>1 DEF TodoOK, Names
<1>3. CASE UNCHANGED todo
  BY <1>1, <1>2, <1>3 DEF TodoOK, Names
<1>4. ASSUME todo # <<>>, todo' = Tail(todo)
      PROVE  TodoOK'
  <2>1. /\ todo' \in Seq(CommandSet) /\ Len(todo') = Len(todo) - 1
       /\ \A i \in 1..Len(todo') : todo'[i] = todo[i + 1] /\ i + 1 \in 1..Len(todo)
    BY <1>1, <1>4
  <2>2. QED
    BY <1>2, <2>1 DEF TodoOK, Names
<1>5. ASSUME NEW cmd \in CommandSet, Names(cmd, Len(pushes')), todo' = Append(todo, cmd)
      PROVE  TodoOK'
  <2>1. /\ todo' \in Seq(CommandSet) /\ Len(todo') = Len(todo) + 1 /\ todo'[Len(todo) + 1] = cmd
       /\ \A i \in 1..Len(todo) : todo'[i] = todo[i]
    BY <1>1, <1>5
  <2>2. QED
    BY <1>1, <1>2, <1>5, <2>1 DEF TodoOK, Names
<1>6. CASE TakeMessage
  BY <1>4, <1>6 DEF TakeMessage, Takes
<1>7. CASE Handled
  BY <1>4, <1>7, HandledStep DEF Handled, JobOK, Does
<1>8. CASE Push
  BY <1>1, <1>3, <1>5, <1>8 DEF Push, CommandSet, Names
<1>9. ASSUME NEW turn \in Turns, SendMessage(turn) \/ SendRollback(turn)
      PROVE  TodoOK'
  BY <1>5, <1>9, EditsAreNumbers DEF SendMessage, SendRollback, SendOnce, Send, CommandSet, Names
<1>10. ASSUME NEW file \in AddedFiles, SendOnce("add-files", file)
       PROVE  TodoOK'
  BY <1>5, <1>10, EditsAreNumbers DEF SendOnce, Send, CommandSet, Names
<1>11. ASSUME NEW edit \in UserEdits, UserCommits(edit)
       PROVE  TodoOK'
  BY <1>3, <1>11 DEF UserCommits
<1>12. CASE Start \/ (Take /\ ~TakeMessage) \/ Exit \/ Fail \/ MergeFails \/ Crash \/ Pull \/ UNCHANGED vars
  BY <1>3, <1>12 DEF Start, Take, TakeFiles, TakePush, SkipRollback, TakeRollback, Exit, Fail,
                     MergeFails, Crash, Pull, vars
<1>13. CASE Step /\ ~Handled
  BY <1>3, <1>13 DEF Step, Work, Copy, Seed, NothingToCommit, Commit, CommitPaths, WriteBundle,
                     UpToDate, FastForward, Merge, Conflict, AbortMerge, RemoveIncoming, Restore,
                     Announce, Exited, Outside
<1>14. QED
  BY <1>6, <1>7, <1>8, <1>9, <1>10, <1>11, <1>12, <1>13 DEF Next

(* Every action leaves a job at one of its steps.                          *)
LEMMA JobStep ==
  ASSUME IInv, [Next]_vars
  PROVE  JobOK'
<1> USE DEF IInv
<1>1. /\ Len(pushes) \in Nat /\ Len(pushes') \in Nat /\ Len(pushes) <= Len(pushes')
     /\ Len(commits) \in Nat /\ Len(commits') \in Nat /\ Len(commits) <= Len(commits')
  BY PushesStep, HistoryStep DEF HistoryOK, Kept
<1>2. ASSUME UNCHANGED <<up, job, plan, todo>>
      PROVE  JobOK'
  BY <1>1, <1>2 DEF JobOK, PlanOK, Names
<1>3. CASE Start
  <2>1. /\ job' = Job("start", 0, None) /\ up'
       /\ plan' \in {<<"abort", "bundle">>, <<"seed", "bundle">>, <<"bundle">>}
    BY <1>3 DEF Start, Begin, FilesOK
  <2>2. QED
    BY <1>1, <2>1 DEF JobOK, PlanOK, StartPlans, Names, Job, None
<1>4. CASE Take
  <2>1. todo # <<>> /\ up /\ UNCHANGED up
    BY <1>4 DEF Take, TakeMessage, TakeFiles, TakePush, SkipRollback, TakeRollback, Takes
  <2>2. Names(Head(todo), Len(pushes))
    BY <2>1 DEF TodoOK
  <2>3. CASE TakeMessage
    BY <1>1, <2>1, <2>2, <2>3
    DEF TakeMessage, Takes, Begin, JobOK, PlanOK, MessagePlans, Names, Job, None
  <2>4. CASE TakeFiles
    BY <1>1, <2>1, <2>2, <2>4
    DEF TakeFiles, Takes, Begin, JobOK, PlanOK, FilesPlans, Names, Job, None
  <2>5. CASE TakePush
    BY <1>1, <2>1, <2>2, <2>5
    DEF TakePush, Takes, Begin, JobOK, PlanOK, PushPlans, Names, Job, None
  <2>6. CASE SkipRollback
    BY <1>1, <2>1, <2>2, <2>6
    DEF SkipRollback, Takes, Begin, JobOK, PlanOK, RollbackPlans, Names, Job, None
  <2>7. CASE TakeRollback
    <3>1. PICK c \in Line(main) :
            /\ job' = Job("rollback", Head(todo).arg, commits[c].parent)
            /\ plan' = <<"commit", "bundle", "restore", "commit", "bundle", "announce", "handled">>
      BY <2>7 DEF TakeRollback, Begin
    <3>2. c \in 1..Len(commits)
      <4>1. main \in 1..Len(commits) /\ c \in commits[main].line
        BY <1>1 DEF Line, None, RefsOK
      <4>2. c \in 1..main
        BY <4>1 DEF HistoryOK
      <4>3. QED
        BY <1>1, <4>1, <4>2
    <3>3. commits[c].parent \in 0..Len(commits')
      BY <1>1, <3>2 DEF HistoryOK
    <3>4. QED
      BY <2>1, <2>7, <3>1, <3>3 DEF TakeRollback, JobOK, PlanOK, RollbackPlans, Names, Job
  <2>8. QED
    BY <1>4, <2>3, <2>4, <2>5, <2>6, <2>7 DEF Take
<1>5. CASE Exit
  BY <1>1, <1>5 DEF Exit, Begin, JobOK, PlanOK, ExitPlans, Names, Job, None
<1>6. CASE Crash
  BY <1>1, <1>6 DEF Crash, JobOK, PlanOK, Names, Idle, Job, None
<1>7. CASE Fail
  BY <1>1, <1>7, PlanAfterFail DEF Fail, JobOK, Names
<1>8. ASSUME plan # <<>>, GoOn, UNCHANGED <<up, job, todo>>
      PROVE  JobOK'
  BY <1>1, <1>8, PlanGoesOn DEF JobOK, Names
<1>9. ASSUME Does("commitPaths") \/ (Does("commit") /\ job.type # "message"), SkipBundle,
             UNCHANGED <<up, job, todo>>
      PROVE  JobOK'
  BY <1>1, <1>9, PlanAfterSkip DEF JobOK, Names, Does
<1>10. CASE NothingToCommit /\ job.type = "message"
  BY <1>1, <1>10 DEF NothingToCommit, Outside, JobOK, PlanOK, Names
<1>11. CASE Conflict
  BY <1>1, <1>11, MergeStep DEF Conflict, Refusal, Diverged, Outside, JobOK, PlanOK, PushPlans, Names, Does
<1>12. CASE Handled
  <2>1. plan = <<"handled">> /\ plan' = <<>>
    BY <1>12, HandledStep, Tails DEF Handled, JobOK, GoOn
  <2>2. QED
    BY <1>1, <1>12, <2>1 DEF Handled, JobOK, PlanOK, Names
<1>13. CASE Exited
  <2>1. plan' = <<>>
    BY <1>13, ExitStep, Tails DEF Exited, JobOK, GoOn
  <2>2. QED
    BY <1>1, <1>13, <2>1 DEF Exited, JobOK, PlanOK, Names
<1>14. CASE NothingToCommit /\ job.type # "message"
  BY <1>9, <1>14 DEF NothingToCommit, Outside
<1>15. CASE CommitPaths
  BY <1>8, <1>9, <1>15 DEF CommitPaths, Outside, Does
<1>16. CASE Step /\ ~(NothingToCommit \/ CommitPaths \/ Conflict \/ Handled \/ Exited)
  BY <1>8, <1>16 DEF Step, Work, Copy, Seed, Commit, WriteBundle, UpToDate, FastForward, Merge,
                     Diverged, AbortMerge, RemoveIncoming, Restore, Announce, Outside, Does
<1>17. ASSUME NEW type, NEW arg, Send(type, arg)
       PROVE  JobOK'
  <2>1. UNCHANGED <<up, job, plan>> /\ (todo # <<>> => todo' # <<>>)
    BY <1>17 DEF Send, harness, TodoOK
  <2>2. QED
    BY <1>1, <2>1 DEF JobOK, PlanOK, Names
<1>18. CASE Push
  <2>1. UNCHANGED <<up, job, plan>> /\ (todo # <<>> => todo' # <<>>)
    BY <1>18 DEF Push, harness, TodoOK
  <2>2. QED
    BY <1>1, <2>1 DEF JobOK, PlanOK, Names
<1>19. ASSUME NEW edit \in UserEdits, UserCommits(edit)
       PROVE  JobOK'
  BY <1>2, <1>19 DEF UserCommits, harness
<1>20. CASE Pull \/ UNCHANGED vars
  BY <1>2, <1>20 DEF Pull, vars, harness
<1>21. CASE MergeFails
  BY <1>1, <1>21, PlanAfterMergeFails DEF MergeFails, JobOK, Names
<1>22. QED
  BY <1>3, <1>4, <1>5, <1>6, <1>7, <1>10, <1>11, <1>12, <1>13, <1>14, <1>15, <1>16, <1>17, <1>18,
     <1>19, <1>20, <1>21 DEF Next, Step, SendMessage, SendRollback, SendOnce

(* A step other than the abort finds no merge under way.                   *)
LEMMA NotMerging ==
  ASSUME IInv, up \/ plan # <<>>, ~Does("abort")
  PROVE  ~merging /\ files \subseteq Edits
BY DEF IInv, FilesOK, JobOK

(* The working tree is overwritten only when main has it.                  *)
LEMMA FilesStep ==
  ASSUME IInv, [Next]_vars
  PROVE  FilesOK'
<1> USE DEF IInv
<1>1. /\ HistoryOK' /\ Kept /\ JobOK' /\ RefsOK'
     /\ \A c \in 0..Len(commits) : Files(c)' = Files(c) /\ Files(c) \subseteq Edits
  <2>1. \A c \in 1..Len(commits) : commits[c] \in CommitSet
    BY DEF HistoryOK
  <2>2. \A c \in 0..Len(commits) : Files(c) \subseteq Edits
    BY <2>1 DEF Files, None, CommitSet
  <2>3. QED
    BY <2>2, HistoryStep, JobStep, RefsStep, KeptRefs
<1>2. ASSUME UNCHANGED main
      PROVE  Files(main)' = Files(main)
  BY <1>1, <1>2 DEF RefsOK, Files
<1>3. ASSUME UNCHANGED <<main, files, merging, up, plan, written>>
      PROVE  FilesOK'
  BY <1>2, <1>3 DEF FilesOK, Clean, Does, Then
<1>4. CASE Start
  <2>1. \/ merging /\ plan' = <<"abort", "bundle">>
        \/ ~merging /\ main = None /\ plan' = <<"seed", "bundle">>
        \/ ~merging /\ plan' = <<"bundle">>
    BY <1>4 DEF Start, Begin, FilesOK
  <2>2. (merging => Does("abort")') /\ (~merging => ~Does("abort")')
    BY <2>1 DEF Does
  <2>3. Does("seed")' => main = None
    BY <2>1 DEF Does
  <2>4. ~Clean'
    BY <2>1 DEF Clean, Does, Then
  <2>5. UNCHANGED <<main, files, merging, written>>
    BY <1>4 DEF Start, repo
  <2>6. QED
    BY <1>2, <2>2, <2>3, <2>4, <2>5 DEF FilesOK
<1>5. ASSUME ~merging, files \subseteq Edits, ~Does("abort")', ~Does("seed")', ~Clean',
             UNCHANGED <<main, files, merging, written>>
      PROVE  FilesOK'
  BY <1>5 DEF FilesOK
<1>6. CASE Take \/ Exit
  <2>1. /\ up /\ plan = <<>> /\ UNCHANGED <<repo, written>>
       /\ plan' # <<>> /\ Head(plan') \in {"work", "copy", "commit", "handled"}
    BY <1>6 DEF Take, TakeMessage, TakeFiles, TakePush, SkipRollback, TakeRollback, Takes, Exit,
                Begin
  <2>2. ~merging /\ files \subseteq Edits
    BY <2>1, NotMerging DEF Does
  <2>3. QED
    BY <1>5, <2>1, <2>2 DEF repo, Clean, Does, Then
<1>7. CASE Fail
  <2>1. plan # <<>> /\ ~Does("abort") /\ UNCHANGED <<repo, written>>
    BY <1>7 DEF Fail, MayFail, Does
  <2>2. QED
    BY <1>5, <1>7, <2>1, NotMerging, PlanAfterFail DEF repo, Clean, Does, Then, JobOK
<1>8. CASE Crash
  BY <1>2, <1>8 DEF Crash, repo, FilesOK, Clean, Does, Then
<1>9. CASE Work \/ Copy
  <2>1. plan # <<>> /\ GoOn /\ ~merging /\ files \subseteq Edits
    BY <1>9, NotMerging DEF Work, Copy, Does
  <2>2. ~Does("abort")' /\ ~Does("seed")' /\ ~Clean'
    BY <1>9, <2>1, PlanAfterStep DEF Work, Copy, Does, JobOK
  <2>3. job.arg \in Edits
    BY <1>9, WorkStep, CopyStep, EditsAreNumbers DEF Work, Copy, JobOK, Names
  <2>4. QED
    BY <1>9, <2>1, <2>2, <2>3 DEF Work, Copy, FilesOK
<1>10. CASE Seed \/ Commit
  <2>1. plan # <<>> /\ GoOn /\ ~merging /\ files \subseteq Edits
    BY <1>10, NotMerging DEF Seed, Commit, Does
  <2>2. ~Does("abort")' /\ ~Does("seed")' /\ Files(main)' = files
    BY <1>10, <2>1, PlanAfterStep, CommitEffect DEF JobOK, MainIsNew
  <2>3. QED
    BY <1>10, <2>1, <2>2 DEF Seed, Commit, Outside, FilesOK
<1>11. CASE NothingToCommit
  <2>1. plan # <<>> /\ ~merging /\ files \subseteq Edits /\ files = Files(main)
    BY <1>11, NotMerging DEF NothingToCommit, Does
  <2>2. ~Does("abort")' /\ ~Does("seed")'
    BY <1>11, PlanAfterSkip DEF NothingToCommit, JobOK, Outside, Does
  <2>3. QED
    BY <1>2, <1>11, <2>1, <2>2 DEF NothingToCommit, Outside, repo, FilesOK
<1>12. CASE CommitPaths
  <2>1. plan # <<>> /\ ~merging /\ files \subseteq Edits /\ UNCHANGED <<files, merging, written>>
    BY <1>12, NotMerging DEF CommitPaths, Does, repo, Outside
  <2>2. ~Does("abort")' /\ ~Does("seed")' /\ ~Clean'
    BY <1>12, <2>1, PlanAfterStep, PlanAfterSkip DEF CommitPaths, JobOK, Outside, Does
  <2>3. QED
    BY <2>1, <2>2 DEF FilesOK
<1>13. CASE WriteBundle \/ UpToDate \/ RemoveIncoming \/ Announce \/ Handled \/ Exited
  <2>1. plan # <<>> /\ GoOn /\ ~merging /\ files \subseteq Edits
    BY <1>13, NotMerging DEF WriteBundle, UpToDate, RemoveIncoming, Announce, Handled, Exited, Does
  <2>2. ~Does("abort")' /\ ~Does("seed")' /\ (Clean' => Clean)
    BY <1>13, <2>1, PlanAfterStep
    DEF WriteBundle, UpToDate, RemoveIncoming, Announce, Handled, Exited, Does, JobOK
  <2>3. UNCHANGED <<main, files, merging, written>>
    BY <1>13 DEF WriteBundle, UpToDate, RemoveIncoming, Announce, Handled, Exited, Outside, repo
  <2>4. QED
    BY <1>2, <2>1, <2>2, <2>3 DEF FilesOK
<1>14. CASE FastForward \/ Merge \/ Restore
  <2>1. plan # <<>> /\ GoOn /\ ~merging
    BY <1>14, NotMerging DEF FastForward, Merge, Diverged, Restore, Does
  <2>2. ~Does("abort")' /\ ~Does("seed")' /\ ~Clean'
    BY <1>14, <2>1, PlanAfterStep DEF FastForward, Merge, Diverged, Restore, Does, JobOK
  <2>3. files' \subseteq Edits
    BY <1>1, <1>14, TheirsIsThere, MergeEffect DEF FastForward, Restore, JobOK
  <2>4. QED
    BY <1>14, <2>1, <2>2, <2>3 DEF FastForward, Merge, Restore, Outside, FilesOK
<1>15. CASE Conflict
  <2>1. files = Files(main)
    BY <1>15 DEF Conflict, Diverged, FilesOK, Clean
  <2>2. Does("abort")' /\ ~Does("seed")' /\ ~Clean'
    BY <1>15 DEF Conflict, Refusal, Does, Clean, Then
  <2>3. QED
    BY <1>2, <1>15, <2>1, <2>2 DEF Conflict, Outside, FilesOK
<1>16. CASE AbortMerge
  <2>1. plan # <<>> /\ ~Does("abort")' /\ ~Does("seed")' /\ ~Clean'
    BY <1>16, PlanAfterStep DEF AbortMerge, Does, JobOK
  <2>2. QED
    BY <1>1, <1>16, <2>1 DEF AbortMerge, Outside, FilesOK, RefsOK
<1>17. ASSUME NEW type, NEW arg, Send(type, arg)
       PROVE  FilesOK'
  BY <1>3, <1>17 DEF Send, repo, harness
<1>18. ASSUME NEW edit \in UserEdits, UserCommits(edit)
       PROVE  FilesOK'
  BY <1>3, <1>18 DEF UserCommits, harness
<1>19. CASE Pull \/ Push \/ UNCHANGED vars
  BY <1>3, <1>19 DEF Pull, Push, vars, repo, harness
<1>20. CASE MergeFails
  <2>1. Does("merge") /\ plan # <<>> /\ ~Does("seed")' /\ ~Clean'
    BY <1>20, PlanAfterMergeFails DEF JobOK
  <2>2. files = Files(main) /\ ~merging /\ files \subseteq Edits
    BY <2>1, NotMerging DEF FilesOK, Clean, Does
  <2>3. UNCHANGED <<files, main, merging, written, up>> /\ Files(main)' = Files(main)
    BY <1>20 DEF MergeFails, repo, Files
  <2>4. QED
    BY <2>1, <2>2, <2>3 DEF FilesOK
<1>21. QED
  BY <1>4, <1>6, <1>7, <1>8, <1>9, <1>10, <1>11, <1>12, <1>13, <1>14, <1>15, <1>16, <1>17, <1>18,
     <1>19, <1>20 DEF Next, Step, SendMessage, SendRollback, SendOnce

(* What stands before the removal of a pushed file.                        *)
LEMMA RemovalStep ==
  ASSUME IInv, [Next]_vars
  PROVE  RemovalOK'
<1> USE DEF IInv
<1>1. /\ Len(pushes) \in Nat /\ \A p \in 1..Len(pushes) : pushes'[p].commit = pushes[p].commit
     /\ HistoryOK /\ Kept /\ Past(main) \subseteq Past(main)'
  BY PushesStep, HistoryStep, MainStep
<1>2. ASSUME ~Then("bundle", "remove")', ~Does("remove")'
      PROVE  RemovalOK'
  BY <1>2 DEF RemovalOK, Then
<1>3. ASSUME plan # <<>>, GoOn, ~Does("merge"), ~Does("refuse"), ~Does("bundle")
      PROVE  RemovalOK'
  BY <1>3, PlanAfterStep, RemoveStep DEF RemovalOK, JobOK, Then
<1>4. ASSUME UNCHANGED <<job, plan, bundle, announced>>
      PROVE  RemovalOK'
  <2>1. CASE Then("bundle", "remove") \/ Does("remove")
    <3>1. Theirs' = Theirs
      BY <1>1, <1>4, <2>1, TheirsIsThere DEF Theirs
    <3>2. QED
      BY <1>1, <1>4, <3>1, KeptRefs DEF RemovalOK, RefsOK, Then, Does, Past
  <2>2. CASE ~Then("bundle", "remove") /\ ~Does("remove")
    BY <1>2, <1>4, <2>2 DEF Then, Does
  <2>3. QED
    BY <2>1, <2>2
<1>5. CASE UpToDate \/ FastForward \/ Merge
  <2>1. Does("merge") /\ plan # <<>> /\ GoOn /\ UNCHANGED <<job, pushes>>
    BY <1>5 DEF UpToDate, FastForward, Merge, Diverged, Does, Outside
  <2>2. ~Then("remove", "announce")' /\ ~Then("remove", "handled")'
    BY <2>1, PlanAfterStep DEF JobOK, Does, Then
  <2>3. Theirs' = Theirs /\ Theirs \in 1..Len(commits)
    BY <2>1, TheirsIsThere DEF Theirs
  <2>4. Theirs \in Past(Theirs) /\ Past(Theirs)' = Past(Theirs)
    BY <1>1, <2>3, KeptRefs DEF HistoryOK, Past, None
  <2>5. CASE UpToDate
    BY <1>1, <2>2, <2>3, <2>5 DEF UpToDate, RemovalOK
  <2>6. CASE FastForward
    BY <2>2, <2>3, <2>4, <2>6 DEF FastForward, RemovalOK, Past
  <2>7. CASE Merge
    BY <2>2, <2>3, <2>4, <2>7, MergeEffect DEF MainIsNew, RemovalOK
  <2>8. QED
    BY <1>5, <2>5, <2>6, <2>7
<1>6. CASE WriteBundle
  <2>1. Does("bundle") /\ plan # <<>> /\ GoOn /\ UNCHANGED <<job, pushes>>
    BY <1>6 DEF WriteBundle, Does, Outside
  <2>2. ~Then("bundle", "remove")' /\ ~Then("remove", "handled")'
    BY <2>1, PlanAfterStep DEF JobOK, Does
  <2>3. Then("remove", "announce")' => Theirs \in Past(main)
    BY <2>1, PlanAfterStep DEF JobOK, RemovalOK
  <2>4. Past(bundle)' = Past(main) /\ Theirs' = Theirs
    BY <1>6, <2>1 DEF WriteBundle, Past, Theirs
  <2>5. QED
    BY <2>2, <2>3, <2>4 DEF RemovalOK
<1>7. CASE Announce
  <2>1. plan # <<>> /\ GoOn /\ ~Does("merge") /\ ~Does("bundle") /\ UNCHANGED job
    BY <1>7 DEF Announce, Does
  <2>2. CASE ~Does("refuse")
    BY <1>3, <2>1, <2>2
  <2>3. CASE Does("refuse")
    <3>1. ~Then("bundle", "remove")' /\ ~Then("remove", "announce")'
      BY <2>1, PlanAfterStep DEF JobOK, Then
    <3>2. [type |-> "local-merge-conflict", arg |-> job.arg, sha |-> None] \in announced'
      BY <1>7, <2>3 DEF Announce, Emit, Does
    <3>3. QED
      BY <2>1, <3>1, <3>2 DEF RemovalOK
  <2>4. QED
    BY <2>2, <2>3
<1>8. CASE Step /\ ~(UpToDate \/ FastForward \/ Merge \/ WriteBundle \/ Announce \/ NothingToCommit
                     \/ CommitPaths \/ Conflict)
  BY <1>3, <1>8 DEF Step, Work, Copy, Seed, Commit, AbortMerge, RemoveIncoming, Restore, Handled,
                    Exited, Does
<1>9. CASE NothingToCommit \/ CommitPaths
  BY <1>2, <1>3, <1>9, PlanAfterSkip DEF NothingToCommit, CommitPaths, JobOK, Outside, Does, Then
<1>10. CASE Conflict
  BY <1>2, <1>10 DEF Conflict, Refusal, Does, Then
<1>11. CASE Start \/ Take \/ Exit
  <2>1. CASE Start
    <3>1. merging \in BOOLEAN
      BY DEF FilesOK
    <3>2. plan' \in StartPlans
      BY <2>1, <3>1 DEF Start, Begin, StartPlans
    <3>3. QED
      BY <1>2, <3>2 DEF StartPlans, Does, Then
  <2>2. CASE Take \/ Exit
    <3>1. plan' # <<>> /\ Head(plan') \in {"work", "copy", "commit", "handled"}
      BY <2>2 DEF Take, TakeMessage, TakeFiles, TakePush, SkipRollback, TakeRollback, Exit, Begin
    <3>2. QED
      BY <1>2, <3>1 DEF Does, Then
  <2>3. QED
    BY <1>11, <2>1, <2>2
<1>12. CASE Fail \/ Crash
  BY <1>2, <1>12, PlanAfterFail DEF Crash, JobOK, Does, Then
<1>13. ASSUME NEW type, NEW arg, Send(type, arg)
       PROVE  RemovalOK'
  BY <1>4, <1>13 DEF Send, repo, harness
<1>14. ASSUME NEW edit \in UserEdits, UserCommits(edit)
       PROVE  RemovalOK'
  BY <1>4, <1>14 DEF UserCommits, harness
<1>15. CASE Pull \/ Push \/ UNCHANGED vars
  BY <1>4, <1>15 DEF Pull, Push, vars, repo, harness
<1>16. CASE MergeFails
  BY <1>16, PlanAfterMergeFails DEF RemovalOK, JobOK
<1>17. QED
  BY <1>5, <1>6, <1>7, <1>8, <1>9, <1>10, <1>11, <1>12, <1>13, <1>14, <1>15, <1>16
  DEF Next, Step, SendMessage, SendRollback, SendOnce

-----------------------------------------------------------------------------
(* What is in the history of main stays in it.                             *)
Committed(e) == \E c \in Past(main) : e \in commits[c].files

LEMMA CommittedStays ==
  ASSUME IInv, [Next]_vars, NEW e, Committed(e)
  PROVE  \E c \in Past(main)' : e \in commits'[c].files
<1>1. PICK c \in Past(main) : e \in commits[c].files
  BY DEF Committed
<1>2. c \in 1..Len(commits)
  BY <1>1 DEF IInv, HistoryOK, RefsOK, Past, None
<1>3. c \in Past(main)' /\ commits'[c] = commits[c]
  BY <1>1, <1>2, MainStep, HistoryStep DEF Kept
<1>4. QED
  BY <1>1, <1>3

LEMMA FilesAreCommitted ==
  ASSUME IInv, NEW e \in Files(main)
  PROVE  Committed(e)
<1>1. main \in 1..Len(commits) /\ e \in commits[main].files
  BY DEF Files, None, IInv, RefsOK
<1>2. main \in Past(main)
  BY <1>1 DEF Past, None, IInv, HistoryOK
<1>3. QED
  BY <1>1, <1>2 DEF Committed

(* No action loses an edit of the session.                                 *)
LEMMA EditsStep ==
  ASSUME IInv, [Next]_vars
  PROVE  NoEditIsLost'
<1> USE DEF IInv
<1>1. ASSUME files \subseteq files', written' \subseteq written \cup files'
      PROVE  NoEditIsLost'
  BY <1>1, CommittedStays DEF NoEditIsLost, Committed
<1>2. ASSUME NEW e \in written, Committed(e)
      PROVE  \E c \in Past(main)' : e \in commits'[c].files
  BY <1>2, CommittedStays
<1>3. CASE FastForward \/ Merge \/ Restore
  <2>1. files = Files(main) /\ written' = written
    BY <1>3 DEF FastForward, Merge, Diverged, Restore, Outside, FilesOK, Clean
  <2>2. \A e \in written : Committed(e)
    BY <2>1, FilesAreCommitted DEF NoEditIsLost, Committed
  <2>3. QED
    BY <1>2, <2>1, <2>2 DEF NoEditIsLost
<1>4. CASE AbortMerge
  <2>1. files \subseteq Files(main) \cup {Markers} /\ written' = written
    BY <1>4 DEF AbortMerge, Outside, FilesOK
  <2>2. \A e \in written : e # Markers
    BY EditsAreNumbers DEF FilesOK, Markers
  <2>3. \A e \in written : Committed(e)
    BY <2>1, <2>2, FilesAreCommitted DEF NoEditIsLost, Committed
  <2>4. QED
    BY <1>2, <2>1, <2>3 DEF NoEditIsLost
<1>5. CASE Work \/ Copy \/ Conflict
  BY <1>1, <1>5 DEF Work, Copy, Conflict, Outside
<1>6. CASE Step /\ ~(FastForward \/ Merge \/ Restore \/ AbortMerge \/ Work \/ Copy \/ Conflict)
  BY <1>1, <1>6 DEF Step, Seed, NothingToCommit, Commit, CommitPaths, WriteBundle, UpToDate,
                    RemoveIncoming, Announce, Handled, Exited, Outside, repo
<1>7. CASE Start \/ Take \/ Exit \/ Fail \/ MergeFails \/ Crash \/ Push \/ Pull \/ UNCHANGED vars
  BY <1>1, <1>7 DEF Start, Take, TakeMessage, TakeFiles, TakePush, SkipRollback, TakeRollback,
                    Exit, Fail, MergeFails, Crash, Push, Pull, vars, repo
<1>8. ASSUME NEW type, NEW arg, Send(type, arg)
      PROVE  NoEditIsLost'
  BY <1>1, <1>8 DEF Send, repo
<1>9. ASSUME NEW edit \in UserEdits, UserCommits(edit)
      PROVE  NoEditIsLost'
  BY <1>1, <1>9 DEF UserCommits
<1>10. QED
  BY <1>3, <1>4, <1>5, <1>6, <1>7, <1>8, <1>9 DEF Next, SendMessage, SendRollback, SendOnce

(* No action deletes a push that main.bundle does not have and that was    *)
(* not refused.                                                            *)
LEMMA KeptPushStep ==
  ASSUME IInv, [Next]_vars
  PROVE  PushIsKept'
<1> USE DEF IInv
<1>1. /\ HistoryOK /\ Kept /\ pushes \in Seq([commit : Nat, gone : BOOLEAN])
     /\ \A p \in 1..Len(pushes) : pushes'[p].commit = pushes[p].commit
  BY HistoryStep, PushesStep DEF PushesOK
<1>2. ASSUME UNCHANGED bundle \/ bundle' = main
      PROVE  Past(bundle) \subseteq Past(bundle)'
  <2>1. CASE UNCHANGED bundle
    BY <1>1, <2>1, KeptRefs DEF RefsOK, Past
  <2>2. CASE bundle' = main
    BY <1>1, <2>2, KeptRefs DEF RefsOK, Past
  <2>3. QED
    BY <1>2, <2>1, <2>2
<1>3. ASSUME UNCHANGED bundle \/ bundle' = main, announced \subseteq announced', UNCHANGED pushes
      PROVE  PushIsKept'
  BY <1>2, <1>3 DEF PushIsKept
<1>4. CASE RemoveIncoming
  <2>1. /\ UNCHANGED <<bundle, announced>> /\ job.arg \in 1..Len(pushes)
       /\ pushes' = [pushes EXCEPT ![job.arg] = [commit |-> Theirs, gone |-> TRUE]]
    BY <1>4, TheirsIsThere DEF RemoveIncoming, repo
  <2>2. \/ Theirs \in Past(bundle)
        \/ \E e \in announced : e.type = "local-merge-conflict" /\ e.arg = job.arg
    BY <1>4, RemoveStep DEF RemoveIncoming, RemovalOK, JobOK
  <2>3. Past(bundle) \subseteq Past(bundle)'
    BY <1>2, <2>1
  <2>4. ASSUME NEW p \in DOMAIN pushes', pushes'[p].gone
        PROVE  \/ pushes'[p].commit \in Past(bundle)'
               \/ \E e \in announced' : e.type = "local-merge-conflict" /\ e.arg = p
    <3>1. CASE p = job.arg
      BY <1>1, <2>1, <2>2, <2>3, <3>1
    <3>2. CASE p # job.arg
      BY <1>1, <2>1, <2>3, <2>4, <3>2 DEF PushIsKept
    <3>3. QED
      BY <3>1, <3>2
  <2>5. QED
    BY <2>4 DEF PushIsKept
<1>5. CASE Push
  <2>1. CASE UNCHANGED pushes
    BY <1>3, <1>5, <2>1 DEF Push, repo
  <2>2. CASE pushes' = Append(pushes, [commit |-> clone, gone |-> FALSE])
    <3>1. UNCHANGED <<bundle, announced>> /\ Past(bundle) \subseteq Past(bundle)'
      BY <1>2, <1>5 DEF Push, repo
    <3>2. \A p \in DOMAIN pushes' : pushes'[p].gone => p \in DOMAIN pushes /\ pushes'[p] = pushes[p]
      BY <1>1, <2>2
    <3>3. QED
      BY <3>1, <3>2 DEF PushIsKept
  <2>3. QED
    BY <1>5, <2>1, <2>2 DEF Push
<1>6. CASE Step /\ ~RemoveIncoming
  BY <1>3, <1>6 DEF Step, Work, Copy, Seed, NothingToCommit, Commit, CommitPaths, WriteBundle,
                    UpToDate, FastForward, Merge, Conflict, AbortMerge, Restore, Announce, Emit,
                    Handled, Exited, Outside, repo
<1>7. CASE Start \/ Take \/ Exit \/ Fail \/ MergeFails \/ Crash \/ Pull \/ UNCHANGED vars
  BY <1>3, <1>7 DEF Start, Take, TakeMessage, TakeFiles, TakePush, SkipRollback, TakeRollback,
                    Exit, Fail, MergeFails, Crash, Pull, vars, repo
<1>8. ASSUME NEW type, NEW arg, Send(type, arg)
      PROVE  PushIsKept'
  BY <1>3, <1>8 DEF Send, repo
<1>9. ASSUME NEW edit \in UserEdits, UserCommits(edit)
      PROVE  PushIsKept'
  BY <1>3, <1>9 DEF UserCommits
<1>10. QED
  BY <1>4, <1>5, <1>6, <1>7, <1>8, <1>9 DEF Next, SendMessage, SendRollback, SendOnce

(* main.bundle only grows: it is unchanged, or becomes main.               *)
LEMMA BundleGrows ==
  ASSUME IInv, [Next]_vars
  PROVE  /\ WriteBundle \/ UNCHANGED bundle
         /\ Past(bundle) \subseteq Past(bundle)'
<1>1. CASE WriteBundle
  BY <1>1, HistoryStep, KeptRefs DEF WriteBundle, IInv, RefsOK, Past
<1>2. ASSUME UNCHANGED bundle
      PROVE  Past(bundle) \subseteq Past(bundle)'
  BY <1>2, HistoryStep, KeptRefs DEF IInv, RefsOK, Past
<1>3. CASE Step /\ ~WriteBundle
  BY <1>2, <1>3 DEF Step, Work, Copy, Seed, NothingToCommit, Commit, CommitPaths, UpToDate,
                    FastForward, Merge, Conflict, AbortMerge, RemoveIncoming, Restore, Announce,
                    Handled, Exited, repo
<1>4. CASE Start \/ Take \/ Exit \/ Fail \/ MergeFails \/ Crash \/ Push \/ Pull \/ UNCHANGED vars
  BY <1>2, <1>4 DEF Start, Take, TakeMessage, TakeFiles, TakePush, SkipRollback, TakeRollback,
                    Exit, Fail, MergeFails, Crash, Push, Pull, vars, repo
<1>5. ASSUME NEW type, NEW arg, Send(type, arg)
      PROVE  UNCHANGED bundle
  BY <1>5 DEF Send, repo
<1>6. ASSUME NEW edit \in UserEdits, UserCommits(edit)
      PROVE  UNCHANGED bundle
  BY <1>6 DEF UserCommits
<1>7. QED
  BY <1>1, <1>2, <1>3, <1>4, <1>5, <1>6 DEF Next, SendMessage, SendRollback, SendOnce

(* Every action leaves the bundle behind main only where it is written     *)
(* next, or where a command failed.                                        *)
LEMMA BundleStep ==
  ASSUME IInv, [Next]_vars
  PROVE  BundleOK'
<1> USE DEF IInv
<1>1. ASSUME UNCHANGED <<up, job, plan, main, bundle, failures>>
      PROVE  BundleOK'
  BY <1>1 DEF BundleOK, Does, Then
<1>2. ASSUME failures' \in Nat, Does("bundle")'
      PROVE  BundleOK'
  BY <1>2 DEF BundleOK, Does, Then
<1>3. ASSUME failures' \in Nat, ~up', plan' = <<>>
      PROVE  BundleOK'
  BY <1>3 DEF BundleOK, Does, Then
<1>4. CASE Start
  <2>1. /\ up' /\ job'.type = "start" /\ failures' \in Nat
       /\ plan' \in {<<"abort", "bundle">>, <<"seed", "bundle">>, <<"bundle">>}
    BY <1>4 DEF Start, Begin, Job, counts, BundleOK, FilesOK
  <2>2. QED
    BY <2>1 DEF BundleOK, Does, Then
<1>5. CASE Take \/ Exit
  <2>1. /\ up /\ plan = <<>> /\ UNCHANGED <<main, bundle, failures>>
       /\ plan' # <<>> /\ Head(plan') \in {"work", "copy", "commit", "handled"}
    BY <1>5 DEF Take, TakeMessage, TakeFiles, TakePush, SkipRollback, TakeRollback, Takes, Exit,
                Begin, repo, counts
  <2>2. failures > 0 \/ bundle = main
    BY <2>1 DEF BundleOK, Does
  <2>3. QED
    BY <2>1, <2>2 DEF BundleOK, Does, Then
<1>6. CASE Fail
  <2>1. failures' \in Nat /\ failures' > 0
    BY <1>6 DEF Fail, BundleOK
  <2>2. QED
    BY <1>6, <2>1, PlanAfterFail DEF BundleOK, JobOK, Does, Then
<1>7. CASE Crash
  BY <1>3, <1>7 DEF Crash, BundleOK
<1>8. CASE WriteBundle
  BY <1>8 DEF WriteBundle, BundleOK, Outside, counts
<1>9. ASSUME plan # <<>>, ~Does("bundle"), job.type # "start", UNCHANGED <<main, bundle, failures>>,
             Does("announce")' /\ job'.type # "rollback" => bundle = main,
             Then("remove", "announce")' => bundle = main
      PROVE  BundleOK'
  <2>1. failures \in Nat /\ (failures > 0 \/ bundle = main)
    BY <1>9 DEF BundleOK, JobOK
  <2>2. failures' \in Nat /\ (failures' > 0 \/ bundle' = main')
    BY <1>9, <2>1
  <2>3. Does("announce")' /\ job'.type # "rollback" => bundle' = main'
    BY <1>9
  <2>4. Then("remove", "announce")' => bundle' = main'
    BY <1>9
  <2>5. QED
    BY <2>2, <2>3, <2>4 DEF BundleOK
<1>10. CASE Seed \/ Commit \/ FastForward \/ Merge \/ UpToDate
  <2>1. plan # <<>> /\ GoOn /\ failures' \in Nat
    BY <1>10 DEF Seed, Commit, FastForward, Merge, UpToDate, Diverged, Does, Outside, counts, BundleOK
  <2>2. \/ Does("commit") \/ Does("merge")
        \/ Does("seed") /\ job.type = "start" /\ ~Does("bundle")
    BY <1>10, SeedStep DEF Seed, Commit, FastForward, Merge, UpToDate, Diverged, JobOK, Does
  <2>3. Does("bundle")'
    BY <2>1, <2>2, BundleComesNext DEF JobOK
  <2>4. QED
    BY <1>2, <2>1, <2>3
<1>11. CASE NothingToCommit \/ (CommitPaths /\ job.arg \in Files(main))
  <2>1. /\ plan # <<>> /\ ~Does("bundle") /\ UNCHANGED <<job, main, bundle, failures>>
       /\ job.type # "start"
    BY <1>11, StartSteps DEF NothingToCommit, CommitPaths, Does, Outside, counts, repo, JobOK
  <2>2. CASE NothingToCommit /\ job.type = "message"
    BY <1>9, <2>1, <2>2 DEF NothingToCommit, Does, Then
  <2>3. CASE NothingToCommit /\ job.type # "message"
    <3>1. ~Does("remove")' /\ ~(Does("announce")' /\ job'.type # "rollback")
      BY <2>1, <2>3, PlanAfterSkip, SkipsToRollback DEF NothingToCommit, JobOK
    <3>2. QED
      BY <1>9, <2>1, <3>1 DEF Then
  <2>4. CASE CommitPaths /\ job.arg \in Files(main)
    <3>1. ~Does("remove")' /\ ~(Does("announce")' /\ job'.type # "rollback")
      BY <2>1, <2>4, PlanAfterSkip, SkipsToRollback, CopyStep DEF CommitPaths, JobOK
    <3>2. QED
      BY <1>9, <2>1, <3>1 DEF Then
  <2>5. QED
    BY <1>11, <2>2, <2>3, <2>4
<1>12. CASE CommitPaths /\ job.arg \notin Files(main)
  <2>1. plan # <<>> /\ GoOn /\ failures' \in Nat /\ Does("commitPaths")
    BY <1>12 DEF CommitPaths, Does, Outside, counts, BundleOK
  <2>2. Does("bundle")'
    BY <2>1, BundleComesNext DEF JobOK
  <2>3. QED
    BY <1>2, <2>1, <2>2
<1>13. ASSUME plan # <<>>, GoOn, job.type # "start", ~Does("bundle"),
              UNCHANGED <<job, main, bundle, failures>>
       PROVE  BundleOK'
  <2>1. Does("announce")' /\ job'.type # "rollback" => bundle = main
    BY <1>13, BundleComesNext DEF BundleOK, JobOK
  <2>2. ~Then("remove", "announce")'
    BY <1>13, BundleComesNext DEF JobOK
  <2>3. QED
    BY <1>9, <1>13, <2>1, <2>2
<1>14. CASE Work \/ Copy \/ RemoveIncoming \/ Restore \/ Announce \/ Handled \/ Exited
  <2>1. /\ plan # <<>> /\ GoOn /\ ~Does("bundle") /\ ~Does("abort") /\ ~Does("seed")
       /\ UNCHANGED <<job, main, bundle, failures>>
    BY <1>14 DEF Work, Copy, RemoveIncoming, Restore, Announce, Handled, Exited, Does, Outside,
                 counts, repo
  <2>2. job.type # "start"
    BY <2>1, StartSteps DEF JobOK
  <2>3. QED
    BY <1>13, <2>1, <2>2
<1>15. CASE Conflict
  <2>1. /\ plan # <<>> /\ ~Does("bundle") /\ job.type = "apply-bundle"
       /\ UNCHANGED <<job, main, bundle, failures>>
    BY <1>15, MergeStep DEF Conflict, Diverged, Does, Outside, counts, JobOK
  <2>2. ~Does("announce")' /\ ~Then("remove", "announce")'
    BY <1>15 DEF Conflict, Refusal, Does, Then
  <2>3. QED
    BY <1>9, <2>1, <2>2
<1>16. CASE AbortMerge
  <2>1. /\ plan # <<>> /\ GoOn /\ ~Does("bundle") /\ UNCHANGED <<job, main, bundle, failures>>
    BY <1>16 DEF AbortMerge, Does, Outside, counts
  <2>2. CASE job.type = "start"
    BY <1>2, <2>1, <2>2, BundleComesNext DEF JobOK, BundleOK
  <2>3. CASE job.type # "start"
    BY <1>13, <2>1, <2>3
  <2>4. QED
    BY <2>2, <2>3
<1>17. CASE Step
  BY <1>8, <1>10, <1>11, <1>12, <1>14, <1>15, <1>16, <1>17 DEF Step
<1>18. ASSUME NEW type, NEW arg, Send(type, arg)
       PROVE  BundleOK'
  BY <1>1, <1>18 DEF Send, repo, harness, counts
<1>19. ASSUME NEW edit \in UserEdits, UserCommits(edit)
       PROVE  BundleOK'
  BY <1>1, <1>19 DEF UserCommits, harness, counts
<1>20. CASE Pull \/ Push \/ UNCHANGED vars
  BY <1>1, <1>20 DEF Pull, Push, vars, repo, harness, counts
<1>21. CASE MergeFails
  <2>1. failures' \in Nat /\ failures' > 0
    BY <1>21 DEF MergeFails, BundleOK
  <2>2. QED
    BY <1>21, <2>1, PlanAfterMergeFails DEF BundleOK, JobOK
<1>22. QED
  BY <1>4, <1>5, <1>6, <1>7, <1>17, <1>18, <1>19, <1>20, <1>21
  DEF Next, SendMessage, SendRollback, SendOnce

(* No action announces a commit that cannot be pulled.                     *)
LEMMA AnnouncedStep ==
  ASSUME IInv, [Next]_vars
  PROVE  AnnouncedCanBePulled'
<1> USE DEF IInv
<1>1. /\ Past(bundle) \subseteq Past(bundle)' /\ Past(main) \subseteq Past(main)'
     /\ failures \in Nat /\ HistoryOK
  BY BundleGrows, MainStep DEF BundleOK
<1>2. failures' >= failures /\ failures' \in Nat
  <2>1. CASE UNCHANGED failures
    BY <1>1, <2>1
  <2>2. CASE Fail \/ MergeFails
    BY <1>1, <2>2 DEF Fail, MergeFails
  <2>3. CASE Start \/ Take \/ Exit \/ Crash \/ Push \/ Pull \/ UNCHANGED vars
    BY <2>1, <2>3 DEF Start, Take, TakeMessage, TakeFiles, TakePush, SkipRollback, TakeRollback,
                      Exit, Crash, Push, Pull, vars, counts
  <2>4. ASSUME NEW type, NEW arg, Send(type, arg)
        PROVE  UNCHANGED failures
    BY <2>4 DEF Send, counts
  <2>5. ASSUME NEW edit \in UserEdits, UserCommits(edit)
        PROVE  UNCHANGED failures
    BY <2>5 DEF UserCommits, counts
  <2>6. CASE Step
    BY <2>1, <2>6 DEF Step, Work, Copy, Seed, NothingToCommit, Commit, CommitPaths, WriteBundle,
                      UpToDate, FastForward, Merge, Conflict, AbortMerge, RemoveIncoming, Restore,
                      Announce, Handled, Exited, Outside, counts
  <2>7. QED
    BY <2>1, <2>2, <2>3, <2>4, <2>5, <2>6 DEF Next, SendMessage, SendRollback, SendOnce
<1>3. ASSUME UNCHANGED announced
      PROVE  AnnouncedCanBePulled'
  BY <1>1, <1>2, <1>3 DEF AnnouncedCanBePulled
<1>4. CASE Announce
  <2>1. ASSUME NEW e \in announced
        PROVE  e.sha # None => \/ e.sha \in Past(bundle)'
                               \/ e.type = "rolled-back" /\ failures' > 0 /\ e.sha \in Past(main)'
    BY <1>1, <1>2, <2>1 DEF AnnouncedCanBePulled
  <2>2. UNCHANGED <<main, bundle, failures>> /\ up
    BY <1>4 DEF Announce, repo, counts, JobOK, Does
  <2>3. CASE Does("refuse")
    <3>1. announced' = announced \cup
            {[type |-> "local-merge-conflict", arg |-> job.arg, sha |-> None]}
      BY <1>4, <2>3 DEF Announce, Emit, Does
    <3>2. QED
      BY <2>1, <3>1 DEF AnnouncedCanBePulled
  <2>4. CASE Does("announce")
    <3>1. announced' = announced \cup {[type |-> EventType, arg |-> job.arg, sha |-> main]}
      BY <1>4, <2>4 DEF Announce, Emit, Does
    <3>2. main # None => main \in Past(main) /\ main \in Past(main)'
      BY <1>1 DEF Past, HistoryOK, RefsOK, None
    <3>3. job.type # "rollback" => bundle = main
      BY <2>4 DEF BundleOK
    <3>4. job.type # "start" /\ ~Does("bundle")
      BY <2>4, StartSteps DEF Does, JobOK
    <3>5. failures > 0 \/ bundle = main
      BY <2>2, <3>4 DEF BundleOK
    <3>6. job.type = "rollback" => EventType = "rolled-back"
      BY DEF EventType
    <3>7. main # None => \/ main \in Past(bundle)'
                         \/ EventType = "rolled-back" /\ failures' > 0 /\ main \in Past(main)'
      BY <1>1, <2>2, <3>2, <3>3, <3>5, <3>6
    <3>8. QED
      BY <2>1, <3>1, <3>7 DEF AnnouncedCanBePulled
  <2>5. QED
    BY <1>4, <2>3, <2>4 DEF Announce
<1>5. CASE Step /\ ~Announce
  BY <1>3, <1>5 DEF Step, Work, Copy, Seed, NothingToCommit, Commit, CommitPaths, WriteBundle,
                    UpToDate, FastForward, Merge, Conflict, AbortMerge, RemoveIncoming, Restore,
                    Handled, Exited, Outside
<1>6. CASE Start \/ Take \/ Exit \/ Fail \/ MergeFails \/ Crash \/ Push \/ Pull \/ UNCHANGED vars
  BY <1>3, <1>6 DEF Start, Take, TakeMessage, TakeFiles, TakePush, SkipRollback, TakeRollback,
                    Exit, Fail, MergeFails, Crash, Push, Pull, vars
<1>7. ASSUME NEW type, NEW arg, Send(type, arg)
      PROVE  UNCHANGED announced
  BY <1>7 DEF Send
<1>8. ASSUME NEW edit \in UserEdits, UserCommits(edit)
      PROVE  UNCHANGED announced
  BY <1>8 DEF UserCommits
<1>9. QED
  BY <1>3, <1>4, <1>5, <1>6, <1>7, <1>8 DEF Next, SendMessage, SendRollback, SendOnce

LEMMA FlagsStep ==
  ASSUME IInv, [Next]_vars
  PROVE  FlagsOK'
<1>1. CASE Start \/ Crash \/ Exited
  BY <1>1 DEF IInv, FlagsOK, Start, Crash, Exited, user
<1>2. CASE Pull \/ Push
  BY <1>2 DEF IInv, FlagsOK, Pull, Push, harness
<1>3. CASE Take \/ Exit \/ Fail \/ MergeFails \/ UNCHANGED vars
  BY <1>3 DEF IInv, FlagsOK, Take, TakeMessage, TakeFiles, TakePush, SkipRollback, TakeRollback,
              Exit, Fail, MergeFails, vars, harness, user
<1>4. ASSUME NEW type, NEW arg, Send(type, arg)
      PROVE  FlagsOK'
  BY <1>4 DEF IInv, FlagsOK, Send, harness
<1>5. ASSUME NEW edit \in UserEdits, UserCommits(edit)
      PROVE  FlagsOK'
  BY <1>5 DEF IInv, FlagsOK, UserCommits, harness
<1>6. CASE Step /\ ~Exited
  BY <1>6 DEF IInv, FlagsOK, Step, Work, Copy, Seed, NothingToCommit, Commit, CommitPaths,
              WriteBundle, UpToDate, FastForward, Merge, Conflict, AbortMerge, RemoveIncoming,
              Restore, Announce, Handled, Outside, user
<1>7. QED
  BY <1>1, <1>2, <1>3, <1>4, <1>5, <1>6 DEF Next, SendMessage, SendRollback, SendOnce

-----------------------------------------------------------------------------
LEMMA IInvInit == Init => IInv
<1> SUFFICES ASSUME Init PROVE IInv
  OBVIOUS
<1> USE DEF Init, None
<1>1. HistoryOK /\ RefsOK
  BY DEF HistoryOK, RefsOK, Past
<1>2. PushesOK /\ TodoOK
  BY DEF PushesOK, TodoOK
<1>3. JobOK
  BY DEF JobOK, PlanOK, Names, Idle, Job
<1>4. FilesOK
  BY DEF FilesOK, Clean, Does, Then
<1>5. RemovalOK /\ BundleOK /\ FlagsOK
  BY DEF RemovalOK, BundleOK, FlagsOK, Does, Then
<1>6. NoEditIsLost /\ PushIsKept /\ AnnouncedCanBePulled
  BY DEF NoEditIsLost, PushIsKept, AnnouncedCanBePulled
<1>7. QED
  BY <1>1, <1>2, <1>3, <1>4, <1>5, <1>6 DEF IInv

LEMMA IInvStep == IInv /\ [Next]_vars => IInv'
<1> SUFFICES ASSUME IInv, [Next]_vars PROVE IInv'
  OBVIOUS
<1>1. QED
  BY HistoryStep, RefsStep, PushesStep, TodoStep, JobStep, FilesStep, RemovalStep, EditsStep,
     KeptPushStep, BundleStep, AnnouncedStep, FlagsStep DEF IInv

(***************************************************************************)
(* The repository and what is pending for it keep their shape: every ref   *)
(* names a commit, every commit carries its ancestors, main.bundle is      *)
(* behind main, and the harness is at a step of GitSync, with a clean      *)
(* working tree wherever it is about to be overwritten.                    *)
(***************************************************************************)
THEOREM RepositoryKeepsItsShape == Spec => []IInv
<1>1. QED
  BY IInvInit, IInvStep, PTL DEF Spec

(***************************************************************************)
(* Every ref names a commit, no commit has conflict markers, and what an   *)
(* event announces can be pulled, but for a rollback after a bundle that   *)
(* could not be written (GitSync.start, commitChanges, rollback).          *)
(***************************************************************************)
THEOREM EventsCanBePulled == Spec => []RepositoryOK
<1>1. ASSUME IInv PROVE RepositoryOK
  <2> USE <1>1 DEF IInv
  <2>1. \A c \in 1..Len(commits) : commits[c] \in CommitSet
    BY DEF HistoryOK
  <2>2. ASSUME NEW c \in Commits
        PROVE  /\ commits[c].parent \in Commits \cup {None}
               /\ commits[c].turn \in Turns \cup {None}
               /\ commits[c].files \subseteq Edits /\ c \in commits[c].line
               /\ commits[c].line \subseteq commits[c].past /\ commits[c].past \subseteq 1..c
    BY <2>1 DEF HistoryOK, Commits, None, CommitSet
  <2>3. {main, bundle, clone, fetched} \subseteq Commits \cup {None}
    BY DEF RefsOK, HistoryOK, Commits, None
  <2>4. files \subseteq Edits \cup {Markers} /\ written \subseteq Edits
    BY TreesAreEdits DEF FilesOK
  <2>5. {merging, up, pulled} \subseteq BOOLEAN /\ (~up => plan = <<>>)
    BY DEF FilesOK, JobOK, FlagsOK
  <2>6. \A p \in DOMAIN pushes : pushes[p].commit \in Commits
    BY DEF PushesOK, HistoryOK, Commits
  <2>7. QED
    BY <2>2, <2>3, <2>4, <2>5, <2>6 DEF GitTypeOK, RepositoryOK
<1>2. QED
  BY <1>1, RepositoryKeepsItsShape, PTL

(***************************************************************************)
(* No edit made in the session is lost, whatever crashes, fails, conflicts *)
(* or is rolled back (GitSync.commitChanges before every merge, reset and  *)
(* restore).                                                               *)
(***************************************************************************)
THEOREM EditsAreKept == Spec => []NoEditIsLost
<1>1. IInv => NoEditIsLost
  BY DEF IInv
<1>2. QED
  BY <1>1, RepositoryKeepsItsShape, PTL

(***************************************************************************)
(* What the user pushed is deleted only when main.bundle has it or it was  *)
(* refused (GitSync.applyBundle).                                          *)
(***************************************************************************)
THEOREM PushesAreKept == Spec => []PushIsKept
<1>1. IInv => PushIsKept
  BY DEF IInv
<1>2. QED
  BY <1>1, RepositoryKeepsItsShape, PTL

-----------------------------------------------------------------------------
(* A set of numbers up to n that is not empty has a greatest one.          *)
LessThan == {pair \in Nat \X Nat : pair[1] < pair[2]}

LEMMA GreatestNumber ==
  ASSUME NEW n \in Nat, NEW T \in SUBSET (0..n), T # {}
  PROVE  \E x \in T : \A y \in T : y <= x
<1> DEFINE L == {n - x : x \in T}
<1>1. IsWellFoundedOn(LessThan, Nat)
  BY NatLessThanWellFounded DEF OpToRel, LessThan
<1>2. L \subseteq Nat /\ L # {}
  <2>1. \A x \in T : n - x \in Nat
    OBVIOUS
  <2>2. PICK x \in T : TRUE
    OBVIOUS
  <2>3. n - x \in L
    OBVIOUS
  <2>4. QED
    BY <2>1, <2>3
<1>3. PICK l \in L : \A m \in L : ~(<<m, l>> \in LessThan)
  BY <1>1, <1>2, WFMin
<1>4. PICK x \in T : l = n - x
  BY <1>3
<1>5. ASSUME NEW y \in T PROVE y <= x
  <2>1. n - y \in Nat /\ n - x \in Nat /\ ~(n - y < n - x)
    BY <1>2, <1>3, <1>4 DEF LessThan
  <2>2. QED
    BY <2>1
<1>6. QED
  BY <1>5

-----------------------------------------------------------------------------
(***************************************************************************)
(* A turn's edit in the history.                                           *)
(***************************************************************************)
Numbers == 1..Len(commits)
Has(c, t) == t \in commits[c].files

(* The edit is in the history of c, but not in its files any more.         *)
Knows(c, t)   == \E k \in Past(c) : Has(k, t)
Dropped(c, t) == Knows(c, t) /\ t \notin Files(c)

(* Commits that have the edit have it from a common ancestor.              *)
OneOrigin(t) ==
  \A c, d \in Numbers :
    Has(c, t) /\ Has(d, t) => \E k \in Past(c) \cap Past(d) : Has(k, t)

(* What comes after a commit that dropped the edit does not have it.       *)
StaysDropped(t) ==
  \A c \in Numbers : \A d \in Past(c) : Dropped(d, t) => ~Has(c, t)

(* The edit comes to the clone from main.                                  *)
MainKnows(t) == \A c \in Numbers : Has(c, t) => Knows(main, t)

(* No commit has the edit.                                                 *)
Nowhere(t) == \A c \in Numbers : ~Has(c, t)

(* An edit that is only in the working tree was not committed before.      *)
FilesKnow(t) == t \in files => t \in Files(main) \/ Nowhere(t)

(***************************************************************************)
(* The commits of the session are in the history of main, one after the    *)
(* other, those of the clone in the clone's.                               *)
(***************************************************************************)
Sides(S) ==
  /\ S \subseteq Past(main) /\ Numbers \ S \subseteq Past(clone)
  /\ \A c, d \in Numbers : (c \in S <=> d \in S) /\ c < d => c \in Past(d)

SidesOK == \E S \in SUBSET Numbers : Sides(S)

-----------------------------------------------------------------------------
(* Ancestors of ancestors are ancestors.                                   *)
LEMMA Ancestors ==
  ASSUME HistoryOK, NEW c \in 0..Len(commits), NEW d \in Past(c)
  PROVE  /\ c \in Numbers /\ d \in Numbers /\ d <= c /\ d \in Past(d) /\ c \in Past(c)
         /\ Past(d) \subseteq Past(c) /\ Past(d) = commits[d].past /\ Files(d) = commits[d].files
<1>1. c \in Numbers /\ Past(c) = commits[c].past
  BY DEF Past, None, Numbers
<1>2. d \in 1..c /\ d \in Nat
  BY <1>1 DEF HistoryOK, Numbers
<1>3. Len(commits) \in Nat
  BY DEF HistoryOK
<1>4. d \in Numbers /\ d <= c
  BY <1>1, <1>2, <1>3 DEF Numbers
<1>5. Past(d) = commits[d].past /\ Files(d) = commits[d].files
  BY <1>4 DEF Past, Files, None, Numbers
<1>6. QED
  BY <1>1, <1>4, <1>5 DEF HistoryOK, Numbers

(* Best common ancestors of one side are the same.                         *)
LEMMA SameSide ==
  ASSUME HistoryOK, NEW a \in 0..Len(commits), NEW b \in 0..Len(commits),
         NEW S \in SUBSET Numbers, Sides(S),
         NEW p \in Bases(a, b), NEW q \in Bases(a, b), p \in S <=> q \in S
  PROVE  p = q
<1>1. /\ p \in Past(a) \cap Past(b) /\ q \in Past(a) \cap Past(b)
      /\ \A d \in Past(a) \cap Past(b) : p \in Past(d) => p = d
      /\ \A d \in Past(a) \cap Past(b) : q \in Past(d) => q = d
  BY DEF Bases
<1>2. p \in Numbers /\ q \in Numbers
  BY <1>1, Ancestors
<1>3. p \in Nat /\ q \in Nat
  BY <1>2 DEF Numbers
<1>4. p < q => p = q
  BY <1>1, <1>2 DEF Sides
<1>5. q < p => p = q
  BY <1>1, <1>2 DEF Sides
<1>6. QED
  BY <1>3, <1>4, <1>5

(* Two commits have two best common ancestors at most.                     *)
LEMMA TwoBases ==
  ASSUME HistoryOK, SidesOK, NEW a \in 0..Len(commits), NEW b \in 0..Len(commits),
         NEW p \in Bases(a, b), NEW q \in Bases(a, b), NEW r \in Bases(a, b)
  PROVE  p = q \/ p = r \/ q = r
<1>1. PICK S \in SUBSET Numbers : Sides(S)
  BY DEF SidesOK
<1>2. (p \in S <=> q \in S) => p = q
  BY <1>1, SameSide
<1>3. (p \in S <=> r \in S) => p = r
  BY <1>1, SameSide
<1>4. (q \in S <=> r \in S) => q = r
  BY <1>1, SameSide
<1>5. QED
  BY <1>2, <1>3, <1>4

(* Where one side dropped the edit and the other has it, a best common     *)
(* ancestor has it.                                                        *)
LEMMA BaseHas ==
  ASSUME HistoryOK, NEW a \in 0..Len(commits), NEW b \in 0..Len(commits), NEW t,
         OneOrigin(t), StaysDropped(t), Dropped(a, t), t \in Files(b)
  PROVE  \E p \in Bases(a, b) : t \in Files(p)
<1>1. PICK k \in Past(a) : Has(k, t)
  BY DEF Dropped, Knows
<1>2. b \in Numbers /\ Has(b, t)
  BY DEF Files, None, Numbers, Has
<1>3. k \in Numbers /\ Past(k) \subseteq Past(a)
  BY <1>1, Ancestors
<1>4. PICK o \in Past(k) \cap Past(b) : Has(o, t)
  BY <1>1, <1>2, <1>3 DEF OneOrigin
<1> DEFINE X == {c \in Past(a) \cap Past(b) : o \in Past(c)}
<1>5. o \in X
  BY <1>3, <1>4, Ancestors
<1>6. X \subseteq 0..Len(commits) /\ Len(commits) \in Nat
  BY Ancestors DEF Numbers, HistoryOK
<1>7. PICK p \in X : \A c \in X : c <= p
  BY <1>5, <1>6, GreatestNumber
<1>8. p \in Past(a) /\ p \in Past(b) /\ o \in Past(p) /\ p \in Numbers
  BY <1>7, Ancestors
<1>9. ASSUME NEW d \in Past(a) \cap Past(b), p \in Past(d)
      PROVE  p = d
  <2>1. d \in Numbers /\ Past(p) \subseteq Past(d) /\ p <= d
    BY <1>9, <1>6, Ancestors DEF Numbers
  <2>2. d \in X
    BY <1>8, <2>1
  <2>3. d <= p
    BY <1>7, <2>2
  <2>4. QED
    BY <1>8, <2>1, <2>3 DEF Numbers
<1>10. p \in Bases(a, b)
  BY <1>8, <1>9 DEF Bases
<1>11. Knows(p, t)
  BY <1>4, <1>8 DEF Knows
<1>12. ~Dropped(p, t)
  BY <1>2, <1>8 DEF StaysDropped
<1>13. QED
  BY <1>10, <1>11, <1>12 DEF Dropped

(* A merge does not bring back what one side dropped.                      *)
LEMMA MergeDrops ==
  ASSUME HistoryOK, SidesOK, NEW a \in 0..Len(commits), NEW b \in 0..Len(commits), NEW t,
         OneOrigin(t), StaysDropped(t), Dropped(a, t), t \in Files(b),
         NEW tree \in Merged(a, b)
  PROVE  t \notin tree
<1>1. PICK base \in BaseTrees(a, b) : tree = ThreeWay(base, Files(a), Files(b))
  BY DEF Merged
<1>2. SUFFICES t \in base
  BY <1>1 DEF ThreeWay, Dropped
<1>3. PICK p \in Bases(a, b) : t \in Files(p)
  BY BaseHas
<1>4. b \in Numbers /\ Has(b, t)
  BY DEF Files, None, Numbers, Has
<1>5. CASE base \in {Files(c) : c \in {d \in Bases(a, b) : Bases(a, b) = {d}}}
  BY <1>3, <1>5
<1>6. ASSUME NEW x \in Bases(a, b), NEW y \in Bases(a, b), x < y, NEW z \in Bases(x, y),
             base = ThreeWay(Files(z), Files(x), Files(y))
      PROVE  t \in base
  <2>1. /\ x \in Past(b) /\ y \in Past(b) /\ z \in Past(x) /\ z \in Past(y)
        /\ x \in Numbers /\ y \in Numbers /\ z \in Numbers /\ Files(z) = commits[z].files
    <3>1. x \in Past(b) /\ y \in Past(b)
      BY DEF Bases
    <3>2. z \in Past(x) /\ z \in Past(y)
      BY DEF Bases
    <3>3. x \in Numbers /\ y \in Numbers
      BY <3>1, Ancestors
    <3>4. x \in 0..Len(commits)
      BY <3>3 DEF Numbers
    <3>5. z \in Numbers /\ Files(z) = commits[z].files
      BY <3>2, <3>4, Ancestors
    <3>6. QED
      BY <3>1, <3>2, <3>3, <3>5
  <2>2. x # y
    BY <1>6, <2>1 DEF Numbers
  <2>3. p = x \/ p = y
    BY <2>2, TwoBases
  <2>4. t \notin Files(x) => t \notin Files(z)
    BY <1>4, <2>1 DEF StaysDropped, Dropped, Knows, Has
  <2>5. t \notin Files(y) => t \notin Files(z)
    BY <1>4, <2>1 DEF StaysDropped, Dropped, Knows, Has
  <2>6. QED
    BY <1>3, <1>6, <2>3, <2>4, <2>5 DEF ThreeWay
<1>7. QED
  BY <1>5, <1>6 DEF BaseTrees

(* It does not matter which side is merged into which.                     *)
LEMMA MergeIsSymmetric ==
  ASSUME NEW a, NEW b
  PROVE  Merged(a, b) = Merged(b, a)
<1>1. Bases(a, b) = Bases(b, a)
  BY DEF Bases
<1>2. BaseTrees(a, b) = BaseTrees(b, a)
  BY <1>1 DEF BaseTrees
<1>3. \A base : ThreeWay(base, Files(a), Files(b)) = ThreeWay(base, Files(b), Files(a))
  BY DEF ThreeWay
<1>4. QED
  BY <1>2, <1>3 DEF Merged

(* A merge has what both dropped or lack on neither side.                  *)
LEMMA MergeKeepsDropped ==
  ASSUME HistoryOK, SidesOK, NEW a \in 0..Len(commits), NEW b \in 0..Len(commits), NEW t,
         OneOrigin(t), StaysDropped(t), NEW tree \in Merged(a, b)
  PROVE  /\ Dropped(a, t) \/ Dropped(b, t) => t \notin tree
         /\ t \in tree => t \in Files(a) \/ t \in Files(b)
<1>1. t \in tree => t \in Files(a) \/ t \in Files(b)
  BY DEF Merged, ThreeWay
<1>2. ASSUME Dropped(a, t) PROVE t \notin tree
  <2>1. CASE t \in Files(b)
    BY <1>2, <2>1, MergeDrops
  <2>2. CASE t \notin Files(b)
    BY <1>1, <1>2, <2>2 DEF Dropped
  <2>3. QED
    BY <2>1, <2>2
<1>3. ASSUME Dropped(b, t) PROVE t \notin tree
  <2>1. CASE t \in Files(a)
    BY <1>3, <2>1, MergeDrops, MergeIsSymmetric
  <2>2. CASE t \notin Files(a)
    BY <1>1, <1>3, <2>2 DEF Dropped
  <2>3. QED
    BY <2>1, <2>2
<1>4. QED
  BY <1>1, <1>2, <1>3


-----------------------------------------------------------------------------
(***************************************************************************)
(* What a step adds to the history: nothing, or one commit.                *)
(***************************************************************************)
Added(first, second, turn, tree) ==
  /\ HistoryOK' /\ Kept
  /\ Len(commits') = Newest /\ Newest \in Nat \ {0}
  /\ commits'[Newest].parent = first /\ commits'[Newest].turn = turn
  /\ commits'[Newest].past = {Newest} \cup Past(first) \cup Past(second)
  /\ commits'[Newest].files = tree

LEMMA NewIsAdded ==
  ASSUME HistoryOK, NEW first \in 0..Len(commits), NEW second \in 0..Len(commits),
         NEW turn \in Turns \cup {None}, NEW tree \in SUBSET Edits,
         NewCommit(first, second, turn, tree)
  PROVE  Added(first, second, turn, tree)
<1>1. /\ HistoryOK' /\ Kept /\ Len(commits') = Newest /\ Newest \in Nat \ {0}
      /\ commits'[Newest].past = {Newest} \cup Past(first) \cup Past(second)
      /\ commits'[Newest].files = tree
  BY NewCommitIs
<1>2. commits'[Newest].parent = first /\ commits'[Newest].turn = turn
  BY DEF NewCommit, Newest, HistoryOK
<1>3. QED
  BY <1>1, <1>2 DEF Added

(* The commits before and after.                                           *)
LEMMA AddedIs ==
  ASSUME HistoryOK, NEW first, NEW second, NEW turn, NEW tree, NEW t, NEW n,
         Added(first, second, turn, tree), n = Newest
  PROVE  /\ Numbers' = Numbers \cup {n} /\ n \notin 0..Len(commits)
         /\ n \in Numbers' /\ Numbers \subseteq Numbers'
         /\ \A c \in 0..Len(commits) : Past(c)' = Past(c) /\ Files(c)' = Files(c)
         /\ \A c \in Numbers : Has(c, t)' = Has(c, t)
         /\ Past(n)' = {n} \cup Past(first) \cup Past(second)
         /\ Files(n)' = tree /\ (Has(n, t)' <=> t \in tree)
<1>1. Len(commits) \in Nat /\ Len(commits') = Len(commits) + 1 /\ Newest = Len(commits) + 1
  BY DEF Added, Newest, HistoryOK
<1>2. /\ Numbers' = Numbers \cup {n} /\ n \notin 0..Len(commits)
      /\ n \in Numbers' /\ Numbers \subseteq Numbers'
  BY <1>1 DEF Numbers
<1>3. \A c \in 0..Len(commits) : Past(c)' = Past(c) /\ Files(c)' = Files(c)
  BY KeptRefs DEF Added
<1>4. \A c \in Numbers : Has(c, t)' = Has(c, t)
  BY DEF Added, Kept, Numbers, Has
<1>5. n # None
  BY <1>1 DEF None
<1>6. /\ Past(n)' = {n} \cup Past(first) \cup Past(second)
      /\ Files(n)' = tree /\ (Has(n, t)' <=> t \in tree)
  BY <1>5 DEF Added, Past, Files, Has
<1>7. QED
  BY <1>2, <1>3, <1>4, <1>6

LEMMA NewestIs ==
  ASSUME HistoryOK, NEW first, NEW second, NEW turn, NEW tree, NEW t,
         Added(first, second, turn, tree)
  PROVE  \E n : /\ n = Newest /\ Numbers' = Numbers \cup {n} /\ n \notin 0..Len(commits)
                /\ n \in Past(n)' /\ (Has(n, t)' <=> t \in tree)
                /\ commits'[n].parent = first /\ commits'[n].turn = turn
<1>1. PICK n : n = Newest
  OBVIOUS
<1>2. Len(commits) \in Nat /\ Len(commits') = Len(commits) + 1 /\ n = Len(commits) + 1
  BY <1>1 DEF Added, Newest, HistoryOK
<1>3. Numbers' = Numbers \cup {n} /\ n \notin 0..Len(commits) /\ n # None
  BY <1>2 DEF Numbers, None
<1>4. n \in Past(n)' /\ (Has(n, t)' <=> t \in tree)
  BY <1>1, <1>3 DEF Added, Past, Has
<1>5. commits'[n].parent = first /\ commits'[n].turn = turn
  BY <1>1 DEF Added
<1>6. QED
  BY <1>1, <1>3, <1>4, <1>5

(* A commit that brings nothing back and has nothing from elsewhere.       *)
LEMMA AddedKeepsHistory ==
  ASSUME HistoryOK, NEW first \in 0..Len(commits), NEW second \in 0..Len(commits),
         NEW turn, NEW tree, NEW t, Added(first, second, turn, tree),
         OneOrigin(t), StaysDropped(t),
         Dropped(first, t) \/ Dropped(second, t) => t \notin tree,
         t \in tree =>
           t \in Files(first) \/ t \in Files(second) \/ \A c \in Numbers : ~Has(c, t)
  PROVE  OneOrigin(t)' /\ StaysDropped(t)'
<1>0. PICK n : n = Newest
  OBVIOUS
<1>1. /\ Numbers' = Numbers \cup {n} /\ n \notin 0..Len(commits)
      /\ n \in Numbers' /\ Numbers \subseteq Numbers'
      /\ \A c \in 0..Len(commits) : Past(c)' = Past(c) /\ Files(c)' = Files(c)
      /\ \A c \in Numbers : Has(c, t)' = Has(c, t)
      /\ Past(n)' = {n} \cup Past(first) \cup Past(second)
      /\ Files(n)' = tree /\ (Has(n, t)' <=> t \in tree)
  BY <1>0, AddedIs
<1>2. Numbers \subseteq 0..Len(commits)
  BY DEF Numbers
<1>3. \A c \in 0..Len(commits) : Past(c) \subseteq Numbers
  BY Ancestors
<1>4. \A c \in 0..Len(commits) : Dropped(c, t)' = Dropped(c, t)
  BY <1>1, <1>3 DEF Dropped, Knows
<1>5. ASSUME NEW c \in Numbers, Has(c, t), t \in tree
      PROVE  \E k \in Past(c)' \cap Past(n)' : Has(k, t)'
  <2>1. PICK d \in {first, second} : t \in Files(d)
    BY <1>5
  <2>2. d \in Numbers /\ Has(d, t)
    BY <2>1 DEF Files, None, Numbers, Has
  <2>3. PICK k \in Past(c) \cap Past(d) : Has(k, t)
    BY <1>5, <2>2 DEF OneOrigin
  <2>4. QED
    BY <1>1, <1>2, <1>3, <2>1, <2>3
<1>6. OneOrigin(t)'
  <2>1. ASSUME NEW c \in Numbers', NEW d \in Numbers', Has(c, t)', Has(d, t)'
        PROVE  \E k \in Past(c)' \cap Past(d)' : Has(k, t)'
    <3>1. CASE c \in Numbers /\ d \in Numbers
      <4>1. PICK k \in Past(c) \cap Past(d) : Has(k, t)
        BY <1>1, <2>1, <3>1 DEF OneOrigin
      <4>2. QED
        BY <1>1, <1>2, <1>3, <3>1, <4>1
    <3>2. CASE c \in Numbers /\ d = n
      BY <1>1, <1>5, <2>1, <3>2
    <3>3. CASE c = n /\ d \in Numbers
      BY <1>1, <1>5, <2>1, <3>3
    <3>4. CASE c = n /\ d = n
      BY <1>1, <2>1, <3>4
    <3>5. QED
      BY <1>1, <3>1, <3>2, <3>3, <3>4
  <2>2. QED
    BY <2>1 DEF OneOrigin
<1>7. StaysDropped(t)'
  <2>1. ASSUME NEW c \in Numbers', NEW d \in Past(c)', Dropped(d, t)'
        PROVE  ~Has(c, t)'
    <3>1. CASE c \in Numbers
      <4>1. d \in Past(c) /\ d \in 0..Len(commits)
        <5>1. c \in 0..Len(commits)
          BY <1>2, <3>1
        <5>2. Past(c)' = Past(c) /\ Past(c) \subseteq Numbers
          BY <1>1, <1>3, <5>1
        <5>3. QED
          BY <1>2, <5>2
      <4>2. Dropped(d, t)
        BY <1>4, <2>1, <4>1
      <4>3. QED
        BY <1>1, <3>1, <4>1, <4>2 DEF StaysDropped
    <3>2. CASE c = n /\ d = n
      BY <1>1, <2>1, <3>2 DEF Dropped
    <3>3. ASSUME c = n, NEW p \in {first, second}, d \in Past(p)
          PROVE  ~Has(c, t)'
      <4>1. p \in Numbers /\ d \in Numbers /\ p \in Past(p) /\ Past(d) \subseteq Past(p)
        BY <3>3, Ancestors
      <4>2. Dropped(d, t)
        BY <1>2, <1>4, <2>1, <4>1
      <4>3. ~Has(p, t)
        BY <3>3, <4>1, <4>2 DEF StaysDropped
      <4>4. t \notin Files(p)
        BY <4>1, <4>3 DEF Files, Has
      <4>5. Dropped(p, t)
        BY <4>1, <4>2, <4>4 DEF Dropped, Knows
      <4>6. QED
        BY <1>1, <3>3, <4>5
    <3>4. QED
      BY <1>1, <2>1, <3>1, <3>2, <3>3
  <2>2. QED
    BY <2>1 DEF StaysDropped
<1>8. QED
  BY <1>6, <1>7

(***************************************************************************)
(* Every action adds one commit on main or on the clone's main, or none.   *)
(***************************************************************************)
CommitsAll   == Added(main, None, TurnId, files)
CommitsAFile ==
  \E file \in AddedFiles : Added(main, None, None, Files(main) \cup {file})
Merges ==
  /\ Does("merge") /\ UNCHANGED clone
  /\ files' \in Merged(main, Theirs) /\ Added(main, Theirs, None, files')
Pulls ==
  \E tree \in Merged(clone, bundle) : Added(clone, bundle, None, tree)
UserAdds(edit) == Added(clone, None, None, Files(clone) \cup {edit})

OnMain  == main' = Newest /\ UNCHANGED clone
OnClone == clone' = Newest /\ UNCHANGED <<main, files>>

LEMMA StepAdds ==
  ASSUME IInv, [Next]_vars
  PROVE  \/ UNCHANGED commits
         \/ (Seed \/ Commit) /\ OnMain /\ UNCHANGED files /\ CommitsAll
         \/ CommitPaths /\ OnMain /\ UNCHANGED files /\ CommitsAFile
         \/ Merge /\ OnMain /\ Merges
         \/ Pull /\ OnClone /\ Pulls
         \/ OnClone /\ \E edit \in UserEdits : UserCommits(edit) /\ UserAdds(edit)
<1> USE DEF IInv
<1>1. /\ None \in 0..Len(commits) /\ main \in 0..Len(commits) /\ clone \in 0..Len(commits)
      /\ bundle \in 0..Len(commits) /\ None \in Turns \cup {None}
      /\ Files(main) \subseteq Edits /\ Files(clone) \subseteq Edits
  BY TreesAreEdits DEF RefsOK
<1>2. CASE Seed \/ Commit
  <2>1. files \in SUBSET Edits /\ TurnId \in Turns \cup {None}
    BY <1>2, NotMerging DEF Seed, Commit, Does, TurnId, JobOK, Names
  <2>2. NewCommit(main, None, TurnId, files)
    <3>1. CASE Commit
      BY <3>1 DEF Commit
    <3>2. CASE Seed
      BY <3>2, SeedStep DEF Seed, FilesOK, TurnId, JobOK
    <3>3. QED
      BY <1>2, <3>1, <3>2
  <2>3. CommitsAll
    BY <1>1, <2>1, <2>2, NewIsAdded DEF CommitsAll
  <2>4. OnMain /\ UNCHANGED files
    BY <1>2 DEF Seed, Commit, OnMain, Outside, user
  <2>5. QED
    BY <1>2, <2>3, <2>4
<1>3. CASE CommitPaths
  <2>1. CASE job.arg \in Files(main)
    BY <1>3, <2>1 DEF CommitPaths, repo
  <2>2. CASE job.arg \notin Files(main)
    <3>1. job.arg \in AddedFiles
      BY <1>3, CopyStep DEF CommitPaths, JobOK, Names
    <3>2. /\ NewCommit(main, None, None, Files(main) \cup {job.arg})
          /\ OnMain /\ UNCHANGED files
      BY <1>3, <2>2 DEF CommitPaths, OnMain, Outside, user
    <3>3. Files(main) \cup {job.arg} \in SUBSET Edits
      BY <1>1, <3>1, EditsAreNumbers
    <3>4. CommitsAFile
      BY <1>1, <3>1, <3>2, <3>3, NewIsAdded DEF CommitsAFile
    <3>5. QED
      BY <1>3, <3>2, <3>4
  <2>3. QED
    BY <2>1, <2>2
<1>4. CASE Merge
  <2>1. Theirs \in 0..Len(commits) /\ files' \in SUBSET Edits
    BY <1>4, TheirsIsThere, MergeEffect DEF Merge, Diverged
  <2>2. /\ NewCommit(main, Theirs, None, files') /\ files' \in Merged(main, Theirs)
        /\ Does("merge") /\ OnMain
    BY <1>4 DEF Merge, Diverged, OnMain, Outside, user
  <2>3. Added(main, Theirs, None, files')
    BY <1>1, <2>1, <2>2, NewIsAdded
  <2>4. QED
    BY <1>4, <2>2, <2>3 DEF Merges, OnMain
<1>5. CASE Pull
  <2>1. UNCHANGED <<main, files>>
    BY <1>5 DEF Pull
  <2>2. ASSUME ~UNCHANGED commits
        PROVE  OnClone /\ Pulls
    <3>1. PICK tree \in Merged(clone, bundle) : NewCommit(clone, bundle, None, tree)
      BY <1>5, <2>2 DEF Pull
    <3>2. clone' = Newest
      BY <1>5, <2>2 DEF Pull
    <3>3. tree \in SUBSET Edits
      BY <1>1, MergedTrees
    <3>4. Added(clone, bundle, None, tree)
      BY <1>1, <3>1, <3>3, NewIsAdded
    <3>5. QED
      BY <2>1, <3>2, <3>4 DEF OnClone, Pulls
  <2>3. QED
    BY <1>5, <2>2
<1>6. ASSUME NEW edit \in UserEdits, UserCommits(edit)
      PROVE  OnClone /\ UserAdds(edit)
  <2>1. NewCommit(clone, None, None, Files(clone) \cup {edit}) /\ OnClone
    BY <1>6 DEF UserCommits, OnClone
  <2>2. Files(clone) \cup {edit} \in SUBSET Edits
    BY <1>1, EditsAreNumbers
  <2>3. QED
    BY <1>1, <2>1, <2>2, NewIsAdded DEF UserAdds
<1>7. CASE Start \/ Take \/ Exit \/ Fail \/ MergeFails \/ Crash \/ Push \/ UNCHANGED vars
  BY <1>7 DEF Start, Take, TakeMessage, TakeFiles, TakePush, SkipRollback, TakeRollback,
              Exit, Fail, MergeFails, Crash, Push, vars, repo
<1>8. ASSUME NEW type, NEW arg, Send(type, arg)
      PROVE  UNCHANGED commits
  BY <1>8 DEF Send, repo
<1>9. CASE Step /\ ~(Seed \/ Commit \/ CommitPaths \/ Merge)
  BY <1>9 DEF Step, Work, Copy, NothingToCommit, WriteBundle, UpToDate, FastForward, Conflict,
              AbortMerge, RemoveIncoming, Restore, Announce, Handled, Exited, repo
<1>10. QED
  BY <1>2, <1>3, <1>4, <1>5, <1>6, <1>7, <1>8, <1>9
  DEF Next, Step, SendMessage, SendRollback, SendOnce

-----------------------------------------------------------------------------
(* What the files of a commit have, the commit has.                        *)
LEMMA FilesHave ==
  ASSUME HistoryOK, NEW c \in 0..Len(commits), NEW t, t \in Files(c)
  PROVE  c \in Numbers /\ Has(c, t) /\ Knows(c, t)
<1>1. c \in Numbers /\ Has(c, t)
  BY DEF Files, None, Numbers, Has
<1>2. c \in Past(c)
  BY <1>1 DEF HistoryOK, Past, None, Numbers
<1>3. QED
  BY <1>1, <1>2 DEF Knows

LEMMA NothingBeforeNone == Past(None) = {} /\ Files(None) = {}
BY DEF Past, Files

(* No action brings a dropped edit back, nor makes it from nothing.        *)
LEMMA HistoryStaysDropped ==
  ASSUME IInv, [Next]_vars, SidesOK, NEW t \in Turns,
         OneOrigin(t), StaysDropped(t), FilesKnow(t)
  PROVE  OneOrigin(t)' /\ StaysDropped(t)'
<1> USE DEF IInv
<1>1. /\ None \in 0..Len(commits) /\ main \in 0..Len(commits) /\ clone \in 0..Len(commits)
      /\ bundle \in 0..Len(commits) /\ ~Dropped(None, t)
  BY TreesAreEdits, NothingBeforeNone DEF RefsOK, Dropped, Knows
<1>2. CASE UNCHANGED commits
  BY <1>2 DEF OneOrigin, StaysDropped, Dropped, Knows, Numbers, Has, Past, Files
<1>3. CASE CommitsAll
  <2>1. Dropped(main, t) => t \notin files
    BY <1>1, Ancestors DEF Dropped, Knows, FilesKnow, Nowhere
  <2>2. t \in files => t \in Files(main) \/ \A c \in Numbers : ~Has(c, t)
    BY DEF FilesKnow, Nowhere
  <2>3. QED
    BY <1>1, <1>3, <2>1, <2>2, AddedKeepsHistory DEF CommitsAll
<1>4. CASE CommitsAFile
  <2>1. PICK file \in AddedFiles : Added(main, None, None, Files(main) \cup {file})
    BY <1>4 DEF CommitsAFile
  <2>2. t \in Files(main) \cup {file} <=> t \in Files(main)
    BY GitAssumption
  <2>3. QED
    BY <1>1, <2>1, <2>2, AddedKeepsHistory DEF Dropped
<1>5. CASE Merges
  <2>1. Theirs \in 0..Len(commits)
    BY <1>5, TheirsIsThere DEF Merges
  <2>2. /\ Dropped(main, t) \/ Dropped(Theirs, t) => t \notin files'
        /\ t \in files' => t \in Files(main) \/ t \in Files(Theirs)
    BY <1>1, <1>5, <2>1, MergeKeepsDropped DEF Merges
  <2>3. QED
    BY <1>1, <1>5, <2>1, <2>2, AddedKeepsHistory DEF Merges
<1>6. CASE Pulls
  <2>1. PICK tree \in Merged(clone, bundle) : Added(clone, bundle, None, tree)
    BY <1>6 DEF Pulls
  <2>2. /\ Dropped(clone, t) \/ Dropped(bundle, t) => t \notin tree
        /\ t \in tree => t \in Files(clone) \/ t \in Files(bundle)
    BY <1>1, MergeKeepsDropped
  <2>3. QED
    BY <1>1, <2>1, <2>2, AddedKeepsHistory
<1>7. ASSUME NEW edit \in UserEdits, UserAdds(edit)
      PROVE  OneOrigin(t)' /\ StaysDropped(t)'
  <2>1. t \in Files(clone) \cup {edit} <=> t \in Files(clone)
    BY GitAssumption
  <2>2. QED
    BY <1>1, <1>7, <2>1, AddedKeepsHistory DEF UserAdds, Dropped
<1>8. QED
  BY <1>2, <1>3, <1>4, <1>5, <1>6, <1>7, StepAdds

(* What a new commit has: of the user's, what some commit has.             *)
LEMMA NewCommits ==
  ASSUME IInv, [Next]_vars, NEW t \in Turns, ~UNCHANGED commits
  PROVE  \E n : \E first \in 0..Len(commits) : \E turn \in Turns \cup {None} :
           /\ n = Newest /\ Numbers' = Numbers \cup {n} /\ n \notin 0..Len(commits)
           /\ n \in Past(n)'
           /\ commits'[n].parent = first /\ commits'[n].turn = turn
           /\ \/ main' = n /\ first = main
              \/ turn = None /\ UNCHANGED <<main, files>> /\ (Has(n, t)' => ~Nowhere(t))
           /\ turn # None => Commit /\ turn = TurnId
           /\ \/ Has(n, t)' => ~Nowhere(t)
              \/ (Seed \/ Commit) /\ (Has(n, t)' <=> t \in files)
<1> USE DEF IInv
<1>1. /\ None \in 0..Len(commits) /\ main \in 0..Len(commits) /\ clone \in 0..Len(commits)
      /\ bundle \in 0..Len(commits)
  BY TreesAreEdits DEF RefsOK
<1>2. ASSUME NEW first, NEW second, NEW turn, NEW tree, Added(first, second, turn, tree)
      PROVE  \E n : /\ n = Newest /\ Numbers' = Numbers \cup {n} /\ n \notin 0..Len(commits)
                    /\ n \in Past(n)' /\ (Has(n, t)' <=> t \in tree)
                    /\ commits'[n].parent = first /\ commits'[n].turn = turn
  BY <1>2, NewestIs
<1>3. \A c \in 0..Len(commits) : t \in Files(c) => ~Nowhere(t)
  BY FilesHave DEF Nowhere
<1>4. CASE (Seed \/ Commit) /\ OnMain /\ CommitsAll
  <2>1. TurnId \in Turns \cup {None} /\ (TurnId # None => Commit)
    BY <1>4, SeedStep DEF TurnId, Seed, Commit, JobOK, Names
  <2>2. PICK n : /\ n = Newest /\ Numbers' = Numbers \cup {n} /\ n \notin 0..Len(commits)
                 /\ n \in Past(n)' /\ (Has(n, t)' <=> t \in files)
                 /\ commits'[n].parent = main /\ commits'[n].turn = TurnId
    BY <1>2, <1>4 DEF CommitsAll
  <2>3. main' = n
    BY <1>4, <2>2 DEF OnMain
  <2>4. QED
    BY <1>1, <1>4, <2>1, <2>2, <2>3
<1>5. CASE OnMain /\ CommitsAFile
  <2>1. PICK file \in AddedFiles : Added(main, None, None, Files(main) \cup {file})
    BY <1>5 DEF CommitsAFile
  <2>2. PICK n : /\ n = Newest /\ Numbers' = Numbers \cup {n} /\ n \notin 0..Len(commits)
                 /\ n \in Past(n)' /\ (Has(n, t)' <=> t \in Files(main) \cup {file})
                 /\ commits'[n].parent = main /\ commits'[n].turn = None
    BY <1>2, <2>1
  <2>3. Has(n, t)' => ~Nowhere(t)
    BY <1>1, <1>3, <2>2, GitAssumption
  <2>4. main' = n
    BY <1>5, <2>2 DEF OnMain
  <2>5. QED
    BY <1>1, <2>2, <2>3, <2>4
<1>6. CASE OnMain /\ Merges
  <2>1. Theirs \in 0..Len(commits)
    BY <1>6, TheirsIsThere DEF Merges
  <2>2. PICK n : /\ n = Newest /\ Numbers' = Numbers \cup {n} /\ n \notin 0..Len(commits)
                 /\ n \in Past(n)' /\ (Has(n, t)' <=> t \in files')
                 /\ commits'[n].parent = main /\ commits'[n].turn = None
    BY <1>2, <1>6 DEF Merges
  <2>3. t \in files' => t \in Files(main) \/ t \in Files(Theirs)
    BY <1>6 DEF Merges, Merged, ThreeWay
  <2>4. Has(n, t)' => ~Nowhere(t)
    BY <1>1, <1>3, <2>1, <2>2, <2>3
  <2>5. main' = n
    BY <1>6, <2>2 DEF OnMain
  <2>6. QED
    BY <1>1, <2>2, <2>4, <2>5
<1>7. CASE OnClone /\ Pulls
  <2>1. PICK tree \in Merged(clone, bundle) : Added(clone, bundle, None, tree)
    BY <1>7 DEF Pulls
  <2>2. PICK n : /\ n = Newest /\ Numbers' = Numbers \cup {n} /\ n \notin 0..Len(commits)
                 /\ n \in Past(n)' /\ (Has(n, t)' <=> t \in tree)
                 /\ commits'[n].parent = clone /\ commits'[n].turn = None
    BY <1>2, <2>1
  <2>3. t \in tree => t \in Files(clone) \/ t \in Files(bundle)
    BY DEF Merged, ThreeWay
  <2>4. Has(n, t)' => ~Nowhere(t)
    BY <1>1, <1>3, <2>2, <2>3
  <2>5. QED
    BY <1>1, <1>7, <2>2, <2>4 DEF OnClone
<1>8. ASSUME NEW edit \in UserEdits, OnClone, UserAdds(edit)
      PROVE  \E n : /\ n = Newest /\ Numbers' = Numbers \cup {n} /\ n \notin 0..Len(commits)
                    /\ n \in Past(n)' /\ (Has(n, t)' => ~Nowhere(t))
                    /\ commits'[n].parent = clone /\ commits'[n].turn = None
                    /\ UNCHANGED <<main, files>>
  <2>1. PICK n : /\ n = Newest /\ Numbers' = Numbers \cup {n} /\ n \notin 0..Len(commits)
                 /\ n \in Past(n)' /\ (Has(n, t)' <=> t \in Files(clone) \cup {edit})
                 /\ commits'[n].parent = clone /\ commits'[n].turn = None
    BY <1>2, <1>8 DEF UserAdds
  <2>2. Has(n, t)' => ~Nowhere(t)
    BY <1>1, <1>3, <2>1, GitAssumption
  <2>3. QED
    BY <1>8, <2>1, <2>2 DEF OnClone
<1>9. CASE OnClone /\ \E edit \in UserEdits : UserAdds(edit)
  BY <1>1, <1>8, <1>9
<1>10. QED
  BY <1>4, <1>5, <1>6, <1>7, <1>9, StepAdds

-----------------------------------------------------------------------------
(* The clone's main only grows.                                            *)
LEMMA CloneGrows ==
  ASSUME IInv, [Next]_vars, UNCHANGED commits
  PROVE  Past(clone) \subseteq Past(clone)'
<1> USE DEF IInv
<1>1. ASSUME NEW first, NEW second, NEW turn, NEW tree
      PROVE  ~NewCommit(first, second, turn, tree)
  BY DEF NewCommit, Newest, HistoryOK
<1>2. CASE UNCHANGED clone
  BY <1>2 DEF Past
<1>3. CASE Pull
  <2>1. UNCHANGED clone \/ (clone' = bundle /\ (clone = None \/ clone \in Past(bundle)))
    BY <1>1, <1>3 DEF Pull
  <2>2. ASSUME clone' = bundle
        PROVE  Past(clone)' = Past(bundle)
    BY <2>2 DEF Past
  <2>3. clone \in Past(bundle) => Past(clone) \subseteq Past(bundle)
    BY Ancestors DEF RefsOK
  <2>4. clone = None => Past(clone) = {}
    BY DEF Past
  <2>5. QED
    BY <1>2, <2>1, <2>2, <2>3, <2>4
<1>4. CASE Start \/ Take \/ Exit \/ Fail \/ MergeFails \/ Crash \/ Push \/ UNCHANGED vars
  BY <1>2, <1>4 DEF Start, Take, TakeMessage, TakeFiles, TakePush, SkipRollback, TakeRollback,
                    Exit, Fail, MergeFails, Crash, Push, vars, user
<1>5. ASSUME NEW type, NEW arg, Send(type, arg)
      PROVE  UNCHANGED clone
  BY <1>5 DEF Send
<1>6. ASSUME NEW edit \in UserEdits, UserCommits(edit)
      PROVE  FALSE
  BY <1>1, <1>6 DEF UserCommits
<1>7. CASE Step
  BY <1>2, <1>7 DEF Step, Work, Copy, Seed, NothingToCommit, Commit, CommitPaths, WriteBundle,
                    UpToDate, FastForward, Merge, Conflict, AbortMerge, RemoveIncoming, Restore,
                    Announce, Handled, Exited, Outside, user
<1>8. QED
  BY <1>2, <1>3, <1>4, <1>5, <1>6, <1>7 DEF Next, SendMessage, SendRollback, SendOnce

(* A new commit continues main or the clone's main.                        *)
LEMMA SidesAdded ==
  ASSUME HistoryOK, SidesOK, main \in 0..Len(commits), clone \in 0..Len(commits),
         NEW first, NEW second, NEW turn, NEW tree, Added(first, second, turn, tree),
         \/ main' = Newest /\ UNCHANGED clone /\ first = main
         \/ clone' = Newest /\ UNCHANGED main /\ first = clone
  PROVE  SidesOK'
<1>1. PICK S \in SUBSET Numbers : Sides(S)
  BY DEF SidesOK
<1>2. PICK n : n = Newest
  OBVIOUS
<1>3. Len(commits) \in Nat /\ Len(commits') = Len(commits) + 1 /\ n = Len(commits) + 1
  BY <1>2 DEF Added, Newest, HistoryOK
<1>4. /\ Numbers' = Numbers \cup {n} /\ n \notin Numbers /\ n # None
      /\ \A c \in Numbers : c < n /\ ~(n < c) /\ c # None
      /\ ~(n < n)
  BY <1>3 DEF Numbers, None
<1>5. Past(n)' = {n} \cup Past(first) \cup Past(second)
  BY <1>2, <1>4 DEF Added, Past
<1>6. \A c \in 0..Len(commits) : Past(c)' = Past(c)
  BY KeptRefs DEF Added
<1>7. \A c \in Numbers : Past(c)' = Past(c)
  BY <1>6 DEF Numbers
<1>8. CASE main' = n /\ UNCHANGED clone /\ first = main
  <2> DEFINE R == S \cup {n}
  <2>1. Past(main)' = Past(n)' /\ Past(clone)' = Past(clone)
    BY <1>6, <1>8 DEF Past
  <2>2. R \subseteq Past(main)' /\ Numbers' \ R \subseteq Past(clone)'
    BY <1>1, <1>4, <1>5, <1>8, <2>1 DEF Sides
  <2>3. ASSUME NEW c \in Numbers', NEW d \in Numbers', c \in R <=> d \in R, c < d
        PROVE  c \in Past(d)'
    <3>1. CASE d \in Numbers
      BY <1>1, <1>4, <1>7, <2>3, <3>1 DEF Sides
    <3>2. CASE d = n
      BY <1>1, <1>4, <1>5, <1>8, <2>3, <3>2 DEF Sides
    <3>3. QED
      BY <1>4, <3>1, <3>2
  <2>4. R \in SUBSET Numbers' /\ Sides(R)'
    BY <1>4, <2>2, <2>3 DEF Sides
  <2>5. QED
    BY <2>4 DEF SidesOK
<1>9. CASE clone' = n /\ UNCHANGED main /\ first = clone
  <2>1. Past(clone)' = Past(n)' /\ Past(main)' = Past(main)
    BY <1>6, <1>9 DEF Past
  <2>2. S \subseteq Past(main)' /\ Numbers' \ S \subseteq Past(clone)'
    BY <1>1, <1>4, <1>5, <1>9, <2>1 DEF Sides
  <2>3. ASSUME NEW c \in Numbers', NEW d \in Numbers', c \in S <=> d \in S, c < d
        PROVE  c \in Past(d)'
    <3>1. CASE d \in Numbers
      BY <1>1, <1>4, <1>7, <2>3, <3>1 DEF Sides
    <3>2. CASE d = n
      BY <1>1, <1>4, <1>5, <1>9, <2>3, <3>2 DEF Sides
    <3>3. QED
      BY <1>4, <3>1, <3>2
  <2>4. S \in SUBSET Numbers' /\ Sides(S)'
    BY <1>4, <2>2, <2>3 DEF Sides
  <2>5. QED
    BY <2>4 DEF SidesOK
<1>10. QED
  BY <1>2, <1>8, <1>9

LEMMA SidesStep ==
  ASSUME IInv, [Next]_vars, SidesOK
  PROVE  SidesOK'
<1> USE DEF IInv
<1>1. CASE UNCHANGED commits
  <2>1. PICK S \in SUBSET Numbers : Sides(S)
    BY DEF SidesOK
  <2>2. Past(main) \subseteq Past(main)' /\ Past(clone) \subseteq Past(clone)'
    BY <1>1, MainStep, CloneGrows
  <2>3. Numbers' = Numbers /\ \A d \in Numbers : Past(d)' = Past(d)
    BY <1>1 DEF Numbers, Past
  <2>4. Sides(S)'
    BY <2>1, <2>2, <2>3 DEF Sides
  <2>5. QED
    BY <2>3, <2>4 DEF SidesOK
<1>2. main \in 0..Len(commits) /\ clone \in 0..Len(commits)
  BY DEF RefsOK
<1>3. CASE OnMain /\ CommitsAll
  BY <1>2, <1>3, SidesAdded DEF OnMain, CommitsAll
<1>4. CASE OnMain /\ CommitsAFile
  BY <1>2, <1>4, SidesAdded DEF OnMain, CommitsAFile
<1>5. CASE OnMain /\ Merges
  BY <1>2, <1>5, SidesAdded DEF OnMain, Merges
<1>6. CASE OnClone /\ Pulls
  BY <1>2, <1>6, SidesAdded DEF OnClone, Pulls
<1>7. ASSUME NEW edit \in UserEdits, OnClone, UserAdds(edit)
      PROVE  SidesOK'
  BY <1>2, <1>7, SidesAdded DEF OnClone, UserAdds
<1>8. QED
  BY <1>1, <1>3, <1>4, <1>5, <1>6, <1>7, StepAdds

-----------------------------------------------------------------------------
(* What the commits there are have, they keep.                             *)
LEMMA OldCommits ==
  ASSUME IInv, [Next]_vars, NEW t
  PROVE  /\ Numbers \subseteq Numbers' /\ Numbers \subseteq 0..Len(commits)
         /\ \A c \in 0..Len(commits) : Past(c)' = Past(c) /\ Files(c)' = Files(c)
         /\ \A c \in Numbers : Has(c, t)' = Has(c, t) /\ commits'[c] = commits[c]
<1>1. HistoryOK /\ HistoryOK' /\ Kept
  BY HistoryStep DEF IInv
<1>2. Numbers \subseteq Numbers' /\ Numbers \subseteq 0..Len(commits)
  BY <1>1 DEF HistoryOK, Kept, Numbers
<1>3. \A c \in 0..Len(commits) : Past(c)' = Past(c) /\ Files(c)' = Files(c)
  BY <1>1, KeptRefs
<1>4. \A c \in Numbers : Has(c, t)' = Has(c, t) /\ commits'[c] = commits[c]
  BY <1>1 DEF Kept, Numbers, Has
<1>5. QED
  BY <1>2, <1>3, <1>4

LEMMA MainKnowsStep ==
  ASSUME IInv, [Next]_vars, NEW t \in Turns, MainKnows(t)
  PROVE  MainKnows(t)'
<1>1. Knows(main, t) => Knows(main, t)'
  BY CommittedStays DEF Knows, Has, Committed
<1>2. ASSUME NEW c \in Numbers, Has(c, t)'
      PROVE  Knows(main, t)'
  BY <1>1, <1>2, OldCommits DEF MainKnows
<1>3. CASE UNCHANGED commits
  BY <1>2, <1>3 DEF MainKnows, Numbers
<1>4. CASE ~UNCHANGED commits
  <2>1. PICK n : \E first \in 0..Len(commits) : \E turn \in Turns \cup {None} :
           /\ n = Newest /\ Numbers' = Numbers \cup {n} /\ n \notin 0..Len(commits)
           /\ n \in Past(n)'
           /\ commits'[n].parent = first /\ commits'[n].turn = turn
           /\ \/ main' = n /\ first = main
              \/ turn = None /\ UNCHANGED <<main, files>> /\ (Has(n, t)' => ~Nowhere(t))
           /\ turn # None => Commit /\ turn = TurnId
           /\ \/ Has(n, t)' => ~Nowhere(t)
              \/ (Seed \/ Commit) /\ (Has(n, t)' <=> t \in files)
    BY <1>4, NewCommits
  <2>2. ~Nowhere(t) => Knows(main, t)
    BY DEF Nowhere, MainKnows
  <2>3. main' = n => Past(main)' = Past(n)'
    BY DEF Past
  <2>4. main' = n /\ Has(n, t)' => Knows(main, t)'
    BY <2>1, <2>3 DEF Knows
  <2>5. Has(n, t)' => Knows(main, t)'
    BY <1>1, <2>1, <2>2, <2>4
  <2>6. QED
    BY <1>2, <2>1, <2>5 DEF MainKnows
<1>5. QED
  BY <1>3, <1>4

(* An edit comes out of nowhere when the working tree that has it is       *)
(* committed.                                                              *)
LEMMA NowhereStep ==
  ASSUME IInv, [Next]_vars, NEW t \in Turns, Nowhere(t)
  PROVE  Nowhere(t)' \/ ((Seed \/ Commit) /\ t \in files)
<1>1. ASSUME NEW c \in Numbers
      PROVE  ~Has(c, t)'
  BY OldCommits DEF Nowhere
<1>2. CASE UNCHANGED commits
  BY <1>1, <1>2 DEF Nowhere, Numbers
<1>3. CASE ~UNCHANGED commits
  <2>1. PICK n : /\ Numbers' = Numbers \cup {n}
                 /\ \/ Has(n, t)' => ~Nowhere(t)
                    \/ (Seed \/ Commit) /\ (Has(n, t)' <=> t \in files)
    BY <1>3, NewCommits
  <2>2. QED
    BY <1>1, <2>1 DEF Nowhere
<1>4. QED
  BY <1>2, <1>3

-----------------------------------------------------------------------------
(***************************************************************************)
(* Where the working tree and main get an edit from.                       *)
(***************************************************************************)
(* A turn's edit is made while its message is worked on.                   *)
At(t) == plan # <<>> /\ job.type = "message" /\ job.arg = t

LEMMA FilesCome ==
  ASSUME IInv, [Next]_vars, NEW t \in Turns, t \in files'
  PROVE  \/ t \in files
         \/ Work /\ At(t)
         \/ Restore /\ t \in Files(job.source)
         \/ AbortMerge /\ t \in Files(main)
         \/ FastForward /\ t \in Files(Theirs)
         \/ Merge
<1> USE DEF IInv
<1>1. CASE Work
  BY <1>1, WorkStep DEF Work, At, Does, JobOK
<1>2. CASE Copy
  BY <1>2, CopyStep, GitAssumption DEF Copy, JobOK, Names
<1>3. CASE Conflict
  BY <1>3, GitAssumption DEF Conflict, Markers
<1>4. CASE AbortMerge \/ FastForward \/ Merge \/ Restore
  BY <1>4 DEF AbortMerge, FastForward, Restore
<1>5. CASE Step /\ ~(Work \/ Copy \/ Conflict \/ AbortMerge \/ FastForward \/ Merge \/ Restore)
  BY <1>5 DEF Step, Seed, NothingToCommit, Commit, CommitPaths, WriteBundle, UpToDate,
              RemoveIncoming, Announce, Handled, Exited, repo
<1>6. CASE Start \/ Take \/ Exit \/ Fail \/ MergeFails \/ Crash \/ Push \/ Pull \/ UNCHANGED vars
  BY <1>6 DEF Start, Take, TakeMessage, TakeFiles, TakePush, SkipRollback, TakeRollback,
              Exit, Fail, MergeFails, Crash, Push, Pull, vars, repo
<1>7. ASSUME NEW type, NEW arg, Send(type, arg)
      PROVE  UNCHANGED files
  BY <1>7 DEF Send, repo
<1>8. ASSUME NEW edit \in UserEdits, UserCommits(edit)
      PROVE  UNCHANGED files
  BY <1>8 DEF UserCommits
<1>9. QED
  BY <1>1, <1>2, <1>3, <1>4, <1>5, <1>6, <1>7, <1>8 DEF Next, SendMessage, SendRollback, SendOnce

LEMMA MainComes ==
  ASSUME IInv, [Next]_vars, NEW t \in Turns, t \in Files(main)'
  PROVE  \/ t \in Files(main)
         \/ (Seed \/ Commit) /\ t \in files
         \/ FastForward /\ t \in Files(Theirs)
         \/ Merge /\ t \in files'
<1> USE DEF IInv
<1>1. CASE UNCHANGED main
  <2>1. Files(main)' = Files(main)
    BY <1>1, OldCommits DEF RefsOK, Files
  <2>2. QED
    BY <2>1
<1>2. CASE Seed \/ Commit \/ Merge
  BY <1>2, CommitEffect, MergeEffect DEF MainIsNew
<1>3. CASE CommitPaths
  BY <1>1, <1>3, PathsEffect, CopyStep, GitAssumption DEF MainIsNew, CommitPaths, JobOK, Names, repo
<1>4. CASE FastForward
  BY <1>4 DEF FastForward, Files
<1>5. CASE Step /\ ~(Seed \/ Commit \/ Merge \/ CommitPaths \/ FastForward)
  BY <1>1, <1>5 DEF Step, Work, Copy, NothingToCommit, WriteBundle, UpToDate, Conflict, AbortMerge,
                    RemoveIncoming, Restore, Announce, Handled, Exited, repo
<1>6. CASE Start \/ Take \/ Exit \/ Fail \/ MergeFails \/ Crash \/ Push \/ Pull \/ UNCHANGED vars
  BY <1>1, <1>6 DEF Start, Take, TakeMessage, TakeFiles, TakePush, SkipRollback, TakeRollback,
                    Exit, Fail, MergeFails, Crash, Push, Pull, vars, repo
<1>7. ASSUME NEW type, NEW arg, Send(type, arg)
      PROVE  UNCHANGED main
  BY <1>7 DEF Send, repo
<1>8. ASSUME NEW edit \in UserEdits, UserCommits(edit)
      PROVE  UNCHANGED main
  BY <1>8 DEF UserCommits
<1>9. QED
  BY <1>1, <1>2, <1>3, <1>4, <1>5, <1>6, <1>7, <1>8 DEF Next, SendMessage, SendRollback, SendOnce

(* A merge brings nothing back that main dropped.                          *)
LEMMA MergeBringsNothingBack ==
  ASSUME IInv, SidesOK, NEW t \in Turns, OneOrigin(t), StaysDropped(t), MainKnows(t),
         t \notin Files(main)
  PROVE  /\ FastForward => t \notin Files(Theirs)
         /\ Merge => t \notin files'
<1> USE DEF IInv
<1>1. Does("merge") => Theirs \in Numbers /\ Theirs \in 0..Len(commits)
  BY TheirsIsThere DEF Numbers
<1>2. main \in 0..Len(commits)
  BY DEF RefsOK
<1>3. CASE Knows(main, t)
  <2>1. Dropped(main, t)
    BY <1>3 DEF Dropped
  <2>2. ASSUME FastForward PROVE t \notin Files(Theirs)
    <3>1. Theirs \in Numbers /\ main \in Past(Theirs) /\ Theirs \in 0..Len(commits)
      BY <1>1, <2>2 DEF FastForward
    <3>2. ~Has(Theirs, t)
      BY <2>1, <3>1 DEF StaysDropped
    <3>3. QED
      BY <3>1, <3>2, FilesHave
  <2>3. ASSUME Merge PROVE t \notin files'
    <3>1. Theirs \in 0..Len(commits) /\ files' \in Merged(main, Theirs)
      BY <1>1, <2>3 DEF Merge, Diverged
    <3>2. QED
      BY <1>2, <2>1, <3>1, MergeKeepsDropped
  <2>4. QED
    BY <2>2, <2>3
<1>4. CASE ~Knows(main, t)
  <2>1. \A c \in Numbers : ~Has(c, t)
    BY <1>4 DEF MainKnows
  <2>2. Does("merge") => t \notin Files(Theirs)
    BY <1>1, <2>1, FilesHave
  <2>3. Merge => Does("merge") /\ (t \in files' => t \in Files(main) \/ t \in Files(Theirs))
    BY DEF Merge, Diverged, Merged, ThreeWay
  <2>4. QED
    BY <2>2, <2>3 DEF FastForward
<1>5. QED
  BY <1>3, <1>4

-----------------------------------------------------------------------------
(***************************************************************************)
(* Each turn is worked on once: its message is sent, waits, and is taken.  *)
(***************************************************************************)
Msg(t)     == [type |-> "message", arg |-> t]
Is(cmd, t) == cmd.type = "message" /\ cmd.arg = t
Queued(t)  == \E i \in 1..Len(todo) : Is(todo[i], t)
Before(t)  == Msg(t) \notin sent \/ Queued(t)
Unseen(t)  == \A c \in Numbers : ~Has(c, t) /\ commits[c].turn # t

QueuedOnce(t) ==
  /\ Queued(t) => Msg(t) \in sent
  /\ \A i, j \in 1..Len(todo) : Is(todo[i], t) /\ Is(todo[j], t) => i = j

NotYet(t) == Before(t) => ~At(t) /\ t \notin files /\ Unseen(t)

Working(t) ==
  /\ At(t) /\ Does("work") => t \notin files /\ Unseen(t)
  /\ At(t) /\ Does("commit") => Unseen(t)

TurnOnce(t) == QueuedOnce(t) /\ NotYet(t) /\ Working(t)

(* A turn's commit is the first that has its edit.                         *)
ParentLacks(t) ==
  \A c \in Numbers : commits[c].turn = t => t \notin Files(commits[c].parent)

(* A step of the user, or none.                                            *)
Quiet == UNCHANGED <<harness, main, files, announced>>

LEMMA Actors ==
  ASSUME [Next]_vars
  PROVE  Start \/ Take \/ Exit \/ Step \/ Fail \/ MergeFails \/ Crash \/ Quiet
<1>1. ASSUME NEW type, NEW arg, Send(type, arg)
      PROVE  Quiet
  BY <1>1 DEF Send, repo, Quiet
<1>2. ASSUME NEW edit \in UserEdits, UserCommits(edit)
      PROVE  Quiet
  BY <1>2 DEF UserCommits, Quiet
<1>3. Push \/ Pull \/ UNCHANGED vars => Quiet
  BY DEF Push, Pull, vars, repo, Quiet
<1>4. QED
  BY <1>1, <1>2, <1>3 DEF Next, SendMessage, SendRollback, SendOnce

(* A job that goes on has fewer steps left.                                *)
LEMMA PlanMoves ==
  ASSUME PlanOK, plan # <<>>
  PROVE  Tail(plan) # plan
<1>1. CASE job.type = "start"
  BY <1>1 DEF PlanOK, StartPlans
<1>2. CASE job.type = "message"
  BY <1>2 DEF PlanOK, MessagePlans
<1>3. CASE job.type = "add-files"
  BY <1>3 DEF PlanOK, FilesPlans
<1>4. CASE job.type = "apply-bundle"
  BY <1>4 DEF PlanOK, PushPlans
<1>5. CASE job.type = "rollback"
  BY <1>5 DEF PlanOK, RollbackPlans
<1>6. CASE job.type = "exit"
  BY <1>6 DEF PlanOK, ExitPlans
<1>7. QED
  BY <1>1, <1>2, <1>3, <1>4, <1>5, <1>6 DEF PlanOK

LEMMA QuietCommitsNothing ==
  ASSUME IInv, UNCHANGED plan
  PROVE  ~Work /\ ~Seed /\ ~Commit
BY PlanMoves DEF IInv, JobOK, Work, Seed, Commit, Does, GoOn

(* How a turn comes to be worked on, and goes on.                          *)
LEMMA AtComes ==
  ASSUME IInv, [Next]_vars, NEW t \in Turns, At(t)'
  PROVE  \/ /\ todo # <<>> /\ Is(Head(todo), t) /\ todo' = Tail(todo)
            /\ UNCHANGED <<repo, sent>>
            /\ plan' = <<"work", "commit", "bundle", "announce">>
         \/ At(t) /\ Step /\ GoOn
         \/ At(t) /\ Quiet
<1> USE DEF IInv
<1>1. CASE TakeMessage
  BY <1>1 DEF TakeMessage, Takes, Begin, Job, At, Is, user
<1>2. CASE TakeFiles \/ TakePush \/ SkipRollback \/ TakeRollback \/ Start \/ Exit
  BY <1>2 DEF TakeFiles, TakePush, SkipRollback, TakeRollback, Start, Exit, Begin, Job, At
<1>3. CASE Fail
  <2>1. At(t)
    BY <1>3 DEF Fail, At
  <2>2. plan \in MessagePlans
    BY <2>1 DEF At, JobOK, PlanOK
  <2>3. plan[Len(plan)] = "announce"
    BY <2>2 DEF MessagePlans
  <2>4. QED
    BY <1>3, <2>3 DEF Fail, At
<1>4. CASE Crash
  BY <1>4 DEF Crash, At
<1>5. CASE Quiet
  BY <1>5 DEF Quiet, harness, At
<1>6. CASE NothingToCommit
  BY <1>6 DEF NothingToCommit, Outside, Does, At
<1>7. CASE CommitPaths
  BY <1>7, CopyStep DEF CommitPaths, Outside, At, JobOK
<1>8. CASE Conflict
  BY <1>8, MergeStep DEF Conflict, Diverged, Outside, At, JobOK
<1>9. CASE Step /\ ~(NothingToCommit \/ CommitPaths \/ Conflict)
  BY <1>9 DEF Step, Work, Copy, Seed, Commit, WriteBundle, UpToDate, FastForward, Merge, Diverged,
              AbortMerge, RemoveIncoming, Restore, Announce, Handled, Exited, Outside, Does, At
<1>10. CASE MergeFails
  BY <1>10, PlanAfterMergeFails DEF MergeFails, At, JobOK
<1>11. QED
  BY <1>1, <1>2, <1>3, <1>4, <1>5, <1>6, <1>7, <1>8, <1>9, <1>10, Actors DEF Take

(* A turn is unseen until its working tree is committed.                   *)
LEMMA UnseenStep ==
  ASSUME IInv, [Next]_vars, NEW t \in Turns, Unseen(t),
         ~(Commit /\ At(t)), ~((Seed \/ Commit) /\ t \in files)
  PROVE  Unseen(t)'
<1>1. Nowhere(t)'
  BY NowhereStep DEF Unseen, Nowhere
<1>2. ASSUME NEW c \in Numbers
      PROVE  commits'[c].turn # t
  BY OldCommits DEF Unseen
<1>3. CASE UNCHANGED commits
  BY <1>1, <1>2, <1>3 DEF Unseen, Nowhere, Numbers
<1>4. CASE ~UNCHANGED commits
  <2>1. PICK n : \E turn \in Turns \cup {None} :
                   /\ Numbers' = Numbers \cup {n} /\ commits'[n].turn = turn
                   /\ turn # None => Commit /\ turn = TurnId
    BY <1>4, NewCommits
  <2>2. t # None
    BY GitAssumption DEF None
  <2>3. Commit /\ TurnId = t => At(t)
    BY <2>2 DEF Commit, Does, TurnId, At
  <2>4. commits'[n].turn # t
    BY <2>1, <2>2, <2>3
  <2>5. QED
    BY <1>1, <1>2, <2>1, <2>4 DEF Unseen, Nowhere
<1>5. QED
  BY <1>3, <1>4

(* How the commands that wait change.                                      *)
Asked(t) == t \in Turns /\ \E cmd \in sent : cmd.type = "rollback" /\ cmd.arg = t

LEMMA TodoMoves ==
  ASSUME IInv, [Next]_vars
  PROVE  \/ UNCHANGED <<todo, sent>>
         \/ todo # <<>> /\ todo' = Tail(todo) /\ UNCHANGED sent
         \/ \E cmd \in CommandSet :
              /\ todo' = Append(todo, cmd) /\ sent \subseteq sent'
              /\ cmd.type = "rollback" => Asked(cmd.arg)'
              /\ cmd.type = "message" =>
                   Msg(cmd.arg) \notin sent /\ sent' = sent \cup {Msg(cmd.arg)}
<1> USE DEF IInv
<1>1. CASE TakeMessage
  BY <1>1 DEF TakeMessage, Takes, user
<1>2. CASE Handled
  <2>1. plan # <<>> /\ job.type # "exit" /\ job.type # "start"
    BY <1>2, HandledStep DEF Handled, Does, JobOK
  <2>2. job.type # "message"
    BY <1>2, HandledStep DEF Handled, JobOK
  <2>3. todo # <<>>
    BY <2>1, <2>2 DEF JobOK, PlanOK
  <2>4. QED
    BY <1>2, <2>3 DEF Handled, user
<1>3. ASSUME NEW type \in {"message", "add-files", "rollback"}, NEW arg \in Nat, Send(type, arg),
             type = "message" => [type |-> type, arg |-> arg] \notin sent,
             type = "rollback" => arg \in Turns
      PROVE  \E cmd \in CommandSet :
               /\ todo' = Append(todo, cmd) /\ sent \subseteq sent'
               /\ cmd.type = "rollback" => Asked(cmd.arg)'
               /\ cmd.type = "message" =>
                    Msg(cmd.arg) \notin sent /\ sent' = sent \cup {Msg(cmd.arg)}
  <2> DEFINE new == [type |-> type, arg |-> arg]
  <2>1. new \in CommandSet /\ new.type = type /\ new.arg = arg
    BY DEF CommandSet
  <2>2. todo' = Append(todo, new) /\ sent' = sent \cup {new}
    BY <1>3 DEF Send
  <2>3. type = "rollback" => Asked(arg)'
    BY <1>3, <2>1, <2>2 DEF Asked
  <2>4. type = "message" => Msg(arg) = new
    BY DEF Msg
  <2>5. QED
    BY <1>3, <2>1, <2>2, <2>3, <2>4
<1>4. ASSUME NEW turn \in Turns, SendMessage(turn)
      PROVE  \E cmd \in CommandSet :
               /\ todo' = Append(todo, cmd) /\ sent \subseteq sent'
               /\ cmd.type = "rollback" => Asked(cmd.arg)'
               /\ cmd.type = "message" =>
                    Msg(cmd.arg) \notin sent /\ sent' = sent \cup {Msg(cmd.arg)}
  <2>1. turn \in Nat /\ Send("message", turn) /\ [type |-> "message", arg |-> turn] \notin sent
    BY <1>4, GitAssumption DEF SendMessage, SendOnce
  <2>2. QED
    BY <1>3, <2>1
<1>5. ASSUME NEW turn \in Turns, SendRollback(turn)
      PROVE  \E cmd \in CommandSet :
               /\ todo' = Append(todo, cmd) /\ sent \subseteq sent'
               /\ cmd.type = "rollback" => Asked(cmd.arg)'
               /\ cmd.type = "message" =>
                    Msg(cmd.arg) \notin sent /\ sent' = sent \cup {Msg(cmd.arg)}
  <2>1. turn \in Nat /\ Send("rollback", turn)
    BY <1>5, GitAssumption DEF SendRollback
  <2>2. QED
    BY <1>3, <2>1
<1>6. ASSUME NEW file \in AddedFiles, SendOnce("add-files", file)
      PROVE  \E cmd \in CommandSet :
               /\ todo' = Append(todo, cmd) /\ sent \subseteq sent'
               /\ cmd.type = "rollback" => Asked(cmd.arg)'
               /\ cmd.type = "message" =>
                    Msg(cmd.arg) \notin sent /\ sent' = sent \cup {Msg(cmd.arg)}
  <2>1. file \in Nat /\ Send("add-files", file)
    BY <1>6, GitAssumption DEF SendOnce
  <2>2. QED
    BY <1>3, <2>1
<1>7. CASE Push
  <2>1. CASE UNCHANGED todo
    BY <1>7, <2>1 DEF Push
  <2>2. CASE ~UNCHANGED todo
    <3> DEFINE new == [type |-> "apply-bundle", arg |-> Len(pushes) + 1]
    <3>1. new \in CommandSet /\ new.type = "apply-bundle"
      BY DEF CommandSet, PushesOK
    <3>2. todo' = Append(todo, new) /\ UNCHANGED sent
      BY <1>7, <2>2 DEF Push
    <3>3. QED
      BY <3>1, <3>2
  <2>3. QED
    BY <2>1, <2>2
<1>8. ASSUME NEW edit \in UserEdits, UserCommits(edit)
      PROVE  UNCHANGED <<todo, sent>>
  BY <1>8 DEF UserCommits
<1>9. CASE Start \/ TakeFiles \/ TakePush \/ SkipRollback \/ TakeRollback \/ Exit \/ Fail \/ MergeFails \/ Crash
           \/ Pull \/ UNCHANGED vars
  BY <1>9 DEF Start, TakeFiles, TakePush, SkipRollback, TakeRollback, Exit, Fail, MergeFails, Crash, Pull,
              vars, user
<1>10. CASE Step /\ ~Handled
  BY <1>10 DEF Step, Work, Copy, Seed, NothingToCommit, Commit, CommitPaths, WriteBundle, UpToDate,
               FastForward, Merge, Conflict, AbortMerge, RemoveIncoming, Restore, Announce, Exited,
               Outside, user
<1>11. QED
  BY <1>1, <1>2, <1>4, <1>5, <1>6, <1>7, <1>8, <1>9, <1>10 DEF Next, Take

(* A message waits once, and never again.                                  *)
LEMMA QueuedStep ==
  ASSUME IInv, [Next]_vars, NEW t \in Turns, QueuedOnce(t)
  PROVE  /\ QueuedOnce(t)' /\ (Before(t)' => Before(t))
         /\ todo # <<>> /\ Is(Head(todo), t) /\ todo' = Tail(todo) /\ UNCHANGED sent => ~Before(t)'
<1> USE DEF IInv, TodoOK
<1>1. CASE UNCHANGED <<todo, sent>>
  <2>1. Queued(t)' = Queued(t)
    BY <1>1 DEF Queued
  <2>2. QueuedOnce(t)' /\ (Before(t)' => Before(t))
    BY <1>1, <2>1 DEF QueuedOnce, Before
  <2>3. todo # <<>> => Tail(todo) # todo
    OBVIOUS
  <2>4. QED
    BY <1>1, <2>2, <2>3
<1>2. CASE todo # <<>> /\ todo' = Tail(todo) /\ UNCHANGED sent
  <2>1. /\ Len(todo) \in Nat /\ Len(todo') = Len(todo) - 1
        /\ \A i \in 1..Len(todo') : todo'[i] = todo[i + 1] /\ i + 1 \in 1..Len(todo)
    BY <1>2
  <2>2. Queued(t)' => Queued(t)
    BY <2>1 DEF Queued
  <2>3. ASSUME NEW i \in 1..Len(todo'), NEW j \in 1..Len(todo'), Is(todo'[i], t), Is(todo'[j], t)
        PROVE  i = j
    <3>1. i + 1 = j + 1
      BY <2>1, <2>3 DEF QueuedOnce
    <3>2. QED
      BY <2>1, <3>1
  <2>4. QueuedOnce(t)' /\ (Before(t)' => Before(t))
    BY <1>2, <2>2, <2>3 DEF QueuedOnce, Before
  <2>5. ASSUME Is(Head(todo), t) PROVE ~Before(t)'
    <3>1. 1 \in 1..Len(todo) /\ Is(todo[1], t)
      BY <1>2, <2>5
    <3>2. ASSUME NEW i \in 1..Len(todo'), Is(todo'[i], t) PROVE FALSE
      <4>1. i + 1 = 1
        BY <2>1, <3>1, <3>2 DEF QueuedOnce
      <4>2. QED
        BY <2>1, <4>1
    <3>3. ~Queued(t)' /\ Msg(t) \in sent'
      BY <1>2, <3>1, <3>2 DEF Queued, QueuedOnce
    <3>4. QED
      BY <3>3 DEF Before
  <2>6. QED
    BY <2>4, <2>5
<1>3. ASSUME NEW cmd \in CommandSet, todo' = Append(todo, cmd), sent \subseteq sent',
             cmd.type = "message" => Msg(cmd.arg) \notin sent /\ sent' = sent \cup {Msg(cmd.arg)}
      PROVE  QueuedOnce(t)' /\ (Before(t)' => Before(t))
  <2>1. /\ Len(todo) \in Nat /\ Len(todo') = Len(todo) + 1 /\ todo'[Len(todo')] = cmd
        /\ \A i \in 1..Len(todo) : todo'[i] = todo[i]
    BY <1>3
  <2>2. Is(cmd, t) => Msg(t) \notin sent /\ Msg(t) \in sent'
    BY <1>3 DEF Is
  <2>3. \A i \in 1..Len(todo') : i \in 1..Len(todo) \/ i = Len(todo')
    BY <2>1
  <2>4. ASSUME NEW i \in 1..Len(todo'), Is(todo'[i], t)
        PROVE  \/ i \in 1..Len(todo) /\ Is(todo[i], t) /\ Queued(t) /\ Msg(t) \in sent
               \/ i = Len(todo') /\ Is(cmd, t)
    BY <2>1, <2>3, <2>4 DEF QueuedOnce, Queued
  <2>5. Queued(t)' => Msg(t) \in sent'
    BY <1>3, <2>2, <2>4 DEF Queued
  <2>6. ASSUME NEW i \in 1..Len(todo'), NEW j \in 1..Len(todo'), Is(todo'[i], t), Is(todo'[j], t)
        PROVE  i = j
    BY <2>2, <2>4, <2>6 DEF QueuedOnce
  <2>7. Queued(t)' => Queued(t) \/ Msg(t) \notin sent
    BY <2>2, <2>4 DEF Queued
  <2>8. QED
    BY <1>3, <2>5, <2>6, <2>7 DEF QueuedOnce, Before
<1>4. ASSUME NEW cmd, todo' = Append(todo, cmd), todo # <<>>
      PROVE  todo' # Tail(todo)
  BY <1>4
<1>5. QED
  BY <1>1, <1>2, <1>3, <1>4, TodoMoves

(* No tree has what no commit has.                                         *)
LEMMA UnseenTrees ==
  ASSUME IInv, NEW t, Unseen(t)
  PROVE  \A c \in 0..Len(commits) : t \notin Files(c)
BY FilesHave DEF Unseen, IInv

LEMMA UnseenFiles ==
  ASSUME IInv, [Next]_vars, NEW t \in Turns, Unseen(t), t \notin files, ~(Work /\ At(t))
  PROVE  t \notin files'
<1> USE DEF IInv
<1>1. t \notin Files(main) /\ t \notin Files(job.source)
  BY UnseenTrees DEF RefsOK, JobOK
<1>2. Does("merge") => t \notin Files(Theirs)
  <2>1. Does("merge") => Theirs \in 0..Len(commits)
    BY TheirsIsThere
  <2>2. QED
    BY <2>1, UnseenTrees
<1>3. Merge => t \notin files'
  BY <1>1, <1>2 DEF Merge, Diverged, Merged, ThreeWay
<1>4. ~(FastForward /\ t \in Files(Theirs))
  BY <1>2 DEF FastForward
<1>5. QED
  BY <1>1, <1>3, <1>4, FilesCome

(* A turn that waits is not worked on, and left no trace.                  *)
LEMMA NotYetStep ==
  ASSUME IInv, [Next]_vars, NEW t \in Turns, TurnOnce(t)
  PROVE  NotYet(t)'
<1>1. SUFFICES ASSUME Before(t)' PROVE ~At(t)' /\ t \notin files' /\ Unseen(t)'
  BY DEF NotYet
<1>2. Before(t) /\ ~At(t) /\ t \notin files /\ Unseen(t)
  BY <1>1, QueuedStep DEF TurnOnce, NotYet
<1>3. ~At(t)'
  BY <1>1, <1>2, QueuedStep, AtComes DEF TurnOnce
<1>4. t \notin files'
  BY <1>2, UnseenFiles
<1>5. Unseen(t)'
  BY <1>2, UnseenStep
<1>6. QED
  BY <1>3, <1>4, <1>5

(* The steps of a turn.                                                    *)
LEMMA MessageSteps ==
  ASSUME PlanOK, plan # <<>>, job.type = "message", GoOn
  PROVE  /\ ~Does("work")'
         /\ Does("commit")' => Does("work")
<1>1. plan \in MessagePlans
  BY DEF PlanOK
<1>2. QED
  BY <1>1, Tails DEF MessagePlans, GoOn, Does

(* A turn is committed once, after its work.                               *)
LEMMA WorkingStep ==
  ASSUME IInv, [Next]_vars, NEW t \in Turns, TurnOnce(t)
  PROVE  Working(t)'
<1>1. SUFFICES ASSUME At(t)'
               PROVE  /\ Does("work")' => t \notin files' /\ Unseen(t)'
                      /\ Does("commit")' => Unseen(t)'
  BY DEF Working
<1>2. CASE /\ todo # <<>> /\ Is(Head(todo), t) /\ todo' = Tail(todo) /\ UNCHANGED <<repo, sent>>
           /\ plan' = <<"work", "commit", "bundle", "announce">>
  <2>1. 1 \in 1..Len(todo) /\ Is(todo[1], t)
    BY <1>2 DEF IInv, TodoOK
  <2>2. Before(t)
    BY <2>1 DEF Before, Queued
  <2>3. t \notin files /\ Unseen(t)
    BY <2>2 DEF TurnOnce, NotYet
  <2>4. t \notin files' /\ Unseen(t)'
    BY <1>2, <2>3 DEF repo, Unseen, Numbers, Has
  <2>5. QED
    BY <2>4
<1>3. CASE At(t) /\ Step /\ GoOn
  <2>1. ~Does("work")' /\ (Does("commit")' => Does("work"))
    BY <1>3, MessageSteps DEF At, IInv, JobOK
  <2>2. ASSUME Does("work") PROVE Unseen(t)'
    <3>1. Unseen(t)
      BY <1>3, <2>2 DEF TurnOnce, Working
    <3>2. ~Commit /\ ~Seed
      BY <2>2 DEF Commit, Seed, Does
    <3>3. QED
      BY <3>1, <3>2, UnseenStep
  <2>3. QED
    BY <2>1, <2>2
<1>4. CASE At(t) /\ Quiet
  <2>1. UNCHANGED <<plan, files>>
    BY <1>4 DEF Quiet, harness
  <2>2. ~Work /\ ~Seed /\ ~Commit
    BY <2>1, QuietCommitsNothing
  <2>3. Does("work")' = Does("work") /\ Does("commit")' = Does("commit")
    BY <2>1 DEF Does
  <2>4. Unseen(t) => Unseen(t)'
    BY <2>2, UnseenStep
  <2>5. QED
    BY <1>4, <2>1, <2>3, <2>4 DEF TurnOnce, Working
<1>5. QED
  BY <1>1, <1>2, <1>3, <1>4, AtComes

LEMMA TurnOnceStep ==
  ASSUME IInv, [Next]_vars, NEW t \in Turns, TurnOnce(t)
  PROVE  TurnOnce(t)'
BY QueuedStep, NotYetStep, WorkingStep DEF TurnOnce

LEMMA ParentLacksStep ==
  ASSUME IInv, [Next]_vars, NEW t \in Turns, TurnOnce(t), ParentLacks(t)
  PROVE  ParentLacks(t)'
<1>1. ASSUME NEW c \in Numbers, commits'[c].turn = t
      PROVE  t \notin Files(commits[c].parent)'
  <2>1. PICK p \in 0..Len(commits) : p = commits[c].parent
    BY DEF IInv, HistoryOK, Numbers
  <2>2. commits'[c] = commits[c] /\ Files(p)' = Files(p)
    BY <2>1, OldCommits
  <2>3. t \notin Files(p)
    BY <1>1, <2>1, <2>2 DEF ParentLacks
  <2>4. p = commits'[c].parent
    BY <2>1, <2>2
  <2>5. QED
    BY <2>2, <2>3, <2>4
<1>2. CASE UNCHANGED commits
  BY <1>1, <1>2 DEF ParentLacks, Numbers
<1>3. CASE ~UNCHANGED commits
  <2>1. PICK n : \E first \in 0..Len(commits) : \E turn \in Turns \cup {None} :
                   /\ Numbers' = Numbers \cup {n}
                   /\ commits'[n].parent = first /\ commits'[n].turn = turn
                   /\ turn = None \/ first = main
                   /\ turn # None => Commit /\ turn = TurnId
    BY <1>3, NewCommits
  <2>2. PICK first \in 0..Len(commits) : \E turn \in Turns \cup {None} :
                   /\ commits'[n].parent = first /\ commits'[n].turn = turn
                   /\ turn = None \/ first = main
                   /\ turn # None => Commit /\ turn = TurnId
    BY <2>1
  <2>3. ASSUME commits'[n].turn = t PROVE t \notin Files(first)'
    <3>1. t # None
      BY GitAssumption DEF None
    <3>2. first = main /\ Commit /\ t = TurnId
      BY <2>2, <2>3, <3>1
    <3>3. At(t) /\ Does("commit")
      BY <3>1, <3>2 DEF Commit, Does, TurnId, At
    <3>4. Unseen(t)
      BY <3>3 DEF TurnOnce, Working
    <3>5. t \notin Files(first) /\ Files(first)' = Files(first)
      BY <3>4, UnseenTrees, OldCommits
    <3>6. QED
      BY <3>5
  <2>4. commits'[n].turn = t => t \notin Files(commits[n].parent)'
    BY <2>2, <2>3
  <2>5. QED
    BY <1>1, <2>1, <2>4 DEF ParentLacks
<1>4. QED
  BY <1>2, <1>3

-----------------------------------------------------------------------------
(***************************************************************************)
(* A rollback restores a tree without the turn's edit.                     *)
(***************************************************************************)
Undoing(t) == plan # <<>> /\ job.type = "rollback" /\ job.arg = t

Restored == <<"commit", "bundle", "announce", "handled">>
Undone   == {<<"bundle", "announce", "handled">>, <<"announce", "handled">>}

RollbackOK(t) ==
  Undoing(t) =>
    /\ t \notin Files(job.source)
    /\ plan # <<"handled">> => \E c \in Numbers : commits[c].turn = t
    /\ plan = Restored => t \notin files
    /\ plan \in Undone => t \notin files /\ t \notin Files(main)

(* No turn is rolled back that the user did not ask for.                   *)
Pending(t) ==
  (\E i \in 1..Len(todo) : todo[i].type = "rollback" /\ todo[i].arg = t) \/ Undoing(t)

SentOK == \A t : Pending(t) => Asked(t)

(* How a rollback comes, and goes on.                                      *)
LEMMA RollbackComes ==
  ASSUME IInv, [Next]_vars, plan' # <<>>, job'.type = "rollback"
  PROVE  \/ SkipRollback
         \/ TakeRollback
         \/ /\ plan # <<>> /\ UNCHANGED job
            /\ Step \/ Quiet \/ plan' = <<"handled">>
<1> USE DEF IInv
<1>1. CASE Start \/ TakeMessage \/ TakeFiles \/ TakePush \/ Exit \/ Crash
  BY <1>1 DEF Start, TakeMessage, TakeFiles, TakePush, Exit, Crash, Begin, Job
<1>2. CASE Fail
  <2>1. plan # <<>> /\ UNCHANGED job
    BY <1>2 DEF Fail
  <2>2. PlanOK' /\ plan' \in {<<"handled">>, <<"exit">>, <<>>}
    BY <1>2, PlanAfterFail DEF JobOK
  <2>3. plan' # <<"exit">>
    BY <2>2 DEF PlanOK, RollbackPlans
  <2>4. QED
    BY <2>1, <2>2, <2>3
<1>3. CASE Quiet
  BY <1>3 DEF Quiet, harness
<1>4. CASE Step
  BY <1>4 DEF Step, Work, Copy, Seed, NothingToCommit, Commit, CommitPaths, WriteBundle, UpToDate,
              FastForward, Merge, Diverged, Conflict, AbortMerge, RemoveIncoming, Restore, Announce,
              Handled, Exited, Outside, Does
<1>5. CASE MergeFails
  BY <1>5, PlanAfterMergeFails DEF MergeFails, JobOK
<1>6. QED
  BY <1>1, <1>2, <1>3, <1>4, <1>5, Actors DEF Take

LEMMA SentStep ==
  ASSUME IInv, [Next]_vars, SentOK
  PROVE  SentOK'
<1> USE DEF IInv, TodoOK
<1>1. SUFFICES ASSUME NEW t, Pending(t)' PROVE Asked(t)'
  BY DEF SentOK
<1>2. Asked(t) => Asked(t)'
  <2>1. sent \subseteq sent'
    BY TodoMoves
  <2>2. QED
    BY <2>1 DEF Asked
<1>3. Pending(t) => Asked(t)
  BY DEF SentOK
<1>4. ASSUME NEW i \in 1..Len(todo'), todo'[i].type = "rollback", todo'[i].arg = t
      PROVE  Asked(t)'
  <2>1. CASE UNCHANGED <<todo, sent>>
    BY <1>2, <1>3, <1>4, <2>1 DEF Pending
  <2>2. CASE todo # <<>> /\ todo' = Tail(todo)
    <3>1. todo'[i] = todo[i + 1] /\ i + 1 \in 1..Len(todo)
      BY <2>2
    <3>2. QED
      BY <1>2, <1>3, <1>4, <3>1 DEF Pending
  <2>3. ASSUME NEW cmd \in CommandSet, todo' = Append(todo, cmd),
               cmd.type = "rollback" => Asked(cmd.arg)'
        PROVE  Asked(t)'
    <3>1. (i \in 1..Len(todo) /\ todo'[i] = todo[i]) \/ todo'[i] = cmd
      BY <2>3
    <3>2. QED
      BY <1>2, <1>3, <1>4, <2>3, <3>1 DEF Pending
  <2>4. QED
    BY <2>1, <2>2, <2>3, TodoMoves
<1>5. ASSUME Undoing(t)'
      PROVE  Asked(t)'
  <2>1. plan' # <<>> /\ job'.type = "rollback" /\ job'.arg = t
    BY <1>5 DEF Undoing
  <2>2. CASE SkipRollback \/ TakeRollback
    <3>1. todo # <<>> /\ Head(todo).type = "rollback" /\ job'.arg = Head(todo).arg
      BY <2>2 DEF SkipRollback, TakeRollback, Takes, Begin, Job
    <3>2. 1 \in 1..Len(todo) /\ todo[1] = Head(todo)
      BY <3>1
    <3>3. Pending(t)
      BY <2>1, <3>1, <3>2 DEF Pending
    <3>4. QED
      BY <1>2, <1>3, <3>3
  <2>3. CASE plan # <<>> /\ UNCHANGED job
    BY <1>2, <1>3, <2>1, <2>3 DEF Pending, Undoing
  <2>4. QED
    BY <2>1, <2>2, <2>3, RollbackComes
<1>6. QED
  BY <1>1, <1>4, <1>5 DEF Pending

(* The steps of a rollback.                                                *)
LEMMA RollbackSteps ==
  ASSUME PlanOK, plan # <<>>, job.type = "rollback", plan' # <<>>,
         GoOn \/ (Does("commit") /\ SkipBundle)
  PROVE  /\ GoOn => plan # <<"handled">>
         /\ GoOn /\ plan' = Restored => Does("restore")
         /\ GoOn /\ plan' \in Undone =>
              (Does("commit") /\ plan = Restored) \/ (Does("bundle") /\ plan \in Undone)
         /\ Does("commit") /\ SkipBundle =>
              plan # <<"handled">> /\ plan' # Restored /\ (plan' \in Undone => plan = Restored)
<1>1. plan \in RollbackPlans
  BY DEF PlanOK
<1>2. CASE GoOn
  <2> USE Tails DEF GoOn, Does, Restored, Undone
  <2>1. CASE plan = <<"commit", "bundle", "restore", "commit", "bundle", "announce", "handled">>
    BY <1>2, <2>1
  <2>2. CASE plan = <<"bundle", "restore", "commit", "bundle", "announce", "handled">>
    BY <1>2, <2>2
  <2>3. CASE plan = <<"restore", "commit", "bundle", "announce", "handled">>
    BY <1>2, <2>3
  <2>4. CASE plan = <<"commit", "bundle", "announce", "handled">>
    BY <1>2, <2>4
  <2>5. CASE plan = <<"bundle", "announce", "handled">>
    BY <1>2, <2>5
  <2>6. CASE plan = <<"announce", "handled">>
    BY <1>2, <2>6
  <2>7. CASE plan = <<"handled">>
    BY <1>2, <2>7
  <2>8. QED
    BY <1>1, <2>1, <2>2, <2>3, <2>4, <2>5, <2>6, <2>7 DEF RollbackPlans
<1>3. CASE Does("commit") /\ SkipBundle
  <2> USE Tails DEF SkipBundle, Does, Restored, Undone
  <2>1. CASE plan = <<"commit", "bundle", "restore", "commit", "bundle", "announce", "handled">>
    BY <1>3, <2>1
  <2>2. CASE plan = <<"bundle", "restore", "commit", "bundle", "announce", "handled">>
    BY <1>3, <2>2
  <2>3. CASE plan = <<"restore", "commit", "bundle", "announce", "handled">>
    BY <1>3, <2>3
  <2>4. CASE plan = <<"commit", "bundle", "announce", "handled">>
    BY <1>3, <2>4
  <2>5. CASE plan = <<"bundle", "announce", "handled">>
    BY <1>3, <2>5
  <2>6. CASE plan = <<"announce", "handled">>
    BY <1>3, <2>6
  <2>7. CASE plan = <<"handled">>
    BY <1>3, <2>7
  <2>8. QED
    BY <1>1, <2>1, <2>2, <2>3, <2>4, <2>5, <2>6, <2>7 DEF RollbackPlans
<1>4. QED
  BY <1>2, <1>3

(* Only a commit that finds nothing to commit skips steps of a rollback.   *)
LEMMA RollbackGoes ==
  ASSUME IInv, Step, plan # <<>>, job.type = "rollback", plan' # <<>>
  PROVE  GoOn \/ (NothingToCommit /\ Does("commit") /\ SkipBundle)
<1> USE DEF IInv
<1>1. CASE NothingToCommit
  BY <1>1 DEF NothingToCommit
<1>2. CASE CommitPaths
  BY <1>2, CopyStep DEF CommitPaths, JobOK
<1>3. CASE Conflict
  BY <1>3, MergeStep DEF Conflict, Diverged, JobOK
<1>4. QED
  BY <1>1, <1>2, <1>3 DEF Step, Work, Copy, Seed, Commit, WriteBundle, UpToDate, FastForward, Merge,
     AbortMerge, RemoveIncoming, Restore, Announce, Handled, Exited

(* The actions that do the steps of a rollback.                            *)
LEMMA RollbackActions ==
  ASSUME Step
  PROVE  /\ Does("restore") => Restore
         /\ Does("commit") => Commit \/ NothingToCommit
         /\ Does("bundle") => WriteBundle
BY DEF Step, Work, Copy, Seed, NothingToCommit, Commit, CommitPaths, WriteBundle, UpToDate,
       FastForward, Merge, Diverged, Conflict, AbortMerge, RemoveIncoming, Restore, Announce,
       Handled, Exited, Does

LEMMA RollbackStep ==
  ASSUME IInv, [Next]_vars, NEW t \in Turns, ParentLacks(t), RollbackOK(t)
  PROVE  RollbackOK(t)'
<1> USE DEF IInv
<1>1. SUFFICES ASSUME Undoing(t)'
               PROVE  /\ t \notin Files(job.source)'
                      /\ plan' # <<"handled">> => (\E c \in Numbers : commits[c].turn = t)'
                      /\ plan' = Restored => t \notin files'
                      /\ plan' \in Undone => t \notin files' /\ t \notin Files(main)'
  BY DEF RollbackOK, Restored, Undone
<1>2. plan' # <<>> /\ job'.type = "rollback" /\ job'.arg = t
  BY <1>1 DEF Undoing
<1>3. CASE SkipRollback
  <2>1. job'.source = None /\ plan' = <<"handled">>
    BY <1>3 DEF SkipRollback, Begin, Job
  <2>2. t \notin Files(job.source)'
    BY <2>1 DEF Files
  <2>3. <<"handled">> # Restored /\ <<"handled">> \notin Undone
    BY DEF Restored, Undone
  <2>4. QED
    BY <2>1, <2>2, <2>3
<1>4. CASE TakeRollback
  <2>1. PICK c \in Line(main) :
          /\ RollsBack(c, Head(todo).arg)
          /\ Begin(Job("rollback", Head(todo).arg, commits[c].parent),
                   <<"commit", "bundle", "restore", "commit", "bundle", "announce", "handled">>)
    BY <1>4 DEF TakeRollback
  <2>2. /\ job'.source = commits[c].parent /\ commits[c].turn = t
        /\ plan' = <<"commit", "bundle", "restore", "commit", "bundle", "announce", "handled">>
    BY <1>2, <2>1 DEF Begin, Job, RollsBack, IsTurnCommit, TurnCommits
  <2>3. c \in Numbers
    BY DEF Line, None, RefsOK, HistoryOK, Numbers
  <2>4. UNCHANGED commits
    BY <1>4 DEF TakeRollback, repo
  <2>5. t \notin Files(commits[c].parent)
    BY <2>2, <2>3 DEF ParentLacks
  <2>6. t \notin Files(job.source)'
    BY <2>2, <2>4, <2>5 DEF Files
  <2>7. (\E d \in Numbers : commits[d].turn = t)'
    BY <2>2, <2>3, <2>4 DEF Numbers
  <2>8. plan' # Restored /\ plan' \notin Undone
    BY <2>2 DEF Restored, Undone
  <2>9. QED
    BY <2>6, <2>7, <2>8
<1>5. CASE plan # <<>> /\ UNCHANGED job /\ (Step \/ Quiet \/ plan' = <<"handled">>)
  <2>1. Undoing(t)
    BY <1>2, <1>5 DEF Undoing
  <2>2. PICK s \in 0..Len(commits) : s = job.source
    BY DEF JobOK
  <2>3. t \notin Files(s) /\ Files(s)' = Files(s)
    BY <2>1, <2>2, OldCommits DEF RollbackOK
  <2>4. t \notin Files(job.source)'
    BY <1>5, <2>2, <2>3
  <2>5. plan # <<"handled">> => (\E c \in Numbers : commits[c].turn = t)'
    BY <2>1, OldCommits DEF RollbackOK
  <2>6. CASE plan' = <<"handled">>
    <3>1. <<"handled">> # Restored /\ <<"handled">> \notin Undone
      BY DEF Restored, Undone
    <3>2. QED
      BY <2>4, <2>6, <3>1
  <2>7. CASE Quiet
    <3>1. UNCHANGED <<plan, files, main>>
      BY <2>7 DEF Quiet, harness
    <3>2. Files(main)' = Files(main)
      BY <3>1, OldCommits DEF RefsOK, Files
    <3>3. QED
      BY <2>1, <2>4, <2>5, <3>1, <3>2 DEF RollbackOK
  <2>8. CASE Step
    <3>1. GoOn \/ (NothingToCommit /\ Does("commit") /\ SkipBundle)
      BY <1>2, <1>5, <2>8, RollbackGoes
    <3>2. plan # <<"handled">>
      BY <1>2, <1>5, <3>1, RollbackSteps DEF JobOK
    <3>3. ASSUME plan' = Restored PROVE t \notin files'
      <4>1. GoOn /\ Does("restore")
        BY <1>2, <1>5, <3>1, <3>3, RollbackSteps DEF JobOK
      <4>2. files' = Files(s)
        BY <2>2, <2>8, <4>1, RollbackActions DEF Restore
      <4>3. QED
        BY <2>3, <4>2
    <3>4. ASSUME plan' \in Undone PROVE t \notin files' /\ t \notin Files(main)'
      <4>1. \/ NothingToCommit /\ plan = Restored
            \/ GoOn /\ Does("commit") /\ plan = Restored
            \/ Does("bundle") /\ plan \in Undone
        BY <1>2, <1>5, <3>1, <3>4, RollbackSteps DEF JobOK
      <4>2. CASE Commit /\ plan = Restored
        <5>1. t \notin files /\ UNCHANGED files
          BY <2>1, <4>2 DEF RollbackOK, Commit
        <5>2. Files(main)' = files
          BY <4>2, CommitEffect DEF MainIsNew
        <5>3. QED
          BY <5>1, <5>2
      <4>3. CASE NothingToCommit /\ plan = Restored
        <5>1. t \notin files /\ files = Files(main) /\ UNCHANGED <<files, main, commits>>
          BY <2>1, <4>3 DEF RollbackOK, NothingToCommit, repo
        <5>2. QED
          BY <5>1 DEF Files
      <4>4. CASE WriteBundle /\ plan \in Undone
        <5>1. t \notin files /\ t \notin Files(main) /\ UNCHANGED <<files, main, commits>>
          BY <2>1, <4>4 DEF RollbackOK, WriteBundle
        <5>2. QED
          BY <5>1 DEF Files
      <4>5. QED
        BY <2>8, <4>1, <4>2, <4>3, <4>4, RollbackActions
    <3>5. QED
      BY <2>4, <2>5, <3>2, <3>3, <3>4
  <2>9. QED
    BY <1>5, <2>6, <2>7, <2>8
<1>6. QED
  BY <1>2, <1>3, <1>4, <1>5, RollbackComes

(* Where no other turn is rolled back, no rollback restores the edit.      *)
Alone(t) == \A cmd \in sent : cmd.type = "rollback" => cmd.arg = t

LEMMA RestoreLacks ==
  ASSUME IInv, NEW t \in Turns, SentOK, Alone(t), RollbackOK(t), Restore
  PROVE  t \notin Files(job.source)
<1>1. plan # <<>> /\ job.type = "rollback"
  BY RestoreStep DEF IInv, JobOK, Restore, Does
<1>2. PICK u : u = job.arg
  OBVIOUS
<1>3. Undoing(u)
  BY <1>1, <1>2 DEF Undoing
<1>4. u = t
  BY <1>3 DEF SentOK, Pending, Asked, Alone
<1>5. QED
  BY <1>3, <1>4 DEF RollbackOK

-----------------------------------------------------------------------------
(* Where main goes with the working tree, and where it does not.           *)
LEMMA MainFollows ==
  ASSUME IInv, [Next]_vars, NEW t \in Turns, t \in Files(main), t \in files'
  PROVE  t \in Files(main)'
<1> USE DEF IInv
<1>1. CASE UNCHANGED main
  <2>1. Files(main)' = Files(main)
    BY <1>1, OldCommits DEF RefsOK, Files
  <2>2. QED
    BY <2>1
<1>2. CASE Seed \/ Commit \/ Merge
  BY <1>2, CommitEffect, MergeEffect DEF MainIsNew, Seed, Commit
<1>3. CASE CommitPaths
  BY <1>1, <1>3, PathsEffect DEF MainIsNew, repo
<1>4. CASE FastForward
  BY <1>4 DEF FastForward, Files
<1>5. CASE Step /\ ~(Seed \/ Commit \/ Merge \/ CommitPaths \/ FastForward)
  BY <1>1, <1>5 DEF Step, Work, Copy, NothingToCommit, WriteBundle, UpToDate, Conflict, AbortMerge,
                    RemoveIncoming, Restore, Announce, Handled, Exited, repo
<1>6. CASE Start \/ Take \/ Exit \/ Fail \/ MergeFails \/ Crash
  BY <1>1, <1>6 DEF Start, Take, TakeMessage, TakeFiles, TakePush, SkipRollback, TakeRollback,
                    Exit, Fail, MergeFails, Crash, repo
<1>7. CASE Quiet
  BY <1>1, <1>7 DEF Quiet
<1>8. QED
  BY <1>2, <1>3, <1>4, <1>5, <1>6, <1>7, Actors

LEMMA FilesKnowStep ==
  ASSUME IInv, [Next]_vars, NEW t \in Turns, TurnOnce(t), RollbackOK(t), SentOK, Alone(t),
         FilesKnow(t)
  PROVE  FilesKnow(t)'
<1> USE DEF IInv
<1>1. SUFFICES ASSUME t \in files' PROVE t \in Files(main)' \/ Nowhere(t)'
  BY DEF FilesKnow
<1>2. CASE t \in Files(main)
  BY <1>1, <1>2, MainFollows
<1>3. CASE Seed \/ Commit
  BY <1>1, <1>3, CommitEffect DEF MainIsNew, Seed, Commit
<1>4. CASE Nowhere(t)
  BY <1>3, <1>4, NowhereStep
<1>5. CASE t \in files
  BY <1>2, <1>4, <1>5 DEF FilesKnow
<1>6. CASE Work /\ At(t)
  <2>1. Nowhere(t)
    BY <1>6 DEF Work, TurnOnce, Working, Unseen, Nowhere
  <2>2. QED
    BY <1>4, <2>1
<1>7. CASE FastForward
  BY <1>1, <1>7 DEF FastForward, Files
<1>8. CASE Merge
  BY <1>1, <1>8, MergeEffect DEF MainIsNew
<1>9. QED
  BY <1>1, <1>2, <1>5, <1>6, <1>7, <1>8, FilesCome, RestoreLacks

(***************************************************************************)
(* A turn that was rolled back is gone: from the working tree, from main,  *)
(* and it will not be worked on.                                           *)
(***************************************************************************)
Over(t) == ~Before(t) /\ ~(At(t) /\ Does("work"))
Gone(t) == t \notin files /\ t \notin Files(main) /\ Over(t)

LEMMA OverStep ==
  ASSUME IInv, [Next]_vars, NEW t \in Turns, TurnOnce(t), Over(t)
  PROVE  Over(t)'
<1>1. ~Before(t)'
  BY QueuedStep DEF TurnOnce, Over
<1>2. ASSUME At(t)' PROVE ~Does("work")'
  <2>1. CASE todo # <<>> /\ Is(Head(todo), t)
    <3>1. 1 \in 1..Len(todo) /\ Is(todo[1], t)
      BY <2>1 DEF IInv, TodoOK
    <3>2. QED
      BY <3>1 DEF Over, Before, Queued
  <2>2. CASE At(t) /\ Step /\ GoOn
    BY <2>2, MessageSteps DEF At, IInv, JobOK
  <2>3. CASE At(t) /\ Quiet
    BY <2>3 DEF Over, Quiet, harness, Does
  <2>4. QED
    BY <1>2, <2>1, <2>2, <2>3, AtComes
<1>3. QED
  BY <1>1, <1>2 DEF Over

LEMMA GoneStep ==
  ASSUME IInv, [Next]_vars, NEW t \in Turns, SidesOK, SentOK, Alone(t), TurnOnce(t),
         RollbackOK(t), OneOrigin(t), StaysDropped(t), MainKnows(t), Gone(t)
  PROVE  Gone(t)'
<1>1. t \notin files /\ t \notin Files(main) /\ Over(t)
  BY DEF Gone
<1>2. ~(FastForward /\ t \in Files(Theirs)) /\ ~(Merge /\ t \in files')
  BY <1>1, MergeBringsNothingBack
<1>3. ~(Work /\ At(t))
  BY <1>1 DEF Over, Work
<1>4. ~(Restore /\ t \in Files(job.source))
  BY RestoreLacks
<1>5. t \notin files'
  BY <1>1, <1>2, <1>3, <1>4, FilesCome
<1>6. t \notin Files(main)'
  BY <1>1, <1>2, MainComes
<1>7. QED
  BY <1>1, <1>5, <1>6, OverStep DEF Gone

(* What a rollback announces is gone.                                      *)
LEMMA AnnounceSteps ==
  ASSUME PlanOK, Does("announce")
  PROVE  /\ job.type \in {"message", "apply-bundle", "rollback"}
         /\ job.type = "rollback" => plan = <<"announce", "handled">>
BY DEF PlanOK, Does, StartPlans, MessagePlans, FilesPlans, PushPlans, RollbackPlans, ExitPlans

LEMMA AnnouncedIsGone ==
  ASSUME IInv, NEW t \in Turns, TurnOnce(t), RollbackOK(t), Undoing(t), Does("announce")
  PROVE  Gone(t)
<1>1. plan = <<"announce", "handled">>
  BY AnnounceSteps DEF IInv, JobOK, Undoing
<1>2. plan # <<"handled">> /\ plan \in Undone
  BY <1>1 DEF Undone
<1>3. t \notin files /\ t \notin Files(main) /\ \E c \in Numbers : commits[c].turn = t
  BY <1>2 DEF RollbackOK
<1>4. ~Before(t)
  BY <1>3 DEF TurnOnce, NotYet, Unseen
<1>5. ~At(t)
  BY DEF At, Undoing
<1>6. QED
  BY <1>3, <1>4, <1>5 DEF Gone, Over

-----------------------------------------------------------------------------
(***************************************************************************)
(* The inductive invariant.                                                *)
(***************************************************************************)
HistoryKnows(t) ==
  /\ MainKnows(t) /\ TurnOnce(t) /\ ParentLacks(t) /\ RollbackOK(t)
  /\ Alone(t) => OneOrigin(t) /\ StaysDropped(t) /\ FilesKnow(t)

UndoneOK(e) == e.arg \in Turns /\ (Alone(e.arg) => Gone(e.arg))

UInv ==
  /\ IInv /\ SidesOK /\ SentOK
  /\ \A t \in Turns : HistoryKnows(t)
  /\ \A e \in announced : e.type = "rolled-back" => UndoneOK(e)

LEMMA HistoryKnowsStep ==
  ASSUME UInv, [Next]_vars, NEW t \in Turns
  PROVE  HistoryKnows(t)'
<1>1. IInv /\ SidesOK /\ SentOK /\ HistoryKnows(t)
  BY DEF UInv
<1>2. MainKnows(t) /\ TurnOnce(t) /\ ParentLacks(t) /\ RollbackOK(t)
  BY <1>1 DEF HistoryKnows
<1>3. MainKnows(t)' /\ TurnOnce(t)' /\ ParentLacks(t)' /\ RollbackOK(t)'
  BY <1>1, <1>2, MainKnowsStep, TurnOnceStep, ParentLacksStep, RollbackStep
<1>4. Alone(t)' => Alone(t)
  BY <1>1, TodoMoves DEF Alone
<1>5. ASSUME Alone(t)
      PROVE  OneOrigin(t)' /\ StaysDropped(t)' /\ FilesKnow(t)'
  <2>1. OneOrigin(t) /\ StaysDropped(t) /\ FilesKnow(t)
    BY <1>1, <1>5 DEF HistoryKnows
  <2>2. FilesKnow(t)'
    BY <1>1, <1>2, <1>5, <2>1, FilesKnowStep
  <2>3. OneOrigin(t)' /\ StaysDropped(t)'
    BY <1>1, <2>1, HistoryStaysDropped
  <2>4. QED
    BY <2>2, <2>3
<1>6. QED
  BY <1>3, <1>4, <1>5 DEF HistoryKnows

LEMMA UndoneStep ==
  ASSUME UInv, [Next]_vars
  PROVE  \A e \in announced' : e.type = "rolled-back" => UndoneOK(e)'
<1>1. IInv /\ SidesOK /\ SentOK /\ \A t \in Turns : HistoryKnows(t)
  BY DEF UInv
<1>2. ASSUME NEW t \in Turns, Alone(t), Gone(t)
      PROVE  Gone(t)'
  <2>1. HistoryKnows(t)
    BY <1>1
  <2>2. QED
    BY <1>1, <1>2, <2>1, GoneStep DEF HistoryKnows
<1>3. \A t \in Turns : Alone(t)' => Alone(t)
  BY <1>1, TodoMoves DEF Alone
<1>4. ASSUME NEW e \in announced, e.type = "rolled-back"
      PROVE  UndoneOK(e)'
  <2>1. PICK t : t = e.arg
    OBVIOUS
  <2>2. t \in Turns /\ (Alone(t) => Gone(t))
    BY <1>4, <2>1 DEF UInv, UndoneOK
  <2>3. Alone(t)' => Gone(t)'
    BY <1>2, <1>3, <2>2
  <2>4. QED
    BY <2>1, <2>2, <2>3 DEF UndoneOK
<1>5. CASE UNCHANGED announced
  BY <1>4, <1>5
<1>6. CASE Announce
  <2>1. CASE Does("refuse")
    <3>1. announced' = announced \cup
            {[type |-> "local-merge-conflict", arg |-> job.arg, sha |-> None]}
      BY <1>6, <2>1 DEF Announce, Emit, Does
    <3>2. QED
      BY <1>4, <3>1
  <2>2. CASE Does("announce")
    <3>1. PICK e : e = [type |-> EventType, arg |-> job.arg, sha |-> main]
      OBVIOUS
    <3>2. announced' = announced \cup {e} /\ e.type = EventType /\ e.arg = job.arg
      BY <1>6, <2>2, <3>1 DEF Announce, Emit, Does
    <3>3. ASSUME EventType = "rolled-back" PROVE UndoneOK(e)'
      <4>1. PICK t : t = e.arg
        OBVIOUS
      <4>2. Undoing(t)
        BY <1>1, <2>2, <3>2, <3>3, <4>1, AnnounceSteps DEF IInv, JobOK, EventType, Does, Undoing
      <4>3. t \in Turns
        BY <1>1, <4>2 DEF SentOK, Pending, Asked
      <4>4. Gone(t)
        BY <1>1, <2>2, <4>2, <4>3, AnnouncedIsGone DEF HistoryKnows
      <4>5. Alone(t)' => Gone(t)'
        BY <1>2, <1>3, <4>3, <4>4
      <4>6. QED
        BY <4>1, <4>3, <4>5 DEF UndoneOK
    <3>4. QED
      BY <1>4, <3>2, <3>3
  <2>3. QED
    BY <1>6, <2>1, <2>2 DEF Announce
<1>7. CASE Step /\ ~Announce
  BY <1>5, <1>7 DEF Step, Work, Copy, Seed, NothingToCommit, Commit, CommitPaths, WriteBundle,
                    UpToDate, FastForward, Merge, Conflict, AbortMerge, RemoveIncoming, Restore,
                    Handled, Exited, Outside
<1>8. CASE Start \/ Take \/ Exit \/ Fail \/ MergeFails \/ Crash
  BY <1>5, <1>8 DEF Start, Take, TakeMessage, TakeFiles, TakePush, SkipRollback, TakeRollback,
                    Exit, Fail, MergeFails, Crash
<1>9. CASE Quiet
  BY <1>5, <1>9 DEF Quiet
<1>10. QED
  BY <1>5, <1>6, <1>7, <1>8, <1>9, Actors

LEMMA UInvInit == Init => UInv
<1> SUFFICES ASSUME Init PROVE UInv
  OBVIOUS
<1>1. IInv
  BY IInvInit
<1>2. Numbers = {}
  BY DEF Init, Numbers
<1>3. SidesOK
  BY <1>2 DEF SidesOK, Sides
<1>4. SentOK
  BY DEF Init, SentOK, Pending, Undoing
<1>5. ASSUME NEW t \in Turns PROVE HistoryKnows(t)
  <2>1. MainKnows(t) /\ ParentLacks(t) /\ OneOrigin(t) /\ StaysDropped(t) /\ FilesKnow(t)
    BY <1>2 DEF MainKnows, ParentLacks, OneOrigin, StaysDropped, FilesKnow, Nowhere
  <2>2. RollbackOK(t)
    BY DEF Init, RollbackOK, Undoing
  <2>3. TurnOnce(t)
    BY <1>2 DEF Init, TurnOnce, QueuedOnce, Queued, NotYet, Working, At, Unseen
  <2>4. QED
    BY <2>1, <2>2, <2>3 DEF HistoryKnows
<1>6. QED
  BY <1>1, <1>3, <1>4, <1>5 DEF Init, UInv

LEMMA UInvStep == UInv /\ [Next]_vars => UInv'
<1> SUFFICES ASSUME UInv, [Next]_vars PROVE UInv'
  OBVIOUS
<1>1. IInv' /\ SidesOK' /\ SentOK'
  BY IInvStep, SidesStep, SentStep DEF UInv
<1>2. \A t \in Turns : HistoryKnows(t)'
  BY HistoryKnowsStep
<1>3. \A e \in announced' : e.type = "rolled-back" => UndoneOK(e)'
  BY UndoneStep
<1>4. QED
  BY <1>1, <1>2, <1>3 DEF UInv

(***************************************************************************)
(* The history knows what was dropped: commits that have a turn's edit     *)
(* have it from a common ancestor, what comes after a commit that dropped  *)
(* it does not have it (but for what another rollback restores), and the   *)
(* commits of each side are in line, so that every merge has a base with   *)
(* the edit (GitSync.rollback, applyBundle, and the clone's pull).         *)
(***************************************************************************)
THEOREM HistoryKnowsWhatWasDropped == Spec => []UInv
<1>1. QED
  BY UInvInit, UInvStep, PTL DEF Spec

(***************************************************************************)
(* A turn that was rolled back stays undone, whatever is merged later from *)
(* clones that still have it, unless another turn is rolled back, too      *)
(* (GitSync.rollback; applyBundle merges).                                 *)
(***************************************************************************)
THEOREM UndoneIsKept == Spec => []UndoneStaysUndone
<1>1. UInv => UndoneStaysUndone
  BY DEF UInv, UndoneOK, Gone, Alone, UndoneStaysUndone
<1>2. QED
  BY <1>1, HistoryKnowsWhatWasDropped, PTL

=============================================================================
