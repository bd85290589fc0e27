------------------------------- MODULE GitSync -------------------------------
(***************************************************************************)
(* The files of a cloud session as git keeps them: the harness commits     *)
(* what each turn changed, merges what the user pushed, rolls turns back   *)
(* and hands the result out as main.bundle (cloud-agent, git-sync.ts, with *)
(* the runner's order of commands); the VS Code extension pulls and pushes *)
(* (vscode, cloud/git-sync.ts).  The harness may crash between any two git *)
(* commands, and a git command may fail.                                   *)
(*                                                                         *)
(* A tree is the set of edits in it.  A commit is known by its number, and *)
(* carries its ancestors (past) and its first-parent line.  One git        *)
(* command is one step.  Subjects, summaries, refs/incoming, the language  *)
(* server, gc, the rollback notice and files-added are left out.           *)
(***************************************************************************)
EXTENDS Integers, Sequences, FiniteSets

CONSTANTS
  Turns,                    \* the session's turns, by the order of messages
  UserEdits,                \* edits the user commits in the clone
  AddedFiles,               \* files the user adds to the session
  MaxStops, MaxFailures,    \* of the harness; of its git commands
  MaxSyncs,                 \* of the clone
  MaxWaiting                \* copies of a rollback that wait

ASSUME GitAssumption ==
  /\ Turns \cup UserEdits \cup AddedFiles \subseteq Nat \ {0}
  /\ Turns \cap (UserEdits \cup AddedFiles) = {}
  /\ {MaxStops, MaxFailures, MaxSyncs, MaxWaiting} \subseteq Nat

VARIABLES
  commits,    \* every commit there is, the session's and the clone's
  main,       \* HEAD of the session's repository
  files,      \* its working tree
  merging,    \* MERGE_HEAD is there
  bundle,     \* what main.bundle holds
  up,         \* the harness runs
  job,        \* what it works on
  plan,       \* its next steps
  todo,       \* the commands not yet handled
  announced,  \* the events emitted
  pushes,     \* the files of state/git/incoming, and which are gone
  sent,       \* the messages, files and rollbacks the user sent
  clone,      \* the user's main
  fetched,    \* origin/main of the clone
  pulled,     \* a sync pulled and is to push
  written,    \* the edits made in the session
  stops, failures, syncs   \* how often, for the bounds

repo    == <<commits, main, files, merging, bundle>>
harness == <<up, job, plan>>
user    == <<sent, clone, fetched, pulled>>
counts  == <<stops, failures, syncs>>
vars == <<repo, harness, todo, announced, pushes, user, written, counts>>

None     == 0   \* no commit, no turn
Markers  == 0   \* the edit an unfinished merge leaves in the files

Past(c)  == IF c = None THEN {} ELSE commits[c].past
Line(c)  == IF c = None THEN {} ELSE commits[c].line
Files(c) == IF c = None THEN {} ELSE commits[c].files

Job(type, arg, source) == [type |-> type, arg |-> arg, source |-> source]
Idle == Job("none", 0, None)

Init ==
  /\ commits = <<>> /\ main = None /\ files = {} /\ merging = FALSE /\ bundle = None
  /\ up = FALSE /\ job = Idle /\ plan = <<>> /\ todo = <<>>
  /\ announced = {} /\ pushes = <<>> /\ sent = {}
  /\ clone = None /\ fetched = None /\ pulled = FALSE
  /\ written = {} /\ stops = 0 /\ failures = 0 /\ syncs = 0

-----------------------------------------------------------------------------
(***************************************************************************)
(* What git does (external): a new commit continues the line of its first  *)
(* parent; the three-way merge keeps what either side added since a best   *)
(* common ancestor and drops what either side removed.                     *)
(***************************************************************************)
Newest == Len(commits) + 1

NewCommit(first, second, turn, tree) ==
  commits' = Append(commits,
    [parent |-> first, turn |-> turn, files |-> tree,
     past |-> {Newest} \cup Past(first) \cup Past(second),
     line |-> {Newest} \cup Line(first)])

Bases(a, b) ==
  LET common == Past(a) \cap Past(b)
  IN  {c \in common : \A d \in common : c \in Past(d) => c = d}

ThreeWay(base, ours, theirs) ==
  (ours \cap theirs) \cup (ours \ base) \cup (theirs \ base)

(* The trees to merge from: several best ancestors (no more than two here) *)
(* are merged first.                                                       *)
BaseTrees(a, b) ==
  LET best == Bases(a, b)
      pairs == {p \in best \X best : p[1] < p[2]}
  IN  {Files(c) : c \in {d \in best : best = {d}}} \cup
      UNION {{ThreeWay(Files(base), Files(p[1]), Files(p[2])) : base \in Bases(p[1], p[2])} :
             p \in pairs}

Merged(a, b) == {ThreeWay(base, Files(a), Files(b)) : base \in BaseTrees(a, b)}

-----------------------------------------------------------------------------
(***************************************************************************)
(* The harness.  It does one thing at a time.                              *)
(***************************************************************************)
Begin(newJob, steps) == plan = <<>> /\ job' = newJob /\ plan' = steps

(* GitSync.start; a merge is left over only where there are commits.       *)
Start ==
  /\ ~up /\ up' = TRUE
  /\ Begin(Job("start", 0, None),
           CASE merging -> <<"abort", "bundle">>
             [] ~merging /\ main = None -> <<"seed", "bundle">>
             [] OTHER -> <<"bundle">>)
  /\ UNCHANGED <<repo, todo, announced, pushes, user, written, counts>>

Takes(type) == up /\ plan = <<>> /\ todo # <<>> /\ Head(todo).type = type

(* A message is handled before its turn.                                   *)
TakeMessage ==
  /\ Takes("message") /\ todo' = Tail(todo)
  /\ Begin(Job("message", Head(todo).arg, None), <<"work", "commit", "bundle", "announce">>)
  /\ UNCHANGED <<up, repo, announced, pushes, user, written, counts>>

TakeFiles ==
  /\ Takes("add-files")
  /\ Begin(Job("add-files", Head(todo).arg, None), <<"copy", "commitPaths", "bundle", "handled">>)
  /\ UNCHANGED <<up, repo, todo, announced, pushes, user, written, counts>>

(* Mutant of TakePush: the file goes before the bundle has its commits.    *)
TakePushEarly ==
  /\ Takes("apply-bundle")
  /\ LET push == Head(todo).arg
     IN  Begin(Job("apply-bundle", push, None),
               IF pushes[push].gone THEN <<"handled">>
               ELSE <<"commit", "bundle", "merge", "remove", "bundle", "announce", "handled">>)
  /\ UNCHANGED <<up, repo, todo, announced, pushes, user, written, counts>>

(* applyBundle: leftovers are committed first.                             *)
TakePush ==
  /\ Takes("apply-bundle")
  /\ LET push == Head(todo).arg
     IN  Begin(Job("apply-bundle", push, None),
               IF pushes[push].gone THEN <<"handled">>
               ELSE <<"commit", "bundle", "merge", "bundle", "remove", "announce", "handled">>)
  /\ UNCHANGED <<up, repo, todo, announced, pushes, user, written, counts>>

(* findTurnCommit: on the first-parent line of main, the newest.           *)
TurnCommits(turn) == {c \in Line(main) : commits[c].turn = turn}
IsTurnCommit(c, turn) == c \in TurnCommits(turn) /\ \A d \in TurnCommits(turn) : d <= c

RollsBack(c, turn) == IsTurnCommit(c, turn) /\ commits[c].parent # None

SkipRollback ==
  /\ Takes("rollback") /\ ~\E c \in Line(main) : RollsBack(c, Head(todo).arg)
  /\ Begin(Job("rollback", Head(todo).arg, None), <<"handled">>)
  /\ UNCHANGED <<up, repo, todo, announced, pushes, user, written, counts>>

(* Mutant of TakeRollback: the tree of the turn is restored.               *)
TakeRollbackTo ==
  /\ Takes("rollback")
  /\ \E c \in Line(main) :
       /\ RollsBack(c, Head(todo).arg)
       /\ Begin(Job("rollback", Head(todo).arg, c),
                <<"commit", "bundle", "restore", "commit", "bundle", "announce", "handled">>)
  /\ UNCHANGED <<up, repo, todo, announced, pushes, user, written, counts>>

(* Mutant of TakeRollback: leftovers are not committed first.              *)
TakeRollbackAtOnce ==
  /\ Takes("rollback")
  /\ \E c \in Line(main) :
       /\ RollsBack(c, Head(todo).arg)
       /\ Begin(Job("rollback", Head(todo).arg, commits[c].parent),
                <<"restore", "commit", "bundle", "announce", "handled">>)
  /\ UNCHANGED <<up, repo, todo, announced, pushes, user, written, counts>>

TakeRollback ==
  /\ Takes("rollback")
  /\ \E c \in Line(main) :
       /\ RollsBack(c, Head(todo).arg)
       /\ Begin(Job("rollback", Head(todo).arg, commits[c].parent),
                <<"commit", "bundle", "restore", "commit", "bundle", "announce", "handled">>)
  /\ UNCHANGED <<up, repo, todo, announced, pushes, user, written, counts>>

(* An orderly exit, which has the time for its steps.                      *)
Exit ==
  /\ up /\ stops < MaxStops /\ stops' = stops + 1
  /\ Begin(Job("exit", 0, None), <<"commit", "bundle", "exit">>)
  /\ UNCHANGED <<up, repo, todo, announced, pushes, user, written, failures, syncs>>

-----------------------------------------------------------------------------
(***************************************************************************)
(* The steps of the jobs.                                                  *)
(***************************************************************************)
Does(step) == plan # <<>> /\ Head(plan) = step
GoOn       == plan' = Tail(plan)
SkipBundle == plan' = Tail(Tail(plan))   \* nothing was committed

Outside == <<up, job, todo, announced, pushes, user, written, counts>>

(* The agent changes files, or does not.                                   *)
Work ==
  /\ Does("work") /\ GoOn
  /\ \E edits \in SUBSET {job.arg} : files' = files \cup edits /\ written' = written \cup edits
  /\ UNCHANGED <<commits, main, merging, bundle, up, job, todo, announced, pushes, user, counts>>

Copy ==
  /\ Does("copy") /\ GoOn
  /\ files' = files \cup {job.arg} /\ written' = written \cup {job.arg}
  /\ UNCHANGED <<commits, main, merging, bundle, up, job, todo, announced, pushes, user, counts>>

TurnId == IF job.type = "message" THEN job.arg ELSE None

Seed ==
  /\ Does("seed") /\ GoOn
  /\ NewCommit(None, None, None, files) /\ main' = Newest
  /\ UNCHANGED <<files, merging, bundle, Outside>>

(* commitChanges; the bundle is written after each commit.                 *)
NothingToCommit ==
  /\ Does("commit") /\ files = Files(main)
  /\ IF job.type = "message" THEN plan' = <<>> ELSE SkipBundle
  /\ UNCHANGED <<repo, Outside>>

(* Mutant of Commit: the bundle is left to a later commit.                 *)
CommitOnly ==
  /\ Does("commit") /\ files # Files(main) /\ SkipBundle
  /\ NewCommit(main, None, TurnId, files) /\ main' = Newest
  /\ UNCHANGED <<files, merging, bundle, Outside>>

Commit ==
  /\ Does("commit") /\ files # Files(main) /\ GoOn
  /\ NewCommit(main, None, TurnId, files) /\ main' = Newest
  /\ UNCHANGED <<files, merging, bundle, Outside>>

(* onFilesAdded: the added file alone.                                     *)
CommitPaths ==
  /\ Does("commitPaths")
  /\ IF job.arg \in Files(main)
     THEN SkipBundle /\ UNCHANGED repo
     ELSE /\ GoOn
          /\ NewCommit(main, None, None, Files(main) \cup {job.arg}) /\ main' = Newest
          /\ UNCHANGED <<files, merging, bundle>>
  /\ UNCHANGED Outside

WriteBundle ==
  /\ Does("bundle") /\ GoOn /\ bundle' = main
  /\ UNCHANGED <<commits, main, files, merging, Outside>>

(***************************************************************************)
(* git merge: nothing to do, a fast-forward, a merge commit or a conflict. *)
(***************************************************************************)
Theirs == pushes[job.arg].commit

UpToDate ==
  /\ Does("merge") /\ Theirs \in Past(main) /\ GoOn
  /\ UNCHANGED <<repo, Outside>>

FastForward ==
  /\ Does("merge") /\ Theirs \notin Past(main) /\ main \in Past(Theirs) /\ GoOn
  /\ main' = Theirs /\ files' = Files(Theirs)
  /\ UNCHANGED <<commits, merging, bundle, Outside>>

Diverged == Does("merge") /\ Theirs \notin Past(main) /\ main \notin Past(Theirs)

Merge ==
  /\ Diverged /\ GoOn
  /\ files' \in Merged(main, Theirs)
  /\ NewCommit(main, Theirs, None, files') /\ main' = Newest
  /\ UNCHANGED <<merging, bundle, Outside>>

Refusal == <<"abort", "refuse", "remove", "handled">>

Conflict ==
  /\ Diverged
  /\ \E base \in BaseTrees(main, Theirs) : base \notin {Files(main), Files(Theirs)}
  /\ merging' = TRUE /\ files' = files \cup {Markers}
  /\ plan' = Refusal
  /\ UNCHANGED <<commits, main, bundle, Outside>>

AbortMerge ==
  /\ Does("abort") /\ GoOn /\ merging' = FALSE /\ files' = Files(main)
  /\ UNCHANGED <<commits, main, bundle, Outside>>

RemoveIncoming ==
  /\ Does("remove") /\ GoOn
  /\ pushes' = [pushes EXCEPT ![job.arg] = [commit |-> Theirs, gone |-> TRUE]]
  /\ UNCHANGED <<repo, up, job, todo, announced, user, written, counts>>

Restore ==
  /\ Does("restore") /\ GoOn /\ files' = Files(job.source)
  /\ UNCHANGED <<commits, main, merging, bundle, Outside>>

Emit(type, sha) == announced' = announced \cup {[type |-> type, arg |-> job.arg, sha |-> sha]}

EventType ==
  CASE job.type = "message" -> "git-committed"
    [] job.type = "apply-bundle" -> "local-merged"
    [] OTHER -> "rolled-back"

Announce ==
  /\ \/ Does("announce") /\ Emit(EventType, main)
     \/ Does("refuse") /\ Emit("local-merge-conflict", None)
  /\ GoOn
  /\ UNCHANGED <<repo, up, job, todo, pushes, user, written, counts>>

Handled ==
  /\ Does("handled") /\ GoOn /\ todo' = Tail(todo)
  /\ UNCHANGED <<repo, up, job, announced, pushes, user, written, counts>>

Exited ==
  /\ Does("exit") /\ GoOn /\ up' = FALSE
  /\ UNCHANGED <<repo, job, todo, announced, pushes, user, written, counts>>

-----------------------------------------------------------------------------
(***************************************************************************)
(* Faults: a git command that fails (for "merge": the fetch before it)     *)
(* ends what it is part of, and its command is handled all the same; a     *)
(* merge that fails by itself is refused as one with conflicts is.         *)
(***************************************************************************)
MayFail == {"commit", "commitPaths", "bundle", "merge", "restore"}

Fail ==
  /\ failures < MaxFailures /\ failures' = failures + 1
  /\ plan # <<>> /\ Head(plan) \in MayFail /\ job.type # "start"
  /\ LET last == plan[Len(plan)]
     IN  plan' = IF last \in {"handled", "exit"} THEN <<last>> ELSE <<>>
  /\ UNCHANGED <<repo, up, job, todo, announced, pushes, user, written, stops, syncs>>

\* git merge fails without a conflict: it is aborted and announced as one.
MergeFails ==
  /\ failures < MaxFailures /\ failures' = failures + 1
  /\ Does("merge") /\ plan' = Refusal
  /\ UNCHANGED <<repo, up, job, todo, announced, pushes, user, written, stops, syncs>>

Crash ==
  /\ up /\ stops < MaxStops /\ stops' = stops + 1
  /\ up' = FALSE /\ job' = Idle /\ plan' = <<>>
  /\ UNCHANGED <<repo, todo, announced, pushes, user, written, failures, syncs>>

-----------------------------------------------------------------------------
(***************************************************************************)
(* The user.  Each message and file is sent once, a rollback as often as   *)
(* it is offered, with no more than MaxWaiting copies not yet handled.     *)
(***************************************************************************)
Send(type, arg) ==
  /\ sent' = sent \cup {[type |-> type, arg |-> arg]}
  /\ todo' = Append(todo, [type |-> type, arg |-> arg])
  /\ UNCHANGED <<repo, harness, announced, pushes, clone, fetched, pulled, written, counts>>

SendOnce(type, arg) == [type |-> type, arg |-> arg] \notin sent /\ Send(type, arg)

SendMessage(turn) ==
  /\ \A t \in Turns : t < turn => [type |-> "message", arg |-> t] \in sent
  /\ SendOnce("message", turn)

(* rollbackOffer: the turn has a commit, and was not rolled back since,    *)
(* alone or with an earlier one.                                           *)
Offered(turn) ==
  \E c \in announced :
    /\ c.type = "git-committed" /\ c.arg = turn
    /\ ~\E e \in announced : e.type = "rolled-back" /\ e.arg <= turn /\ c.sha <= e.sha

Waiting(type, arg) == {i \in DOMAIN todo : todo[i] = [type |-> type, arg |-> arg]}

SendRollback(turn) ==
  /\ Offered(turn) /\ Cardinality(Waiting("rollback", turn)) < MaxWaiting
  /\ Send("rollback", turn)

HasFirstCommit == clone # None \/ \E e \in announced : e.type = "git-committed"

(* Clone, or the pull of a sync: a merge that the user completes.          *)
Pull ==
  /\ HasFirstCommit /\ fetched' = bundle /\ pulled' = TRUE
  /\ syncs < MaxSyncs /\ syncs' = syncs + 1
  /\ IF bundle \in Past(clone) THEN UNCHANGED <<commits, clone>>
     ELSE IF clone = None \/ clone \in Past(bundle)
     THEN clone' = bundle /\ UNCHANGED commits
     ELSE /\ clone' = Newest
          /\ \E tree \in Merged(clone, bundle) : NewCommit(clone, bundle, None, tree)
  /\ UNCHANGED <<main, files, merging, bundle, harness, todo, announced, pushes, sent, written,
                 stops, failures>>

LastPushed == IF pushes = <<>> THEN None ELSE pushes[Len(pushes)].commit

(* The push of a sync; the Sessions API (external) turns it into a bundle  *)
(* and a command.                                                          *)
Push ==
  /\ pulled /\ pulled' = FALSE
  /\ IF clone \in Past(fetched) \/ clone = LastPushed
     THEN UNCHANGED <<pushes, todo>>
     ELSE /\ pushes' = Append(pushes, [commit |-> clone, gone |-> FALSE])
          /\ todo' = Append(todo, [type |-> "apply-bundle", arg |-> Len(pushes) + 1])
  /\ UNCHANGED <<repo, harness, announced, sent, clone, fetched, written, counts>>

UserCommits(edit) ==
  /\ clone # None /\ ~pulled /\ \A c \in DOMAIN commits : edit \notin commits[c].files
  /\ NewCommit(clone, None, None, Files(clone) \cup {edit}) /\ clone' = Newest
  /\ UNCHANGED <<main, files, merging, bundle, harness, todo, announced, pushes, sent, fetched,
                 pulled, written, counts>>

-----------------------------------------------------------------------------
Take == TakeMessage \/ TakeFiles \/ TakePush \/ SkipRollback \/ TakeRollback

Step ==
  \/ Work \/ Copy \/ Seed \/ NothingToCommit \/ Commit \/ CommitPaths \/ WriteBundle
  \/ UpToDate \/ FastForward \/ Merge \/ Conflict \/ AbortMerge \/ RemoveIncoming
  \/ Restore \/ Announce \/ Handled \/ Exited

Next ==
  \/ Start \/ Take \/ Exit \/ Step \/ Fail \/ MergeFails \/ Crash
  \/ \E turn \in Turns : SendMessage(turn) \/ SendRollback(turn)
  \/ \E file \in AddedFiles : SendOnce("add-files", file)
  \/ Pull \/ Push \/ \E edit \in UserEdits : UserCommits(edit)

Spec == Init /\ [][Next]_vars

-----------------------------------------------------------------------------
Edits == Turns \cup UserEdits \cup AddedFiles
Commits == DOMAIN commits

(* Commits, refs and files; no commit has conflict markers, whatever merge *)
(* was interrupted (git-sync.ts, start and applyBundle).                   *)
GitTypeOK ==
  /\ \A c \in Commits :
       /\ commits[c].parent \in Commits \cup {None} /\ commits[c].turn \in Turns \cup {None}
       /\ commits[c].files \subseteq Edits /\ c \in commits[c].line
       /\ commits[c].line \subseteq commits[c].past /\ commits[c].past \subseteq 1..c
  /\ {main, bundle, clone, fetched} \subseteq Commits \cup {None}
  /\ files \subseteq Edits \cup {Markers} /\ written \subseteq Edits
  /\ {merging, up, pulled} \subseteq BOOLEAN
  /\ \A p \in DOMAIN pushes : pushes[p].commit \in Commits
  /\ ~up => plan = <<>>

(***************************************************************************)
(* No edit made in the session is lost: it is in the working tree or in    *)
(* the history of main, whichever of its turns was interrupted, and        *)
(* whatever is merged or rolled back afterwards.                           *)
(***************************************************************************)
NoEditIsLost ==
  \A e \in written : e \in files \/ \E c \in Past(main) : e \in commits[c].files

(***************************************************************************)
(* A commit that an event names can be pulled, but for a rollback that     *)
(* found nothing to commit after the bundle of a commit could not be       *)
(* written: it is in main, and can be pulled with the next bundle.         *)
(***************************************************************************)
AnnouncedCanBePulled ==
  \A e \in announced : e.sha # None =>
    \/ e.sha \in Past(bundle)
    \/ e.type = "rolled-back" /\ failures > 0 /\ e.sha \in Past(main)

RepositoryOK == GitTypeOK /\ AnnouncedCanBePulled

(***************************************************************************)
(* What the user pushed is deleted only when main.bundle has it ("now has  *)
(* its commits") or it was refused, announced as a conflict.               *)
(***************************************************************************)
PushIsKept ==
  \A p \in DOMAIN pushes : pushes[p].gone =>
    \/ pushes[p].commit \in Past(bundle)
    \/ \E e \in announced : e.type = "local-merge-conflict" /\ e.arg = p

(***************************************************************************)
(* A turn that was rolled back stays undone, whatever is merged later from *)
(* clones that still have it, unless another turn is rolled back, too.     *)
(***************************************************************************)
UndoneStaysUndone ==
  \A e \in announced :
    e.type = "rolled-back" /\ (\A cmd \in sent : cmd.type = "rollback" => cmd.arg = e.arg) =>
      e.arg \notin Files(main)
=============================================================================
