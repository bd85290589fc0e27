----------------------------- MODULE Deployments -----------------------------
(***************************************************************************)
(* The deployments of jl4-service: the handlers that create, update and    *)
(* delete them and the jobs they start (ControlPlane.hs), the loading of   *)
(* stored ones (DeploymentLoader.hs, Application.hs) and the directories   *)
(* they are kept in (BundleStore.hs).                                      *)
(*                                                                         *)
(* The registry is a TVar, changed by transactions of one key each; the    *)
(* store is a directory per id, and one temporary directory per id.        *)
(* Nothing orders two operations of one id: every step of every operation  *)
(* may interleave with those of the others, and the process may end        *)
(* between any two.  A bundle is a model value; what an upload may break   *)
(* in the interface of another is the relation Breaks.                     *)
(***************************************************************************)
EXTENDS Integers, FiniteSets

CONSTANTS
  Ids,             \* deployment ids
  Bundles,         \* what clients upload
  Compiles,        \* the bundles that compile
  Breaks,          \* <<new, old>>: detectBreakingChanges finds something
  None, Mixed,     \* no bundle; files of several bundles in one directory
  LazyModes,       \* the values of --lazy-loading considered
  MaxDeployments,  \* options.maxDeployments
  MaxOps,          \* operations begun (bounds the model)
  MaxCrashes,      \* ends of the process (bounds the model)
  MaxFaults        \* file operations that fail (bounds the model)

ASSUME DeploymentsAssumption ==
  /\ Compiles \subseteq Bundles /\ Breaks \subseteq Bundles \X Bundles
  /\ Ids # {} /\ None \notin Bundles /\ Mixed \notin Bundles /\ None # Mixed
  /\ LazyModes \subseteq BOOLEAN
  /\ {MaxDeployments, MaxOps, MaxCrashes, MaxFaults} \subseteq Nat

VARIABLES
  up,        \* the process runs
  lazy,      \* lazyLoad of this service
  registry,  \* AppEnv.deploymentRegistry
  store,     \* the directory <id>
  temp,      \* the directory <id>.tmp
  ops,       \* the operations: jobs, deletions and loads
  loose,     \* ids of which two operations overlapped or a file operation failed
  crashes, faults

files == <<store, temp>>
vars  == <<up, lazy, registry, store, temp, ops, loose, crashes, faults>>

Op == 1..MaxOps

Version == [breaking : Nat, running : Nat]
First   == [breaking |-> 0, running |-> 0]

(***************************************************************************)
(* A bundle as a registry entry, metadata.json or metadata-cache.json      *)
(* tells of it: its content hash and its deployment version.               *)
(***************************************************************************)
Meta    == [of : Bundles \cup {None, Mixed}, ver : Version]
Nothing == [of |-> None, ver |-> First]

State    == {"absent", "pending", "compiling", "ready", "failed"}
Entry(state, meta) == [state |-> state, meta |-> meta]
Absent   == Entry("absent", Nothing)

NoDir == [src |-> {}, meta |-> Nothing, cache |-> Nothing, there |-> FALSE]
Dir   == [src : SUBSET Bundles, meta : Meta, cache : Meta, there : BOOLEAN]

Step == {"idle", "compile", "sources", "metadata", "remove", "removing", "rename",
         "cache", "swap", "entry", "read", "decode", "insert", "recache",
         "applied", "rejected", "dead", "lost"}
OpRecord == [kind : {"none", "post", "put", "delete", "load"}, id : Ids,
             bundle : Bundles \cup {None}, gate : Bundles \cup {None, Mixed},
             src : SUBSET Bundles, ver : Version, step : Step]

(* An operation that is not under way: nothing of it but how it ended.     *)
Rest(step) == [kind |-> "none", id |-> CHOOSE i \in Ids : TRUE, bundle |-> None,
               gate |-> None, src |-> {}, ver |-> First, step |-> step]

Ended    == {"applied", "rejected", "dead", "lost"}
InFlight(o) == ops[o].step \notin Ended \cup {"idle"}
Busy(i)  == \E o \in Op : InFlight(o) /\ ops[o].id = i
Deploys(o) == ops[o].kind \in {"post", "put"}

Init ==
  /\ up = TRUE /\ lazy \in LazyModes
  /\ registry = [i \in Ids |-> Absent]
  /\ store = [i \in Ids |-> NoDir] /\ temp = [i \in Ids |-> NoDir]
  /\ ops = [o \in Op |-> Rest("idle")]
  /\ loose = {} /\ crashes = 0 /\ faults = 0

-----------------------------------------------------------------------------
Registered == {i \in Ids : registry[i].state # "absent"}

(* An operation starts: the slots are taken in order.                      *)
Begin(o, kind, i, b, gate, step) ==
  /\ up /\ ops[o].step = "idle" /\ \A p \in Op : p < o => ops[p].step # "idle"
  /\ ops' = [ops EXCEPT ![o] = [@ EXCEPT !.kind = kind, !.id = i, !.bundle = b,
                                         !.gate = gate, !.step = step]]
  /\ loose' = IF Busy(i) THEN loose \cup {i} ELSE loose

Goto(o, step) == ops' = [ops EXCEPT ![o] = [@ EXCEPT !.step = step]]

End(o, step) == ops' = [ops EXCEPT ![o] = Rest(step)]

(***************************************************************************)
(* POST: an upload that is live already under this id starts nothing; the  *)
(* limit is for ids the registry does not know.                            *)
(***************************************************************************)
Post(o, i, b) ==
  /\ ~(registry[i].state = "ready" /\ registry[i].meta.of = b)
  /\ registry[i].state = "absent" => Cardinality(Registered) < MaxDeployments
  /\ Begin(o, "post", i, b, None, "compile")
  /\ UNCHANGED <<up, lazy, registry, files, crashes, faults>>

(* The interface a PUT is held against: of the live functions, or of the   *)
(* cached metadata.                                                        *)
CurrentIfaces(entry) ==
  IF entry.state \in {"ready", "pending"} THEN entry.meta.of ELSE None

Put(o, i, b) ==
  /\ registry[i].state # "absent"
  /\ Begin(o, "put", i, b, CurrentIfaces(registry[i]), "compile")
  /\ UNCHANGED <<up, lazy, registry, files, crashes, faults>>

(* Mutant of Reject: the refusal is recorded as the deployment's.          *)
RejectFails(o) ==
  /\ up /\ ops[o].step = "compile"
  /\ registry' = [registry EXCEPT ![ops[o].id] = Entry("failed", Nothing)]
  /\ End(o, "rejected")
  /\ UNCHANGED <<up, lazy, files, loose, crashes, faults>>

(* The bundle does not compile, runs out of time or memory, or breaks the  *)
(* interface it is held against.                                           *)
Reject(o) ==
  /\ up /\ ops[o].step = "compile"
  /\ End(o, "rejected")
  /\ UNCHANGED <<up, lazy, registry, files, loose, crashes, faults>>

(* What runDeployJob finds in the registry to count from.                  *)
PreviousMeta(entry) ==
  IF entry.state \in {"ready", "pending"} THEN entry.meta ELSE Nothing

NextDeploymentVersion(prev, b) ==
  IF prev.of = None THEN First
  ELSE [breaking |-> prev.ver.breaking + (IF <<b, prev.of>> \in Breaks THEN 1 ELSE 0),
        running  |-> prev.ver.running + 1]

(* The bundle compiled and passes the gate: its version is counted.        *)
Accept(o) ==
  LET b == ops[o].bundle  i == ops[o].id IN
  /\ up /\ ops[o].step = "compile"
  /\ b \in Compiles /\ <<b, ops[o].gate>> \notin Breaks
  /\ ops' = [ops EXCEPT ![o] = [@ EXCEPT !.step = "sources",
                 !.ver = NextDeploymentVersion(PreviousMeta(registry[i]), b)]]
  /\ UNCHANGED <<up, lazy, registry, files, loose, crashes, faults>>

-----------------------------------------------------------------------------
(***************************************************************************)
(* saveBundle: the sources, then metadata.json, into the temporary         *)
(* directory, which may be there already; then the directory of the id is  *)
(* removed and the temporary one takes its name.                           *)
(***************************************************************************)
WriteSources(o) ==
  LET i == ops[o].id  src == temp[i].src \cup {ops[o].bundle} IN
  /\ up /\ ops[o].step = "sources"
  /\ temp' = [temp EXCEPT ![i] = [@ EXCEPT !.src = src, !.there = TRUE]]
  /\ Goto(o, "metadata")
  /\ UNCHANGED <<up, lazy, registry, store, loose, crashes, faults>>

WriteMetadata(o) ==
  LET i == ops[o].id IN
  /\ up /\ ops[o].step = "metadata" /\ temp[i].there
  /\ temp' = [temp EXCEPT ![i] = [@ EXCEPT !.meta = [of |-> ops[o].bundle, ver |-> ops[o].ver]]]
  /\ Goto(o, "remove")
  /\ UNCHANGED <<up, lazy, registry, store, loose, crashes, faults>>

AfterRemoval(o) == IF Deploys(o) THEN "rename" ELSE "entry"

(* removeDirectoryRecursive on its way: any of the files may be gone.      *)
Remnants(dir) ==
  {[dir EXCEPT !.src = s, !.meta = m, !.cache = c] :
     s \in {{}, dir.src}, m \in {Nothing, dir.meta}, c \in {Nothing, dir.cache}}

BeginRemoval(o) ==
  LET i == ops[o].id IN
  /\ up /\ ops[o].step = "remove"
  /\ IF store[i].there
     THEN /\ \E rest \in Remnants(store[i]) : store' = [store EXCEPT ![i] = rest]
          /\ Goto(o, "removing")
     ELSE Goto(o, AfterRemoval(o)) /\ UNCHANGED store
  /\ UNCHANGED <<up, lazy, registry, temp, loose, crashes, faults>>

EndRemoval(o) ==
  LET i == ops[o].id IN
  /\ up /\ ops[o].step = "removing" /\ store[i].there
  /\ store' = [store EXCEPT ![i] = NoDir]
  /\ Goto(o, AfterRemoval(o))
  /\ UNCHANGED <<up, lazy, registry, temp, loose, crashes, faults>>

Rename(o) ==
  LET i == ops[o].id IN
  /\ up /\ ops[o].step = "rename" /\ temp[i].there /\ ~store[i].there
  /\ store' = [store EXCEPT ![i] = temp[i]]
  /\ temp' = [temp EXCEPT ![i] = NoDir]
  /\ Goto(o, "cache")
  /\ UNCHANGED <<up, lazy, registry, loose, crashes, faults>>

(* The directory an operation is about to work on is not as it needs it.   *)
Blocked(o) ==
  LET i == ops[o].id IN
  \/ ops[o].step = "metadata" /\ ~temp[i].there
  \/ ops[o].step = "removing" /\ ~store[i].there
  \/ ops[o].step = "rename" /\ (~temp[i].there \/ store[i].there)

(* An exception in saveBundle ends the job's thread: the job stays         *)
(* "compiling".  deleteBundle answers it with a refusal.                   *)
FailFiles(o) ==
  /\ up /\ ops[o].step \in {"sources", "metadata", "remove", "removing", "rename"}
  /\ \/ Blocked(o) /\ UNCHANGED faults
     \/ faults < MaxFaults /\ faults' = faults + 1
  /\ End(o, IF Deploys(o) THEN "dead" ELSE "rejected")
  /\ loose' = loose \cup {ops[o].id}
  /\ UNCHANGED <<up, lazy, registry, files, crashes>>

(* saveMetadataCache, whose failure is logged only.                        *)
WriteCache(o, meta) ==
  LET i == ops[o].id IN
  \/ store[i].there /\ store' = [store EXCEPT ![i] = [@ EXCEPT !.cache = meta]]
  \/ UNCHANGED store

SaveCache(o) ==
  /\ up /\ ops[o].step = "cache"
  /\ WriteCache(o, [of |-> ops[o].bundle, ver |-> ops[o].ver])
  /\ Goto(o, "swap")
  /\ UNCHANGED <<up, lazy, registry, temp, loose, crashes, faults>>

(* The upload becomes the live version and its job "applied".              *)
Swap(o) ==
  /\ up /\ ops[o].step = "swap"
  /\ registry' = [registry EXCEPT ![ops[o].id] =
                    Entry("ready", [of |-> ops[o].bundle, ver |-> ops[o].ver])]
  /\ End(o, "applied")
  /\ UNCHANGED <<up, lazy, files, loose, crashes, faults>>

-----------------------------------------------------------------------------
(* DELETE: the files first, then the entry.                                *)
Delete(o, i) ==
  /\ registry[i].state # "absent"
  /\ Begin(o, "delete", i, None, None, "remove")
  /\ UNCHANGED <<up, lazy, registry, files, crashes, faults>>

DeleteEntry(o) ==
  /\ up /\ ops[o].step = "entry"
  /\ registry' = [registry EXCEPT ![ops[o].id] = Absent]
  /\ End(o, "applied")
  /\ UNCHANGED <<up, lazy, files, loose, crashes, faults>>

-----------------------------------------------------------------------------
(***************************************************************************)
(* The first request to a pending deployment turns it to compiling and     *)
(* loads it: loadBundle reads the sources, then the metadata.              *)
(***************************************************************************)
TriggerCompilationIfPending(o, i) ==
  /\ registry[i].state = "pending"
  /\ registry' = [registry EXCEPT ![i] = Entry("compiling", Nothing)]
  /\ Begin(o, "load", i, None, None, "read")
  /\ UNCHANGED <<up, lazy, files, crashes, faults>>

ReadSources(o) ==
  /\ up /\ ops[o].step = "read"
  /\ ops' = [ops EXCEPT ![o] = [@ EXCEPT !.src = store[ops[o].id].src, !.step = "decode"]]
  /\ UNCHANGED <<up, lazy, registry, files, loose, crashes, faults>>

DecodeMetadata(o) ==
  LET meta == store[ops[o].id].meta IN
  /\ up /\ ops[o].step = "decode" /\ meta # Nothing
  /\ ops' = [ops EXCEPT ![o] = [@ EXCEPT !.ver = meta.ver, !.step = "insert"]]
  /\ UNCHANGED <<up, lazy, registry, files, loose, crashes, faults>>

(* What the sources read from a directory compile to.                      *)
Compiled(src) ==
  IF Cardinality(src) > 1 THEN {Mixed} ELSE src \cap Compiles

Insert(o) ==
  /\ up /\ ops[o].step = "insert"
  /\ \E b \in Compiled(ops[o].src) :
       /\ registry' = [registry EXCEPT ![ops[o].id] =
                         Entry("ready", [of |-> b, ver |-> ops[o].ver])]
       /\ ops' = [ops EXCEPT ![o] = [@ EXCEPT !.step = "recache", !.gate = b]]
  /\ UNCHANGED <<up, lazy, files, loose, crashes, faults>>

(* Mutant of LoadFails: the exception is not caught.                       *)
LoadFailsSilently(o) ==
  /\ up
  /\ \/ ops[o].step = "decode" /\ store[ops[o].id].meta = Nothing
     \/ ops[o].step = "insert"
  /\ End(o, "rejected")
  /\ UNCHANGED <<up, lazy, registry, files, loose, crashes, faults>>

(* No metadata, sources that do not compile, or out of time.               *)
LoadFails(o) ==
  /\ up
  /\ \/ ops[o].step = "decode" /\ store[ops[o].id].meta = Nothing
     \/ ops[o].step = "insert"
  /\ registry' = [registry EXCEPT ![ops[o].id] = Entry("failed", Nothing)]
  /\ End(o, "rejected")
  /\ UNCHANGED <<up, lazy, files, loose, crashes, faults>>

SaveCacheOfLoaded(o) ==
  /\ up /\ ops[o].step = "recache"
  /\ WriteCache(o, [of |-> ops[o].gate, ver |-> ops[o].ver])
  /\ End(o, "applied")
  /\ UNCHANGED <<up, lazy, registry, temp, loose, crashes, faults>>

-----------------------------------------------------------------------------
(* The process ends: jobs and registry were in memory only.                *)
Crash ==
  /\ up /\ crashes < MaxCrashes /\ crashes' = crashes + 1
  /\ up' = FALSE
  /\ registry' = [i \in Ids |-> Absent]
  /\ ops' = [o \in Op |-> IF InFlight(o) THEN Rest("lost") ELSE ops[o]]
  /\ UNCHANGED <<lazy, files, loose, faults>>

(* What a listed deployment is registered as: pending with the cache found *)
(* in its directory, or compiled before the port is opened.                *)
Registrations(dir) ==
  IF lazy THEN {Entry("pending", dir.cache)}
  ELSE {Entry("ready", [of |-> b, ver |-> dir.meta.ver]) : b \in Compiled(dir.src)}
         \cup {Entry("failed", Nothing)}

(* Mutant of CleanupStore: what interrupted deploys left stays.            *)
CleanupNothing == temp

(* cleanupStore: the temporary directories are removed.                    *)
CleanupStore == [i \in Ids |-> NoDir]

(* A directory counts as a deployment when it holds metadata.json.         *)
Restart ==
  /\ ~up /\ up' = TRUE
  /\ temp' = CleanupStore
  /\ registry' \in [Ids -> {Absent} \cup UNION {Registrations(store[i]) : i \in Ids}]
  /\ \A i \in Ids : registry'[i] \in (IF store[i].meta = Nothing THEN {Absent}
                                      ELSE Registrations(store[i]))
  /\ store' = [i \in Ids |-> IF registry'[i].state = "ready"
                             THEN [store[i] EXCEPT !.cache = registry'[i].meta]
                             ELSE store[i]]
  /\ UNCHANGED <<lazy, ops, loose, crashes, faults>>

-----------------------------------------------------------------------------
Request(o) ==
  \E i \in Ids :
    \/ \E b \in Bundles : Post(o, i, b) \/ Put(o, i, b)
    \/ Delete(o, i)
    \/ TriggerCompilationIfPending(o, i)

Job(o) ==
  \/ Reject(o) \/ Accept(o)
  \/ WriteSources(o) \/ WriteMetadata(o) \/ BeginRemoval(o) \/ EndRemoval(o)
  \/ Rename(o) \/ FailFiles(o) \/ SaveCache(o) \/ Swap(o) \/ DeleteEntry(o)

Load(o) ==
  \/ ReadSources(o) \/ DecodeMetadata(o) \/ Insert(o) \/ LoadFails(o)
  \/ SaveCacheOfLoaded(o)

Next ==
  \/ \E o \in Op : Request(o) \/ Job(o) \/ Load(o)
  \/ Crash \/ Restart

Spec == Init /\ [][Next]_vars

(***************************************************************************)
(* Compilation is bounded by a timeout and the threads of loads and jobs   *)
(* are scheduled by the runtime: what they can do they do in the end.      *)
(***************************************************************************)
FairSpec == Spec /\ \A o \in Op : WF_vars(Job(o)) /\ WF_vars(Load(o))

-----------------------------------------------------------------------------
(* The shape of registry, directories and operations; an entry carries     *)
(* metadata when it is ready, and otherwise only while pending.            *)
DeploymentsTypeOK ==
  /\ up \in BOOLEAN /\ lazy \in BOOLEAN
  /\ registry \in [Ids -> [state : State, meta : Meta]]
  /\ \A i \in Ids : LET entry == registry[i] IN
       /\ entry.state = "ready" => entry.meta.of # None
       /\ entry.state \in {"absent", "compiling", "failed"} => entry.meta = Nothing
  /\ store \in [Ids -> Dir] /\ temp \in [Ids -> Dir]
  /\ ops \in [Op -> OpRecord]
  /\ loose \in SUBSET Ids
  /\ crashes \in 0..MaxCrashes /\ faults \in 0..MaxFaults

Settled(i) == up /\ ~Busy(i) /\ i \notin loose

(***************************************************************************)
(* Of an id of which no two operations overlapped and no file operation    *)
(* failed, so far, what is served and what is kept agree whenever nothing  *)
(* is going on, whenever the process ended in between: a ready deployment  *)
(* is the one a restart would load, with the version it reports; an id     *)
(* that is gone does not come back; metadata cached in the registry are    *)
(* those of the store.  (ControlPlane.hs saves before it swaps and deletes *)
(* files before the entry.  Nothing orders overlapping operations: of      *)
(* their ids this promises nothing.)                                       *)
(***************************************************************************)
RegistryMatchesStore ==
  \A i \in Ids : Settled(i) =>
    /\ registry[i].state = "ready" =>
         store[i].src = {registry[i].meta.of} /\ store[i].meta = registry[i].meta
    /\ registry[i].state = "absent" => store[i].meta = Nothing
    /\ registry[i].state = "pending" => registry[i].meta \in {Nothing, store[i].meta}

(* The invariant the run checks: the shape, and registry against store for *)
(* the ids without overlap and failure.                                    *)
(* (ControlPlane.hs:355-372, 489-508; BundleStore.hs:99-141.)              *)
RegistryOK == DeploymentsTypeOK /\ RegistryMatchesStore

(***************************************************************************)
(* "The currently-live version keeps serving the whole time" (README.md:   *)
(* 115): a ready deployment stays ready until it is deleted or the process *)
(* ends.  Only a lazy load that overlaps a deploy of its id may end it.    *)
(***************************************************************************)
LiveVersionKeepsServing ==
  [][\A i \in Ids :
       registry[i].state = "ready" /\ registry'[i].state # "ready" =>
         \/ ~up'
         \/ \E o \in Op : ops[o].kind = "delete" /\ ops[o].id = i
                          /\ ops[o].step = "entry" /\ ops'[o].step = "applied"
         \/ lazy /\ i \in loose]_vars

(* A deployment does not stay "compiling": whatever happens to its load,   *)
(* the entry becomes ready or failed (requests wait for that).             *)
CompilingEnds ==
  \A i \in Ids : registry[i].state = "compiling" ~> registry[i].state # "compiling"

=============================================================================
