--------------------------- MODULE Deployments_proofs ---------------------------
(***************************************************************************)
(* Proofs about Deployments, for every set of ids and bundles, every       *)
(* relation Breaks, and any number of operations, crashes and failures:    *)
(* what is served and what is kept agree for every id without overlapping  *)
(* or failed operations, and a live version stays until it is deleted.     *)
(***************************************************************************)
EXTENDS Deployments, FiniteSetTheorems, TLAPS

-----------------------------------------------------------------------------
(* The inductive invariant, in parts: of an operation op, the registry's   *)
(* entry, the directory st and the temporary directory tm.                 *)

Entries ==
  {e \in [state : State, meta : Meta] :
     /\ e.state = "ready" => e.meta.of # None
     /\ e.state \in {"absent", "compiling", "failed"} => e.meta = Nothing}

Shape ==
  /\ up \in BOOLEAN /\ lazy \in BOOLEAN
  /\ registry \in [Ids -> Entries]
  /\ store \in [Ids -> Dir] /\ temp \in [Ids -> Dir]
  /\ ops \in [Op -> OpRecord] /\ loose \in SUBSET Ids
  /\ crashes \in 0..MaxCrashes /\ faults \in 0..MaxFaults

Saving    == {"sources", "metadata", "rename", "cache", "swap"}
Removing  == {"remove", "removing"}
Loading   == {"read", "decode", "insert", "recache"}
Replacing == {"remove", "removing", "rename"}

(* Which kinds of operation are where.                                     *)
Kinded(op, lz) ==
  /\ op.step \in {"compile"} \cup Saving => op.kind \in {"post", "put"}
  /\ op.step \in Removing => op.kind \in {"post", "put", "delete"}
  /\ op.step = "entry" => op.kind = "delete"
  /\ op.step \in Loading => op.kind = "load" /\ lz
  /\ op.kind \in {"post", "put"} => op.bundle \in Bundles

Moving(op) == op.step \notin Ended \cup {"idle"}

Uploaded(op) == [of |-> op.bundle, ver |-> op.ver]

(* Registry and directory, when nothing goes on.                           *)
Agree(entry, st) ==
  /\ entry.state = "ready" => st.src = {entry.meta.of} /\ st.meta = entry.meta
  /\ entry.state = "absent" => st.meta = Nothing
  /\ entry.state = "pending" => entry.meta \in {Nothing, st.meta}

(* A directory, whatever is under way, and whatever a crash leaves of it.  *)
Whole(st) ==
  st.meta # Nothing => st.src \subseteq {st.meta.of} /\ st.cache \in {Nothing, st.meta}

(* A deploy, from the request to the swap.                                 *)
Deploying(op, entry, st, tm) ==
  /\ op.step = "compile" => Agree(entry, st)
  /\ op.step = "metadata" =>
       tm = [src |-> {op.bundle}, meta |-> Nothing, cache |-> Nothing, there |-> TRUE]
  /\ op.step \in Replacing =>
       tm = [src |-> {op.bundle}, meta |-> Uploaded(op), cache |-> Nothing, there |-> TRUE]
  /\ op.step \in {"cache", "swap"} => st.src = {op.bundle} /\ st.meta = Uploaded(op)
  /\ op.step # "compile" => op.ver = NextDeploymentVersion(PreviousMeta(entry), op.bundle)
  /\ op.kind = "put" =>
       /\ op.gate = CurrentIfaces(entry)
       /\ op.step # "compile" => <<op.bundle, op.gate>> \notin Breaks

(* A lazy load.                                                            *)
LoadStages(op, entry, st) ==
  /\ op.step \in {"read", "decode", "insert"} => entry.state = "compiling"
  /\ op.step \in {"decode", "insert"} => op.src = st.src
  /\ op.step = "insert" => st.meta # Nothing /\ op.ver = st.meta.ver
  /\ op.step = "recache" =>
       entry = Entry("ready", [of |-> op.gate, ver |-> op.ver]) /\ Agree(entry, st)

Staged(op, entry, st, tm) ==
  /\ op.kind \in {"post", "put"} => Deploying(op, entry, st, tm)
  /\ op.kind = "load" => LoadStages(op, entry, st)
  /\ op.step = "entry" => st.meta = Nothing
  /\ op.step \notin {"metadata"} \cup Replacing \/ op.kind = "delete" => tm = NoDir

Alone(i) == \A o, p \in Op : Moving(ops[o]) /\ Moving(ops[p]) /\ ops[o].id = i /\ ops[p].id = i => o = p

DirsOK == \A i \in Ids : ~store[i].there => store[i] = NoDir

(* One id, as long as its operations came one after the other.             *)
Orderly(i) ==
  /\ Whole(store[i]) /\ Alone(i)
  /\ \A o \in Op :
       Moving(ops[o]) /\ ops[o].id = i => Staged(ops[o], registry[i], store[i], temp[i])
  /\ up /\ (\A o \in Op : ~(Moving(ops[o]) /\ ops[o].id = i)) =>
       Agree(registry[i], store[i]) /\ temp[i] = NoDir

DInv ==
  /\ Shape /\ DirsOK
  /\ \A o \in Op : Kinded(ops[o], lazy)
  /\ \A i \in Ids : registry[i].state = "pending" => lazy
  /\ ~up => (\A i \in Ids : registry[i] = Absent) /\ (\A o \in Op : ~Moving(ops[o]))
  /\ \A i \in Ids \ loose : Orderly(i)

-----------------------------------------------------------------------------
(* What operations and values are.                                         *)
LEMMA Values ==
  /\ First \in Version /\ Nothing \in Meta /\ Absent \in Entries /\ NoDir \in Dir
  /\ Entry("failed", Nothing) \in Entries /\ Entry("compiling", Nothing) \in Entries
  /\ \A step \in Step : Rest(step) \in OpRecord /\ Rest(step).step = step /\ Rest(step).kind = "none"
<1>1. (CHOOSE i \in Ids : TRUE) \in Ids
  BY DeploymentsAssumption
<1>2. First \in Version
  BY DEF First, Version
<1>3. Nothing \in Meta
  BY <1>2 DEF Nothing, Meta
<1>4. QED
  BY <1>1, <1>2, <1>3 DEF Absent, Entries, Entry, State, NoDir, Dir, Rest, OpRecord

LEMMA OpFacts ==
  ASSUME DInv, NEW o \in Op
  PROVE  /\ ops \in [Op -> OpRecord] /\ ops[o] \in OpRecord /\ ops[o].id \in Ids
         /\ registry \in [Ids -> Entries] /\ registry[ops[o].id] \in Entries
         /\ store \in [Ids -> Dir] /\ store[ops[o].id] \in Dir
         /\ temp \in [Ids -> Dir] /\ temp[ops[o].id] \in Dir
         /\ loose \in SUBSET Ids
         /\ Kinded(ops[o], lazy)
         /\ registry[ops[o].id].state = "pending" => lazy
         /\ ~store[ops[o].id].there => store[ops[o].id] = NoDir
         /\ ops[o].id \notin loose => Whole(store[ops[o].id])
         /\ Moving(ops[o]) /\ ops[o].id \notin loose =>
              Staged(ops[o], registry[ops[o].id], store[ops[o].id], temp[ops[o].id])
<1>1. ops \in [Op -> OpRecord] /\ ops[o] \in OpRecord /\ ops[o].id \in Ids
  BY DEF DInv, Shape, OpRecord
<1>2. QED
  BY <1>1 DEF DInv, Shape, DirsOK, Orderly

LEMMA GotoIs ==
  ASSUME DInv, NEW o \in Op, NEW step \in Step, Goto(o, step)
  PROVE  /\ ops' \in [Op -> OpRecord] /\ \A p \in Op \ {o} : ops'[p] = ops[p]
         /\ ops'[o] = [ops[o] EXCEPT !.step = step]
         /\ ops'[o].step = step /\ ops'[o].kind = ops[o].kind /\ ops'[o].id = ops[o].id
         /\ ops'[o].bundle = ops[o].bundle /\ ops'[o].gate = ops[o].gate
         /\ ops'[o].src = ops[o].src /\ ops'[o].ver = ops[o].ver
<1>1. ops \in [Op -> OpRecord] /\ ops[o] \in OpRecord
  BY OpFacts
<1>2. ops' = [ops EXCEPT ![o] = [ops[o] EXCEPT !.step = step]]
  BY DEF Goto
<1>3. [ops[o] EXCEPT !.step = step] \in OpRecord
  BY <1>1 DEF OpRecord
<1>4. ops'[o] = [ops[o] EXCEPT !.step = step] /\ ops' \in [Op -> OpRecord]
      /\ \A p \in Op \ {o} : ops'[p] = ops[p]
  BY <1>1, <1>2, <1>3
<1>5. QED
  BY <1>1, <1>4 DEF OpRecord

LEMMA EndIs ==
  ASSUME DInv, NEW o \in Op, NEW step \in Ended, End(o, step)
  PROVE  /\ ops' \in [Op -> OpRecord] /\ \A p \in Op \ {o} : ops'[p] = ops[p]
         /\ ops'[o].step = step /\ ops'[o].kind = "none" /\ ~Moving(ops'[o])
         /\ Kinded(ops'[o], lazy)
<1>1. ops \in [Op -> OpRecord]
  BY OpFacts
<1>2. step \in Step
  BY DEF Ended, Step
<1>3. ops'[o] = Rest(step) /\ ops' \in [Op -> OpRecord] /\ \A p \in Op \ {o} : ops'[p] = ops[p]
  BY <1>1, <1>2, Values DEF End
<1>4. QED
  BY <1>2, <1>3, Values DEF Moving, Kinded, Ended, Saving, Removing, Loading

-----------------------------------------------------------------------------
(* A step of one operation disturbs one id, and no other operation.        *)
Touches(o, i) ==
  /\ \A j \in Ids \ {i} :
       /\ registry'[j] = registry[j] /\ store'[j] = store[j] /\ temp'[j] = temp[j]
       /\ j \in loose' <=> j \in loose
  /\ \A p \in Op \ {o} : ops'[p] = ops[p]

LEMMA OneStep ==
  ASSUME DInv, Shape', NEW o \in Op, NEW i \in Ids, up, up', lazy' = lazy, loose \subseteq loose',
         Touches(o, i),
         Moving(ops[o]) => ops[o].id = i,
         Moving(ops[o]) \/ i \in loose' \/ ~Busy(i),
         Moving(ops'[o]) => ops'[o].id = i,
         Kinded(ops'[o], lazy), registry'[i].state = "pending" => lazy,
         ~store'[i].there => store'[i] = NoDir,
         i \notin loose' => Whole(store'[i]),
         i \notin loose' /\ Moving(ops'[o]) =>
           Staged(ops'[o], registry'[i], store'[i], temp'[i]),
         i \notin loose' /\ ~Moving(ops'[o]) =>
           Agree(registry'[i], store'[i]) /\ temp'[i] = NoDir
  PROVE  DInv'
<1>1. DirsOK'
  BY DEF Touches, DInv, DirsOK
<1>2. \A p \in Op : Kinded(ops'[p], lazy')
  BY DEF Touches, DInv
<1>3. \A j \in Ids : registry'[j].state = "pending" => lazy'
  BY DEF Touches, DInv
<1>4. \A p \in Op \ {o} : Moving(ops'[p]) /\ i \notin loose' => ops'[p].id # i
  <2> SUFFICES ASSUME NEW p \in Op \ {o}, Moving(ops[p]), i \notin loose', ops[p].id = i
               PROVE  FALSE
    BY DEF Touches
  <2>1. i \in Ids \ loose
    OBVIOUS
  <2>2. CASE Moving(ops[o])
    BY <2>1, <2>2 DEF DInv, Orderly, Alone
  <2>3. CASE ~Busy(i)
    BY <2>3 DEF Busy, InFlight, Moving
  <2>4. QED
    BY <2>2, <2>3
<1>5. ASSUME NEW j \in Ids, j \notin loose', j # i
      PROVE  Orderly(j)'
  <2>1. j \in Ids \ loose /\ registry'[j] = registry[j] /\ store'[j] = store[j] /\ temp'[j] = temp[j]
    BY <1>5 DEF Touches
  <2>2. /\ Whole(store[j])
        /\ \A p, q \in Op : Moving(ops[p]) /\ Moving(ops[q]) /\ ops[p].id = j /\ ops[q].id = j => p = q
        /\ \A p \in Op :
             Moving(ops[p]) /\ ops[p].id = j => Staged(ops[p], registry[j], store[j], temp[j])
        /\ (\A p \in Op : ~(Moving(ops[p]) /\ ops[p].id = j)) =>
             Agree(registry[j], store[j]) /\ temp[j] = NoDir
    BY <2>1 DEF DInv, Orderly, Alone
  <2>3. \A p \in Op : (Moving(ops'[p]) /\ ops'[p].id = j) <=> (Moving(ops[p]) /\ ops[p].id = j)
    BY <1>5 DEF Touches
  <2>4. \A p \in Op : Moving(ops'[p]) /\ ops'[p].id = j => ops'[p] = ops[p]
    BY <1>5 DEF Touches
  <2>5. QED
    BY <2>1, <2>2, <2>3, <2>4 DEF Orderly, Alone
<1>6. ASSUME i \notin loose'
      PROVE  Orderly(i)'
  <2>1. Alone(i)'
    BY <1>4, <1>6 DEF Alone
  <2>2. \A p \in Op : Moving(ops'[p]) /\ ops'[p].id = i =>
          Staged(ops'[p], registry'[i], store'[i], temp'[i])
    BY <1>4, <1>6
  <2>3. (\A p \in Op : ~(Moving(ops'[p]) /\ ops'[p].id = i)) =>
          Agree(registry'[i], store'[i]) /\ temp'[i] = NoDir
    BY <1>6
  <2>4. QED
    BY <1>6, <2>1, <2>2, <2>3 DEF Orderly
<1>7. QED
  BY <1>1, <1>2, <1>3, <1>5, <1>6 DEF DInv

-----------------------------------------------------------------------------
(* Requests.                                                               *)
LEMMA BeginIs ==
  ASSUME DInv, NEW o \in Op, NEW kind \in {"post", "put", "delete", "load"}, NEW i \in Ids,
         NEW b \in Bundles \cup {None}, NEW gate \in Bundles \cup {None, Mixed},
         NEW step \in Step, Begin(o, kind, i, b, gate, step)
  PROVE  /\ up /\ ~Moving(ops[o])
         /\ ops' \in [Op -> OpRecord] /\ \A p \in Op \ {o} : ops'[p] = ops[p]
         /\ ops'[o].kind = kind /\ ops'[o].id = i /\ ops'[o].bundle = b
         /\ ops'[o].gate = gate /\ ops'[o].step = step
         /\ loose \subseteq loose' /\ loose' \in SUBSET Ids
         /\ \A j \in Ids \ {i} : j \in loose' <=> j \in loose
         /\ i \in loose' \/ ~Busy(i)
         /\ i \notin loose' => Agree(registry[i], store[i]) /\ temp[i] = NoDir /\ Whole(store[i])
<1>1. ops \in [Op -> OpRecord] /\ ops[o] \in OpRecord /\ loose \in SUBSET Ids
  BY OpFacts
<1> DEFINE op == [ops[o] EXCEPT !.kind = kind, !.id = i, !.bundle = b, !.gate = gate, !.step = step]
<1>2. op \in OpRecord /\ op.kind = kind /\ op.id = i /\ op.bundle = b /\ op.gate = gate
      /\ op.step = step
  BY <1>1 DEF OpRecord
<1>3. up /\ ops[o].step = "idle" /\ ops' = [ops EXCEPT ![o] = op]
      /\ loose' = IF Busy(i) THEN loose \cup {i} ELSE loose
  BY DEF Begin
<1> HIDE DEF op
<1>4. ops'[o] = op /\ ops' \in [Op -> OpRecord] /\ \A p \in Op \ {o} : ops'[p] = ops[p]
  BY <1>1, <1>2, <1>3
<1>5. ~Moving(ops[o])
  BY <1>3 DEF Moving
<1>6. ASSUME i \notin loose'
      PROVE  Agree(registry[i], store[i]) /\ temp[i] = NoDir /\ Whole(store[i])
  <2>1. ~Busy(i) /\ i \notin loose
    BY <1>3, <1>6
  <2>2. \A p \in Op : ~(Moving(ops[p]) /\ ops[p].id = i)
    BY <2>1 DEF Busy, InFlight, Moving
  <2>3. QED
    BY <1>3, <2>1, <2>2 DEF DInv, Orderly
<1>7. QED
  BY <1>1, <1>2, <1>3, <1>4, <1>5, <1>6

LEMMA PostKeeps ==
  ASSUME DInv, NEW o \in Op, NEW i \in Ids, NEW b \in Bundles, Post(o, i, b) \/ Put(o, i, b)
  PROVE  DInv'
<1>1. UNCHANGED <<up, lazy, registry, store, temp, crashes, faults>>
  BY DEF Post, Put, files
<1>2. registry[i] \in Entries /\ (registry[i].state = "pending" => lazy)
      /\ (~store[i].there => store[i] = NoDir)
  BY DEF DInv, Shape, DirsOK
<1>3. CurrentIfaces(registry[i]) \in Bundles \cup {None, Mixed}
  BY <1>2 DEF CurrentIfaces, Entries, Meta
<1>4. \/ Begin(o, "post", i, b, None, "compile")
      \/ Begin(o, "put", i, b, CurrentIfaces(registry[i]), "compile")
  BY DEF Post, Put
<1>5. /\ up /\ ~Moving(ops[o])
      /\ ops' \in [Op -> OpRecord] /\ \A p \in Op \ {o} : ops'[p] = ops[p]
      /\ ops'[o].kind \in {"post", "put"} /\ ops'[o].id = i /\ ops'[o].bundle = b
      /\ ops'[o].kind = "put" => ops'[o].gate = CurrentIfaces(registry[i])
      /\ ops'[o].step = "compile"
      /\ loose \subseteq loose' /\ loose' \in SUBSET Ids
      /\ \A j \in Ids \ {i} : j \in loose' <=> j \in loose
      /\ i \in loose' \/ ~Busy(i)
      /\ i \notin loose' => Agree(registry[i], store[i]) /\ temp[i] = NoDir /\ Whole(store[i])
  <2>1. "compile" \in Step
    BY DEF Step
  <2>2. CASE Begin(o, "post", i, b, None, "compile")
    BY <2>1, <2>2, BeginIs
  <2>3. CASE Begin(o, "put", i, b, CurrentIfaces(registry[i]), "compile")
    BY <1>3, <2>1, <2>3, BeginIs
  <2>4. QED
    BY <1>4, <2>2, <2>3
<1>6. Shape'
  BY <1>1, <1>5 DEF DInv, Shape
<1>7. Touches(o, i)
  BY <1>1, <1>5 DEF Touches
<1>8. Kinded(ops'[o], lazy) /\ Moving(ops'[o])
  BY <1>5 DEF Kinded, Moving, Saving, Removing, Loading, Ended
<1>9. i \notin loose' => Staged(ops'[o], registry'[i], store'[i], temp'[i])
  BY <1>1, <1>5 DEF Staged, Deploying, Replacing
<1>10. QED
  BY <1>1, <1>2, <1>5, <1>6, <1>7, <1>8, <1>9, OneStep

LEMMA DeleteKeeps == ASSUME DInv, NEW o \in Op, NEW i \in Ids, Delete(o, i) PROVE DInv'
<1>1. UNCHANGED <<up, lazy, registry, store, temp, crashes, faults>>
      /\ Begin(o, "delete", i, None, None, "remove")
  BY DEF Delete, files
<1>2. (registry[i].state = "pending" => lazy) /\ (~store[i].there => store[i] = NoDir)
  BY DEF DInv, DirsOK
<1>3. "remove" \in Step
  BY DEF Step
<1>4. /\ up /\ ~Moving(ops[o])
      /\ ops' \in [Op -> OpRecord] /\ \A p \in Op \ {o} : ops'[p] = ops[p]
      /\ ops'[o].kind = "delete" /\ ops'[o].id = i /\ ops'[o].step = "remove"
      /\ loose \subseteq loose' /\ loose' \in SUBSET Ids
      /\ \A j \in Ids \ {i} : j \in loose' <=> j \in loose
      /\ i \in loose' \/ ~Busy(i)
      /\ i \notin loose' => temp[i] = NoDir /\ Whole(store[i])
  BY <1>1, <1>3, BeginIs
<1>5. Shape'
  BY <1>1, <1>4 DEF DInv, Shape
<1>6. Touches(o, i)
  BY <1>1, <1>4 DEF Touches
<1>7. Kinded(ops'[o], lazy) /\ Moving(ops'[o])
  BY <1>4 DEF Kinded, Moving, Saving, Removing, Loading, Ended
<1>8. i \notin loose' => Staged(ops'[o], registry'[i], store'[i], temp'[i])
  BY <1>1, <1>4 DEF Staged
<1>9. QED
  BY <1>1, <1>2, <1>4, <1>5, <1>6, <1>7, <1>8, OneStep

LEMMA TriggerKeeps ==
  ASSUME DInv, NEW o \in Op, NEW i \in Ids, TriggerCompilationIfPending(o, i) PROVE DInv'
<1>1. /\ UNCHANGED <<up, lazy, store, temp, crashes, faults>> /\ registry[i].state = "pending"
      /\ registry' = [registry EXCEPT ![i] = Entry("compiling", Nothing)]
      /\ Begin(o, "load", i, None, None, "read")
  BY DEF TriggerCompilationIfPending, files
<1>2. lazy /\ (~store[i].there => store[i] = NoDir) /\ registry \in [Ids -> Entries]
  BY <1>1 DEF DInv, DirsOK, Shape
<1>3. "read" \in Step
  BY DEF Step
<1>4. /\ up /\ ~Moving(ops[o])
      /\ ops' \in [Op -> OpRecord] /\ \A p \in Op \ {o} : ops'[p] = ops[p]
      /\ ops'[o].kind = "load" /\ ops'[o].id = i /\ ops'[o].step = "read"
      /\ loose \subseteq loose' /\ loose' \in SUBSET Ids
      /\ \A j \in Ids \ {i} : j \in loose' <=> j \in loose
      /\ i \in loose' \/ ~Busy(i)
      /\ i \notin loose' => temp[i] = NoDir /\ Whole(store[i])
  BY <1>1, <1>3, BeginIs, SMTT(40)
<1>5. /\ registry' \in [Ids -> Entries] /\ registry'[i].state = "compiling"
      /\ \A j \in Ids \ {i} : registry'[j] = registry[j]
  <2>1. Entry("compiling", Nothing) \in Entries
    BY Values
  <2>2. registry' \in [Ids -> Entries] /\ registry'[i] = Entry("compiling", Nothing)
        /\ \A j \in Ids \ {i} : registry'[j] = registry[j]
    BY <1>1, <1>2, <2>1
  <2>3. QED
    BY <2>2 DEF Entry
<1>6. Shape'
  BY <1>1, <1>4, <1>5 DEF DInv, Shape
<1>7. Touches(o, i)
  BY <1>1, <1>4, <1>5 DEF Touches
<1>8. Kinded(ops'[o], lazy) /\ Moving(ops'[o])
  BY <1>2, <1>4 DEF Kinded, Moving, Saving, Removing, Loading, Ended
<1>9. i \notin loose' => Staged(ops'[o], registry'[i], store'[i], temp'[i])
  BY <1>1, <1>4, <1>5 DEF Staged, LoadStages
<1>10. QED
  BY <1>1, <1>2, <1>4, <1>5, <1>6, <1>7, <1>8, <1>9, OneStep

-----------------------------------------------------------------------------
(* The steps of an operation under way.                                    *)
LEMMA OwnStep ==
  ASSUME DInv, NEW o \in Op, NEW i \in Ids, ops[o].id = i, Moving(ops[o]), up,
         UNCHANGED <<up, lazy>>, crashes' \in 0..MaxCrashes, faults' \in 0..MaxFaults,
         registry' \in [Ids -> Entries], store' \in [Ids -> Dir], temp' \in [Ids -> Dir],
         ops' \in [Op -> OpRecord], loose' \in {loose, loose \cup {i}},
         \A j \in Ids \ {i} :
           registry'[j] = registry[j] /\ store'[j] = store[j] /\ temp'[j] = temp[j],
         \A p \in Op \ {o} : ops'[p] = ops[p],
         Moving(ops'[o]) => ops'[o].id = i,
         Kinded(ops'[o], lazy), registry'[i].state = "pending" => lazy,
         ~store'[i].there => store'[i] = NoDir,
         i \notin loose' => Whole(store'[i]),
         i \notin loose' /\ Moving(ops'[o]) =>
           Staged(ops'[o], registry'[i], store'[i], temp'[i]),
         i \notin loose' /\ ~Moving(ops'[o]) =>
           Agree(registry'[i], store'[i]) /\ temp'[i] = NoDir
  PROVE  DInv'
<1>1. loose \in SUBSET Ids /\ up \in BOOLEAN /\ lazy \in BOOLEAN
  BY DEF DInv, Shape
<1>2. Shape'
  BY <1>1 DEF Shape
<1>3. Touches(o, i) /\ loose \subseteq loose'
  BY <1>1 DEF Touches
<1>4. QED
  BY <1>2, <1>3, OneStep

LEMMA RejectKeeps == ASSUME DInv, NEW o \in Op, Reject(o) PROVE DInv'
<1> DEFINE i == ops[o].id
<1>1. /\ UNCHANGED <<up, lazy, registry, store, temp, loose, crashes, faults>> /\ up
      /\ ops[o].step = "compile" /\ End(o, "rejected")
  BY DEF Reject, files
<1>2. /\ Moving(ops[o]) /\ ops[o].kind \in {"post", "put"}
  BY <1>1, OpFacts DEF Moving, Kinded, Saving, Ended
<1>3. i \notin loose => Agree(registry[i], store[i]) /\ temp[i] = NoDir /\ Whole(store[i])
  BY <1>1, <1>2, OpFacts DEF Staged, Deploying, Replacing
<1>4. /\ ops' \in [Op -> OpRecord] /\ \A p \in Op \ {o} : ops'[p] = ops[p]
      /\ ~Moving(ops'[o]) /\ Kinded(ops'[o], lazy)
  BY <1>1, EndIs DEF Ended
<1>5. crashes \in 0..MaxCrashes /\ faults \in 0..MaxFaults
  BY DEF DInv, Shape
<1>6. i \in Ids
  BY OpFacts
<1> HIDE DEF i
<1>7. QED
  BY <1>1, <1>2, <1>3, <1>4, <1>5, <1>6, OpFacts, OwnStep DEF i

LEMMA VersionIs ==
  ASSUME NEW entry \in Entries, NEW b
  PROVE  NextDeploymentVersion(PreviousMeta(entry), b) \in Version
<1>1. PreviousMeta(entry) \in Meta
  BY Values DEF PreviousMeta, Entries
<1>2. PreviousMeta(entry).ver \in Version
  BY <1>1 DEF Meta
<1>3. QED
  BY <1>2, Values DEF NextDeploymentVersion, Version

LEMMA AcceptKeeps == ASSUME DInv, NEW o \in Op, Accept(o) PROVE DInv'
<1> DEFINE i == ops[o].id
           b == ops[o].bundle
           ver == NextDeploymentVersion(PreviousMeta(registry[i]), b)
           op == [ops[o] EXCEPT !.step = "sources", !.ver = ver]
<1>1. /\ UNCHANGED <<up, lazy, registry, store, temp, loose, crashes, faults>> /\ up
      /\ ops[o].step = "compile" /\ <<b, ops[o].gate>> \notin Breaks
      /\ ops' = [ops EXCEPT ![o] = op]
  BY DEF Accept, files
<1>2. /\ Moving(ops[o]) /\ ops[o].kind \in {"post", "put"}
  BY <1>1, OpFacts DEF Moving, Kinded, Saving, Ended
<1>3. ver \in Version
  BY OpFacts, VersionIs
<1>4. /\ op \in OpRecord /\ op.step = "sources" /\ op.ver = ver /\ op.kind = ops[o].kind
      /\ op.id = i /\ op.bundle = b /\ op.gate = ops[o].gate
  <2> HIDE DEF ver
  <2>1. "sources" \in Step /\ ops[o] \in OpRecord
    BY OpFacts DEF Step
  <2>2. QED
    BY <1>3, <2>1 DEF OpRecord
<1>5. crashes \in 0..MaxCrashes /\ faults \in 0..MaxFaults /\ i \in Ids
  BY OpFacts DEF DInv, Shape
<1> HIDE DEF op
<1>6. ops'[o] = op /\ ops' \in [Op -> OpRecord] /\ \A p \in Op \ {o} : ops'[p] = ops[p]
  BY <1>1, <1>4, OpFacts
<1>7. i \notin loose => Staged(op, registry[i], store[i], temp[i]) /\ Whole(store[i])
  <2>1. ASSUME i \notin loose
        PROVE  /\ Deploying(ops[o], registry[i], store[i], temp[i]) /\ temp[i] = NoDir
               /\ Whole(store[i])
    BY <1>1, <1>2, <2>1, OpFacts DEF Staged, Replacing
  <2>2. ASSUME i \notin loose
        PROVE  Deploying(op, registry[i], store[i], temp[i])
    BY <1>1, <1>2, <1>4, <2>1, <2>2 DEF Deploying, Replacing
  <2>3. QED
    BY <1>2, <1>4, <2>1, <2>2 DEF Staged
<1>8. Kinded(op, lazy) /\ Moving(op)
  BY <1>2, <1>4, OpFacts DEF Kinded, Moving, Saving, Removing, Loading, Ended
<1> HIDE DEF i, b, ver
<1>9. QED
  BY <1>1, <1>2, <1>4, <1>5, <1>6, <1>7, <1>8, OpFacts, OwnStep DEF i

(* A step of saveBundle or deleteBundle, or the write of the cache.        *)
LEMMA GotoStep ==
  ASSUME DInv, NEW o \in Op, NEW i \in Ids, ops[o].id = i, Moving(ops[o]), up,
         NEW step \in Step \ (Ended \cup {"idle"}), Goto(o, step),
         UNCHANGED <<up, lazy, registry, loose, crashes, faults>>,
         store' \in [Ids -> Dir], temp' \in [Ids -> Dir],
         \A j \in Ids \ {i} : store'[j] = store[j] /\ temp'[j] = temp[j],
         ~store'[i].there => store'[i] = NoDir,
         Kinded(ops'[o], lazy),
         i \notin loose => Whole(store'[i]),
         i \notin loose => Staged(ops'[o], registry[i], store'[i], temp'[i])
  PROVE  DInv'
<1>1. /\ ops' \in [Op -> OpRecord] /\ \A p \in Op \ {o} : ops'[p] = ops[p]
      /\ ops'[o].step = step /\ ops'[o].id = i
  BY GotoIs
<1>2. Moving(ops'[o])
  BY <1>1 DEF Moving
<1>3. crashes \in 0..MaxCrashes /\ faults \in 0..MaxFaults
  BY DEF DInv, Shape
<1>4. registry[i].state = "pending" => lazy
  BY OpFacts
<1>5. QED
  BY <1>1, <1>2, <1>3, <1>4, OpFacts, OwnStep

LEMMA WriteSourcesKeeps == ASSUME DInv, NEW o \in Op, WriteSources(o) PROVE DInv'
<1>1. PICK i \in Ids : i = ops[o].id
  BY OpFacts
<1> DEFINE tm == [temp[i] EXCEPT !.src = temp[i].src \cup {ops[o].bundle}, !.there = TRUE]
<1>2. /\ UNCHANGED <<up, lazy, registry, store, loose, crashes, faults>> /\ up
      /\ ops[o].step = "sources" /\ Goto(o, "metadata") /\ temp' = [temp EXCEPT ![i] = tm]
  <2>1. /\ UNCHANGED <<up, lazy, registry, store, loose, crashes, faults>> /\ up
        /\ ops[o].step = "sources" /\ Goto(o, "metadata")
    BY DEF WriteSources
  <2>2. temp' = [temp EXCEPT ![i] = tm]
    BY <1>1, Zenon DEF WriteSources
  <2>3. QED
    BY <2>1, <2>2
<1>3. /\ Moving(ops[o]) /\ ops[o].kind \in {"post", "put"} /\ ops[o].bundle \in Bundles
  BY <1>2, OpFacts DEF Moving, Kinded, Saving, Ended
<1>4. "metadata" \in Step \ (Ended \cup {"idle"})
  BY DEF Step, Ended
<1>5. /\ ops'[o].step = "metadata" /\ ops'[o].kind = ops[o].kind /\ ops'[o].bundle = ops[o].bundle
      /\ ops'[o].gate = ops[o].gate /\ ops'[o].ver = ops[o].ver
  BY <1>2, <1>4, GotoIs
<1>6. tm \in Dir
  BY <1>1, <1>3, OpFacts DEF Dir
<1>7. temp' \in [Ids -> Dir] /\ temp'[i] = tm /\ \A j \in Ids \ {i} : temp'[j] = temp[j]
  <2> HIDE DEF tm
  <2>1. QED
    BY <1>1, <1>2, <1>6, OpFacts
<1>8. ASSUME i \notin loose
      PROVE  Whole(store[i]) /\ Staged(ops'[o], registry[i], store[i], tm)
  <2>1. /\ Deploying(ops[o], registry[i], store[i], temp[i]) /\ temp[i] = NoDir /\ Whole(store[i])
    BY <1>1, <1>2, <1>3, <1>8, OpFacts DEF Staged, Replacing
  <2>2. tm = [src |-> {ops[o].bundle}, meta |-> Nothing, cache |-> Nothing, there |-> TRUE]
    <3>1. tm.src = temp[i].src \cup {ops[o].bundle} /\ tm.there = TRUE
          /\ tm.meta = temp[i].meta /\ tm.cache = temp[i].cache
      BY <1>1, OpFacts DEF Dir
    <3>2. temp[i].src = {} /\ temp[i].meta = Nothing /\ temp[i].cache = Nothing
      BY <2>1 DEF NoDir
    <3> HIDE DEF tm
    <3>3. QED
      BY <1>6, <3>1, <3>2 DEF Dir
  <2> HIDE DEF tm
  <2>3. Deploying(ops'[o], registry[i], store[i], tm)
    BY <1>2, <1>3, <1>5, <2>1, <2>2 DEF Deploying, Replacing
  <2>4. QED
    BY <1>3, <1>5, <2>1, <2>3 DEF Staged
<1>9. Kinded(ops'[o], lazy)
  BY <1>3, <1>5 DEF Kinded, Saving, Removing, Loading
<1> HIDE DEF tm
<1>10. QED
  BY <1>1, <1>2, <1>3, <1>4, <1>7, <1>8, <1>9, OpFacts, GotoStep

LEMMA WriteMetadataKeeps == ASSUME DInv, NEW o \in Op, WriteMetadata(o) PROVE DInv'
<1>1. PICK i \in Ids : i = ops[o].id
  BY OpFacts
<1> DEFINE tm == [temp[i] EXCEPT !.meta = Uploaded(ops[o])]
<1>2. /\ UNCHANGED <<up, lazy, registry, store, loose, crashes, faults>> /\ up
      /\ ops[o].step = "metadata" /\ Goto(o, "remove") /\ temp' = [temp EXCEPT ![i] = tm]
  BY <1>1 DEF WriteMetadata, Uploaded
<1>3. /\ Moving(ops[o]) /\ ops[o].kind \in {"post", "put"} /\ ops[o].bundle \in Bundles
  <2>1. Moving(ops[o])
    BY <1>2 DEF Moving, Ended
  <2>2. ops[o].kind \in {"post", "put"}
    BY <1>2, OpFacts DEF Kinded, Saving, Removing, Loading
  <2>3. QED
    BY <2>1, <2>2, OpFacts DEF Kinded
<1>4. "remove" \in Step \ (Ended \cup {"idle"})
  BY DEF Step, Ended
<1>5. /\ ops'[o].step = "remove" /\ ops'[o].kind = ops[o].kind /\ ops'[o].bundle = ops[o].bundle
      /\ ops'[o].gate = ops[o].gate /\ ops'[o].ver = ops[o].ver
  BY <1>2, <1>4, GotoIs
<1>6. tm \in Dir
  <2>1. Uploaded(ops[o]) \in Meta
    BY <1>3, OpFacts DEF Uploaded, Meta, OpRecord
  <2>2. QED
    BY <1>1, <2>1, OpFacts DEF Dir
<1>7. temp' \in [Ids -> Dir] /\ temp'[i] = tm /\ \A j \in Ids \ {i} : temp'[j] = temp[j]
  <2> HIDE DEF tm
  <2>1. QED
    BY <1>1, <1>2, <1>6, OpFacts
<1>8. ASSUME i \notin loose
      PROVE  Whole(store[i]) /\ Staged(ops'[o], registry[i], store[i], tm)
  <2>1. Deploying(ops[o], registry[i], store[i], temp[i]) /\ Whole(store[i])
    BY <1>1, <1>2, <1>3, <1>8, OpFacts DEF Staged
  <2>2. tm = [src |-> {ops[o].bundle}, meta |-> Uploaded(ops[o]), cache |-> Nothing,
              there |-> TRUE]
    <3>1. tm.src = temp[i].src /\ tm.there = temp[i].there
          /\ tm.meta = Uploaded(ops[o]) /\ tm.cache = temp[i].cache
      BY <1>1, OpFacts DEF Dir
    <3>2. temp[i].src = {ops[o].bundle} /\ temp[i].cache = Nothing /\ temp[i].there = TRUE
      BY <1>2, <2>1 DEF Deploying
    <3> HIDE DEF tm
    <3>3. QED
      BY <1>6, <3>1, <3>2 DEF Dir
  <2>3. Uploaded(ops'[o]) = Uploaded(ops[o])
    BY <1>5 DEF Uploaded
  <2> HIDE DEF tm
  <2>4. Deploying(ops'[o], registry[i], store[i], tm)
    BY <1>2, <1>3, <1>5, <2>1, <2>2, <2>3 DEF Deploying, Replacing
  <2>5. QED
    BY <1>3, <1>5, <2>1, <2>4 DEF Staged, Replacing
<1>9. Kinded(ops'[o], lazy)
  BY <1>3, <1>5 DEF Kinded, Saving, Removing, Loading
<1> HIDE DEF tm
<1>10. QED
  BY <1>1, <1>2, <1>3, <1>4, <1>7, <1>8, <1>9, OpFacts, GotoStep

(* The removal of the directory: a deploy goes on with the rename, a       *)
(* deletion with the entry.                                                *)
LEMMA RemovalStage ==
  ASSUME DInv, NEW o \in Op, NEW i \in Ids, ops[o].id = i, ops[o].step \in Removing,
         NEW step \in {"removing", AfterRemoval(o)}, Goto(o, step), NEW st,
         step = "entry" => st.meta = Nothing
  PROVE  /\ step \in Step \ (Ended \cup {"idle"}) /\ Moving(ops[o]) /\ Kinded(ops'[o], lazy)
         /\ i \notin loose => Whole(store[i]) /\ Staged(ops'[o], registry[i], st, temp[i])
<1>1. ops[o].kind \in {"post", "put", "delete"} /\ Moving(ops[o])
  BY OpFacts DEF Kinded, Removing, Moving, Ended
<1>2. step \in Step \ (Ended \cup {"idle"})
  BY DEF AfterRemoval, Step, Ended
<1>3. /\ ops'[o].step = step /\ ops'[o].kind = ops[o].kind /\ ops'[o].bundle = ops[o].bundle
      /\ ops'[o].gate = ops[o].gate /\ ops'[o].ver = ops[o].ver
  BY <1>2, GotoIs
<1>4. \/ step = "removing"
      \/ step = "rename" /\ ops[o].kind \in {"post", "put"}
      \/ step = "entry" /\ ops[o].kind = "delete"
  BY <1>1 DEF AfterRemoval, Deploys
<1>5. Kinded(ops'[o], lazy)
  BY <1>1, <1>3, <1>4, OpFacts DEF Kinded, Saving, Removing, Loading
<1>6. ASSUME i \notin loose
      PROVE  Whole(store[i]) /\ Staged(ops'[o], registry[i], st, temp[i])
  <2>1. Staged(ops[o], registry[i], store[i], temp[i]) /\ Whole(store[i])
    BY <1>1, <1>6, OpFacts
  <2>2. CASE ops[o].kind = "delete"
    BY <1>3, <1>4, <2>1, <2>2 DEF Staged
  <2>3. CASE ops[o].kind \in {"post", "put"}
    <3>1. Uploaded(ops'[o]) = Uploaded(ops[o])
      BY <1>3 DEF Uploaded
    <3>2. Deploying(ops[o], registry[i], store[i], temp[i])
      BY <2>1, <2>3 DEF Staged
    <3>3. step \in {"removing", "rename"}
      BY <1>4, <2>3
    <3>4. Deploying(ops'[o], registry[i], st, temp[i])
      BY <1>3, <2>3, <3>1, <3>2, <3>3 DEF Deploying, Removing, Replacing
    <3>5. QED
      BY <1>3, <2>1, <2>3, <3>3, <3>4 DEF Staged, Replacing
  <2>4. QED
    BY <1>1, <2>2, <2>3
<1>7. QED
  BY <1>1, <1>2, <1>5, <1>6

LEMMA RemnantsAre ==
  ASSUME NEW st \in Dir, NEW rest \in Remnants(st)
  PROVE  /\ rest \in Dir /\ rest.there = st.there
         /\ Whole(st) => Whole(rest)
<1>1. PICK s \in {{}, st.src}, m \in {Nothing, st.meta}, c \in {Nothing, st.cache} :
        rest = [st EXCEPT !.src = s, !.meta = m, !.cache = c]
  BY DEF Remnants
<1>2. /\ rest \in Dir /\ rest.there = st.there /\ rest.src = s /\ rest.meta = m /\ rest.cache = c
  <2>1. s \in SUBSET Bundles /\ m \in Meta /\ c \in Meta
    BY <1>1, Values DEF Dir
  <2>2. QED
    BY <1>1, <2>1 DEF Dir
<1>3. QED
  BY <1>1, <1>2 DEF Whole

LEMMA BeginRemovalKeeps == ASSUME DInv, NEW o \in Op, BeginRemoval(o) PROVE DInv'
<1>1. PICK i \in Ids : i = ops[o].id
  BY OpFacts
<1>2. /\ UNCHANGED <<up, lazy, registry, temp, loose, crashes, faults>> /\ up
      /\ ops[o].step \in Removing
  BY DEF BeginRemoval, Removing
<1>3. CASE store[i].there
  <2>1. PICK rest \in Remnants(store[i]) : store' = [store EXCEPT ![i] = rest]
    BY <1>1, <1>3 DEF BeginRemoval
  <2>2. Goto(o, "removing")
    BY <1>1, <1>3 DEF BeginRemoval
  <2>3. rest \in Dir /\ rest.there /\ (Whole(store[i]) => Whole(rest))
    BY <1>1, <1>3, OpFacts, RemnantsAre
  <2>4. store' \in [Ids -> Dir] /\ store'[i] = rest /\ \A j \in Ids \ {i} : store'[j] = store[j]
    BY <2>1, <2>3, OpFacts
  <2>5. /\ "removing" \in Step \ (Ended \cup {"idle"}) /\ Moving(ops[o]) /\ Kinded(ops'[o], lazy)
        /\ i \notin loose => Whole(store[i]) /\ Staged(ops'[o], registry[i], rest, temp[i])
    BY <1>1, <1>2, <2>2, RemovalStage
  <2>6. QED
    BY <1>1, <1>2, <2>2, <2>3, <2>4, <2>5, OpFacts, GotoStep
<1>4. CASE ~store[i].there
  <2>1. Goto(o, AfterRemoval(o)) /\ store' = store
    BY <1>1, <1>4 DEF BeginRemoval
  <2>2. store[i].meta = Nothing
    BY <1>1, <1>4, OpFacts DEF NoDir
  <2>3. /\ AfterRemoval(o) \in Step \ (Ended \cup {"idle"}) /\ Moving(ops[o])
        /\ Kinded(ops'[o], lazy)
        /\ i \notin loose => Whole(store[i]) /\ Staged(ops'[o], registry[i], store[i], temp[i])
    BY <1>1, <1>2, <2>1, <2>2, RemovalStage
  <2>4. QED
    BY <1>1, <1>2, <2>1, <2>3, OpFacts, GotoStep
<1>5. QED
  BY <1>3, <1>4

LEMMA NoDirIs == Whole(NoDir) /\ NoDir.meta = Nothing /\ NoDir.src = {}
BY DEF Whole, NoDir

LEMMA EndRemovalKeeps == ASSUME DInv, NEW o \in Op, EndRemoval(o) PROVE DInv'
<1>1. PICK i \in Ids : i = ops[o].id
  BY OpFacts
<1>2. /\ UNCHANGED <<up, lazy, registry, temp, loose, crashes, faults>> /\ up
      /\ ops[o].step \in Removing /\ Goto(o, AfterRemoval(o))
      /\ store' = [store EXCEPT ![i] = NoDir]
  BY <1>1 DEF EndRemoval, Removing
<1>3. store' \in [Ids -> Dir] /\ store'[i] = NoDir /\ \A j \in Ids \ {i} : store'[j] = store[j]
  BY <1>2, OpFacts, Values
<1>4. /\ AfterRemoval(o) \in Step \ (Ended \cup {"idle"}) /\ Moving(ops[o])
      /\ Kinded(ops'[o], lazy)
      /\ i \notin loose => Whole(store[i]) /\ Staged(ops'[o], registry[i], NoDir, temp[i])
  BY <1>1, <1>2, NoDirIs, RemovalStage
<1>5. QED
  BY <1>1, <1>2, <1>3, <1>4, NoDirIs, OpFacts, GotoStep

LEMMA RenameKeeps == ASSUME DInv, NEW o \in Op, Rename(o) PROVE DInv'
<1>1. PICK i \in Ids : i = ops[o].id
  BY OpFacts
<1>2. /\ UNCHANGED <<up, lazy, registry, loose, crashes, faults>> /\ up
      /\ ops[o].step = "rename" /\ Goto(o, "cache") /\ temp[i].there
      /\ store' = [store EXCEPT ![i] = temp[i]] /\ temp' = [temp EXCEPT ![i] = NoDir]
  BY <1>1 DEF Rename
<1>3. /\ Moving(ops[o]) /\ ops[o].kind \in {"post", "put"}
  BY <1>2, OpFacts DEF Moving, Kinded, Saving, Ended
<1>4. "cache" \in Step \ (Ended \cup {"idle"})
  BY DEF Step, Ended
<1>5. /\ ops'[o].step = "cache" /\ ops'[o].kind = ops[o].kind /\ ops'[o].bundle = ops[o].bundle
      /\ ops'[o].gate = ops[o].gate /\ ops'[o].ver = ops[o].ver
  BY <1>2, <1>4, GotoIs
<1>6. /\ store' \in [Ids -> Dir] /\ store'[i] = temp[i] /\ \A j \in Ids \ {i} : store'[j] = store[j]
      /\ temp' \in [Ids -> Dir] /\ temp'[i] = NoDir /\ \A j \in Ids \ {i} : temp'[j] = temp[j]
  BY <1>1, <1>2, OpFacts, Values
<1>7. ASSUME i \notin loose
      PROVE  Whole(temp[i]) /\ Staged(ops'[o], registry[i], temp[i], NoDir)
  <2>1. Deploying(ops[o], registry[i], store[i], temp[i])
    BY <1>1, <1>3, <1>7, OpFacts DEF Staged
  <2>2. /\ temp[i] = [src |-> {ops[o].bundle}, meta |-> Uploaded(ops[o]), cache |-> Nothing,
                      there |-> TRUE]
    BY <1>2, <2>1 DEF Deploying, Replacing
  <2>3. /\ temp[i].src = {ops[o].bundle} /\ temp[i].meta = Uploaded(ops[o])
        /\ temp[i].cache = Nothing
    BY <2>2
  <2>4. Uploaded(ops'[o]) = Uploaded(ops[o]) /\ Uploaded(ops[o]).of = ops[o].bundle
    BY <1>5 DEF Uploaded
  <2>5. Whole(temp[i])
    BY <2>3, <2>4 DEF Whole
  <2>6. Deploying(ops'[o], registry[i], temp[i], NoDir)
    BY <1>2, <1>3, <1>5, <2>1, <2>3, <2>4 DEF Deploying, Replacing
  <2>7. QED
    BY <1>3, <1>5, <2>5, <2>6 DEF Staged
<1>8. Kinded(ops'[o], lazy)
  BY <1>3, <1>5, OpFacts DEF Kinded, Saving, Removing, Loading
<1>9. QED
  BY <1>1, <1>2, <1>3, <1>4, <1>6, <1>7, <1>8, OpFacts, GotoStep

(* An exception in saveBundle or deleteBundle.                             *)
LEMMA FailFilesKeeps == ASSUME DInv, NEW o \in Op, FailFiles(o) PROVE DInv'
<1>1. PICK i \in Ids : i = ops[o].id
  BY OpFacts
<1>2. /\ UNCHANGED <<up, lazy, registry, store, temp, crashes>> /\ up
      /\ ops[o].step \in {"sources", "metadata", "remove", "removing", "rename"}
      /\ loose' = loose \cup {i} /\ (End(o, "dead") \/ End(o, "rejected"))
  BY <1>1 DEF FailFiles, files
<1>3. Moving(ops[o])
  BY <1>2 DEF Moving, Ended
<1>4. /\ ops' \in [Op -> OpRecord] /\ \A p \in Op \ {o} : ops'[p] = ops[p]
      /\ ~Moving(ops'[o]) /\ Kinded(ops'[o], lazy)
  BY <1>2, EndIs DEF Ended
<1>5. crashes' \in 0..MaxCrashes /\ faults' \in 0..MaxFaults
  <2>1. crashes \in 0..MaxCrashes /\ faults \in 0..MaxFaults /\ MaxFaults \in Nat
    BY DeploymentsAssumption DEF DInv, Shape
  <2>2. QED
    BY <1>2, <2>1 DEF FailFiles
<1>6. QED
  BY <1>1, <1>2, <1>3, <1>4, <1>5, OpFacts, OwnStep

(* The write of the cache changes nothing else, whether it fails or not.   *)
LEMMA WriteCacheIs ==
  ASSUME DInv, NEW o \in Op, NEW i \in Ids, i = ops[o].id, NEW meta \in Meta, WriteCache(o, meta)
  PROVE  /\ store' \in [Ids -> Dir] /\ \A j \in Ids \ {i} : store'[j] = store[j]
         /\ ~store'[i].there => store'[i] = NoDir
         /\ store'[i].src = store[i].src /\ store'[i].meta = store[i].meta
         /\ store'[i].cache \in {store[i].cache, meta}
<1>1. store \in [Ids -> Dir] /\ store[i] \in Dir /\ (~store[i].there => store[i] = NoDir)
  BY OpFacts
<1>2. CASE store' = store
  BY <1>1, <1>2
<1>3. CASE store[i].there /\ store' = [store EXCEPT ![i] = [store[i] EXCEPT !.cache = meta]]
  <2> DEFINE st == [store[i] EXCEPT !.cache = meta]
  <2>1. st \in Dir /\ st.there /\ st.src = store[i].src /\ st.meta = store[i].meta /\ st.cache = meta
    BY <1>1, <1>3 DEF Dir
  <2> HIDE DEF st
  <2>2. store' = [store EXCEPT ![i] = st]
    BY <1>3 DEF st
  <2>3. QED
    BY <1>1, <2>1, <2>2
<1>4. QED
  BY <1>2, <1>3 DEF WriteCache

LEMMA SaveCacheKeeps == ASSUME DInv, NEW o \in Op, SaveCache(o) PROVE DInv'
<1>1. PICK i \in Ids : i = ops[o].id
  BY OpFacts
<1>2. /\ UNCHANGED <<up, lazy, registry, temp, loose, crashes, faults>> /\ up
      /\ ops[o].step = "cache" /\ Goto(o, "swap") /\ WriteCache(o, Uploaded(ops[o]))
  BY DEF SaveCache, Uploaded
<1>3. /\ Moving(ops[o]) /\ ops[o].kind \in {"post", "put"} /\ ops[o].bundle \in Bundles
  BY <1>2, OpFacts DEF Moving, Kinded, Saving, Ended
<1>4. "swap" \in Step \ (Ended \cup {"idle"})
  BY DEF Step, Ended
<1>5. /\ ops'[o].step = "swap" /\ ops'[o].kind = ops[o].kind /\ ops'[o].bundle = ops[o].bundle
      /\ ops'[o].gate = ops[o].gate /\ ops'[o].ver = ops[o].ver
  BY <1>2, <1>4, GotoIs
<1>6. Uploaded(ops[o]) \in Meta /\ Uploaded(ops[o]) = Uploaded(ops'[o])
  BY <1>3, <1>5, OpFacts DEF Uploaded, Meta, OpRecord
<1>7. /\ store' \in [Ids -> Dir] /\ \A j \in Ids \ {i} : store'[j] = store[j]
      /\ ~store'[i].there => store'[i] = NoDir
      /\ store'[i].src = store[i].src /\ store'[i].meta = store[i].meta
      /\ store'[i].cache \in {store[i].cache, Uploaded(ops[o])}
  BY <1>1, <1>2, <1>6, WriteCacheIs
<1>8. ASSUME i \notin loose
      PROVE  Whole(store'[i]) /\ Staged(ops'[o], registry[i], store'[i], temp[i])
  <2>1. /\ Deploying(ops[o], registry[i], store[i], temp[i]) /\ temp[i] = NoDir /\ Whole(store[i])
    BY <1>1, <1>2, <1>3, <1>8, OpFacts DEF Staged, Replacing
  <2>2. store[i].meta = Uploaded(ops[o])
    BY <1>2, <2>1 DEF Deploying
  <2>3. Whole(store'[i])
    BY <1>7, <2>1, <2>2 DEF Whole
  <2>4. Deploying(ops'[o], registry[i], store'[i], temp[i])
    BY <1>2, <1>3, <1>5, <1>6, <1>7, <2>1 DEF Deploying, Replacing
  <2>5. QED
    BY <1>3, <1>5, <2>1, <2>3, <2>4 DEF Staged
<1>9. Kinded(ops'[o], lazy)
  BY <1>3, <1>5, OpFacts DEF Kinded, Saving, Removing, Loading
<1>10. QED
  BY <1>1, <1>2, <1>3, <1>4, <1>7, <1>8, <1>9, OpFacts, GotoStep

(* A step that ends an operation and sets the entry.                       *)
LEMMA EntrySet ==
  ASSUME DInv, NEW o \in Op, NEW i \in Ids, i = ops[o].id, up, Moving(ops[o]),
         NEW entry \in Entries, registry' = [registry EXCEPT ![i] = entry],
         NEW step \in Ended, End(o, step), entry.state # "pending",
         UNCHANGED <<up, lazy, store, temp, loose, crashes, faults>>,
         i \notin loose => Agree(entry, store[i]) /\ temp[i] = NoDir
  PROVE  DInv'
<1>1. /\ ops' \in [Op -> OpRecord] /\ \A p \in Op \ {o} : ops'[p] = ops[p]
      /\ ~Moving(ops'[o]) /\ Kinded(ops'[o], lazy)
  BY EndIs
<1>2. crashes \in 0..MaxCrashes /\ faults \in 0..MaxFaults
  BY DEF DInv, Shape
<1>3. /\ registry' \in [Ids -> Entries] /\ registry'[i] = entry
      /\ \A j \in Ids \ {i} : registry'[j] = registry[j]
  BY OpFacts
<1>4. QED
  BY <1>1, <1>2, <1>3, OpFacts, OwnStep

LEMMA SwapKeeps == ASSUME DInv, NEW o \in Op, Swap(o) PROVE DInv'
<1>1. PICK i \in Ids : i = ops[o].id
  BY OpFacts
<1> DEFINE entry == Entry("ready", Uploaded(ops[o]))
<1>2. /\ UNCHANGED <<up, lazy, store, temp, loose, crashes, faults>> /\ up
      /\ ops[o].step = "swap" /\ End(o, "applied") /\ registry' = [registry EXCEPT ![i] = entry]
  BY <1>1 DEF Swap, files, Uploaded
<1>3. /\ Moving(ops[o]) /\ ops[o].kind \in {"post", "put"} /\ ops[o].bundle \in Bundles
  BY <1>2, OpFacts DEF Moving, Kinded, Saving, Ended
<1>4. entry \in Entries /\ entry.state = "ready" /\ entry.meta = Uploaded(ops[o])
      /\ Uploaded(ops[o]).of = ops[o].bundle
  BY <1>3, OpFacts, DeploymentsAssumption DEF Entry, Entries, Uploaded, Meta, State, OpRecord
<1> HIDE DEF entry
<1>5. ASSUME i \notin loose
      PROVE  Agree(entry, store[i]) /\ temp[i] = NoDir
  <2>1. Deploying(ops[o], registry[i], store[i], temp[i]) /\ temp[i] = NoDir
    BY <1>1, <1>2, <1>3, <1>5, OpFacts DEF Staged, Replacing
  <2>2. store[i].src = {ops[o].bundle} /\ store[i].meta = Uploaded(ops[o])
    BY <1>2, <2>1 DEF Deploying
  <2>3. QED
    BY <1>4, <2>1, <2>2 DEF Agree
<1>6. "applied" \in Ended
  BY DEF Ended
<1>7. QED
  BY <1>1, <1>2, <1>3, <1>4, <1>5, <1>6, EntrySet

LEMMA DeleteEntryKeeps == ASSUME DInv, NEW o \in Op, DeleteEntry(o) PROVE DInv'
<1>1. PICK i \in Ids : i = ops[o].id
  BY OpFacts
<1>2. /\ UNCHANGED <<up, lazy, store, temp, loose, crashes, faults>> /\ up
      /\ ops[o].step = "entry" /\ End(o, "applied") /\ registry' = [registry EXCEPT ![i] = Absent]
  BY <1>1 DEF DeleteEntry, files
<1>3. Moving(ops[o])
  BY <1>2 DEF Moving, Ended
<1>4. Absent \in Entries /\ Absent.state = "absent" /\ "applied" \in Ended
  BY Values DEF Absent, Entry, Ended
<1>5. i \notin loose => store[i].meta = Nothing /\ temp[i] = NoDir
  BY <1>1, <1>2, <1>3, OpFacts DEF Staged, Replacing
<1>6. i \notin loose => Agree(Absent, store[i]) /\ temp[i] = NoDir
  BY <1>4, <1>5 DEF Agree
<1>7. QED
  BY <1>1, <1>2, <1>3, <1>4, <1>6, EntrySet

-----------------------------------------------------------------------------
(* The steps of a lazy load.                                               *)
LEMMA ReadSourcesKeeps == ASSUME DInv, NEW o \in Op, ReadSources(o) PROVE DInv'
<1>1. PICK i \in Ids : i = ops[o].id
  BY OpFacts
<1> DEFINE op == [ops[o] EXCEPT !.src = store[i].src, !.step = "decode"]
<1>2. /\ UNCHANGED <<up, lazy, registry, store, temp, loose, crashes, faults>> /\ up
      /\ ops[o].step = "read" /\ ops' = [ops EXCEPT ![o] = op]
  BY <1>1 DEF ReadSources, files
<1>3. Moving(ops[o]) /\ ops[o].kind = "load" /\ lazy
  BY <1>2, OpFacts DEF Moving, Kinded, Loading, Ended
<1>4. /\ op \in OpRecord /\ op.step = "decode" /\ op.kind = "load" /\ op.id = i
      /\ op.src = store[i].src
  <2>1. store[i].src \in SUBSET Bundles /\ "decode" \in Step /\ ops[o] \in OpRecord
    BY <1>1, OpFacts DEF Dir, Step
  <2>2. QED
    BY <1>1, <1>3, <2>1 DEF OpRecord
<1> HIDE DEF op
<1>5. ops'[o] = op /\ ops' \in [Op -> OpRecord] /\ \A p \in Op \ {o} : ops'[p] = ops[p]
  BY <1>2, <1>4, OpFacts
<1>6. ASSUME i \notin loose
      PROVE  Staged(op, registry[i], store[i], temp[i])
  <2>1. LoadStages(ops[o], registry[i], store[i]) /\ temp[i] = NoDir
    BY <1>1, <1>2, <1>3, <1>6, OpFacts DEF Staged, Replacing
  <2>2. LoadStages(op, registry[i], store[i])
    BY <1>2, <1>4, <2>1 DEF LoadStages
  <2>3. QED
    BY <1>4, <2>1, <2>2 DEF Staged
<1>7. Kinded(op, lazy) /\ Moving(op)
  BY <1>3, <1>4 DEF Kinded, Moving, Saving, Removing, Loading, Ended
<1>8. crashes \in 0..MaxCrashes /\ faults \in 0..MaxFaults
  BY DEF DInv, Shape
<1>9. QED
  BY <1>1, <1>2, <1>3, <1>4, <1>5, <1>6, <1>7, <1>8, OpFacts, OwnStep

LEMMA DecodeMetadataKeeps == ASSUME DInv, NEW o \in Op, DecodeMetadata(o) PROVE DInv'
<1>1. PICK i \in Ids : i = ops[o].id
  BY OpFacts
<1> DEFINE op == [ops[o] EXCEPT !.ver = store[i].meta.ver, !.step = "insert"]
<1>2. /\ UNCHANGED <<up, lazy, registry, store, temp, loose, crashes, faults>> /\ up
      /\ ops[o].step = "decode" /\ ops' = [ops EXCEPT ![o] = op] /\ store[i].meta # Nothing
  BY <1>1 DEF DecodeMetadata, files
<1>3. Moving(ops[o]) /\ ops[o].kind = "load" /\ lazy
  BY <1>2, OpFacts DEF Moving, Kinded, Loading, Ended
<1>4. /\ op \in OpRecord /\ op.step = "insert" /\ op.kind = "load" /\ op.id = i
      /\ op.src = ops[o].src /\ op.ver = store[i].meta.ver
  <2>1. store[i].meta.ver \in Version /\ "insert" \in Step /\ ops[o] \in OpRecord
    BY <1>1, OpFacts DEF Dir, Meta, Step
  <2>2. QED
    BY <1>1, <1>3, <2>1 DEF OpRecord
<1> HIDE DEF op
<1>5. ops'[o] = op /\ ops' \in [Op -> OpRecord] /\ \A p \in Op \ {o} : ops'[p] = ops[p]
  BY <1>2, <1>4, OpFacts
<1>6. ASSUME i \notin loose
      PROVE  Staged(op, registry[i], store[i], temp[i])
  <2>1. LoadStages(ops[o], registry[i], store[i]) /\ temp[i] = NoDir
    BY <1>1, <1>2, <1>3, <1>6, OpFacts DEF Staged, Replacing
  <2>2. LoadStages(op, registry[i], store[i])
    BY <1>2, <1>4, <2>1 DEF LoadStages
  <2>3. QED
    BY <1>4, <2>1, <2>2 DEF Staged
<1>7. Kinded(op, lazy) /\ Moving(op)
  BY <1>3, <1>4 DEF Kinded, Moving, Saving, Removing, Loading, Ended
<1>8. crashes \in 0..MaxCrashes /\ faults \in 0..MaxFaults
  BY DEF DInv, Shape
<1>9. QED
  BY <1>1, <1>2, <1>3, <1>4, <1>5, <1>6, <1>7, <1>8, OpFacts, OwnStep

(* Sources of one bundle compile to that bundle, or do not compile.        *)
LEMMA CompiledIs ==
  ASSUME NEW src \in SUBSET Bundles, NEW b \in Compiled(src)
  PROVE  /\ b \in Bundles \cup {Mixed} /\ b # None
         /\ \A m : src \subseteq {m} => b = m /\ src = {m}
<1>1. b \in Bundles \cup {Mixed} /\ b # None
  BY DeploymentsAssumption DEF Compiled
<1>2. ASSUME NEW m, src \subseteq {m}
      PROVE  b = m /\ src = {m}
  <2>1. src = {} \/ src = {m}
    BY <1>2
  <2>2. Cardinality({}) = 0 /\ Cardinality({m}) = 1
    BY FS_EmptySet, FS_Singleton
  <2>3. b \in src
    BY <2>1, <2>2 DEF Compiled
  <2>4. QED
    BY <1>2, <2>3
<1>3. QED
  BY <1>1, <1>2

LEMMA MetaIs ==
  ASSUME NEW meta \in Meta
  PROVE  [of |-> meta.of, ver |-> meta.ver] = meta
BY DEF Meta

LEMMA InsertKeeps == ASSUME DInv, NEW o \in Op, Insert(o) PROVE DInv'
<1>1. PICK i \in Ids : i = ops[o].id
  BY OpFacts
<1>2. PICK b \in Compiled(ops[o].src) :
        /\ registry' = [registry EXCEPT ![i] = Entry("ready", [of |-> b, ver |-> ops[o].ver])]
        /\ ops' = [ops EXCEPT ![o] = [ops[o] EXCEPT !.step = "recache", !.gate = b]]
  BY <1>1 DEF Insert
<1> DEFINE op == [ops[o] EXCEPT !.step = "recache", !.gate = b]
           entry == Entry("ready", [of |-> b, ver |-> ops[o].ver])
<1>3. /\ UNCHANGED <<up, lazy, store, temp, loose, crashes, faults>> /\ up
      /\ ops[o].step = "insert"
  BY DEF Insert, files
<1>4. Moving(ops[o]) /\ ops[o].kind = "load" /\ lazy
  BY <1>3, OpFacts DEF Moving, Kinded, Loading, Ended
<1>5. ops[o].src \in SUBSET Bundles /\ ops[o].ver \in Version
  BY OpFacts DEF OpRecord
<1>6. b \in Bundles \cup {Mixed} /\ b # None
  BY <1>5, CompiledIs
<1>7. /\ op \in OpRecord /\ op.step = "recache" /\ op.kind = "load" /\ op.id = i
      /\ op.gate = b /\ op.ver = ops[o].ver
  <2>1. "recache" \in Step /\ ops[o] \in OpRecord
    BY OpFacts DEF Step
  <2>2. QED
    BY <1>1, <1>4, <1>6, <2>1 DEF OpRecord
<1>8. /\ entry \in Entries /\ entry.state = "ready" /\ entry.meta = [of |-> b, ver |-> ops[o].ver]
      /\ entry.meta.of = b
  BY <1>5, <1>6 DEF Entry, Entries, Meta, State
<1>9. entry = Entry("ready", [of |-> op.gate, ver |-> op.ver])
  BY <1>7
<1> HIDE DEF op, entry
<1>10. ops' = [ops EXCEPT ![o] = op] /\ registry' = [registry EXCEPT ![i] = entry]
  BY <1>2 DEF op, entry
<1>11. ops'[o] = op /\ ops' \in [Op -> OpRecord] /\ \A p \in Op \ {o} : ops'[p] = ops[p]
  BY <1>7, <1>10, OpFacts
<1>12. /\ registry' \in [Ids -> Entries] /\ registry'[i] = entry
       /\ \A j \in Ids \ {i} : registry'[j] = registry[j]
  BY <1>8, <1>10, OpFacts
<1>13. ASSUME i \notin loose
       PROVE  Staged(op, entry, store[i], temp[i])
  <2>1. LoadStages(ops[o], registry[i], store[i]) /\ temp[i] = NoDir /\ Whole(store[i])
    BY <1>1, <1>3, <1>4, <1>13, OpFacts DEF Staged, Replacing
  <2>2. /\ ops[o].src = store[i].src /\ store[i].meta # Nothing
        /\ ops[o].ver = store[i].meta.ver /\ store[i].src \subseteq {store[i].meta.of}
    BY <1>3, <2>1 DEF LoadStages, Whole
  <2>3. b = store[i].meta.of /\ store[i].src = {b}
    <3>1. \A m : ops[o].src \subseteq {m} => b = m /\ ops[o].src = {m}
      BY <1>5, CompiledIs
    <3>2. QED
      BY <2>2, <3>1
  <2>4. store[i].meta = [of |-> b, ver |-> ops[o].ver]
    <3>1. store[i].meta \in Meta
      BY <1>1, OpFacts DEF Dir
    <3>2. QED
      BY <2>2, <2>3, <3>1, MetaIs
  <2>5. Agree(entry, store[i])
    BY <1>8, <2>3, <2>4 DEF Agree
  <2>6. LoadStages(op, entry, store[i])
    BY <1>7, <1>9, <2>5 DEF LoadStages
  <2>7. QED
    BY <1>7, <2>1, <2>6 DEF Staged
<1>14. Kinded(op, lazy) /\ Moving(op)
  BY <1>4, <1>7 DEF Kinded, Moving, Saving, Removing, Loading, Ended
<1>15. crashes \in 0..MaxCrashes /\ faults \in 0..MaxFaults
  BY DEF DInv, Shape
<1>16. QED
  BY <1>1, <1>3, <1>4, <1>7, <1>8, <1>11, <1>12, <1>13, <1>14, <1>15, OpFacts, OwnStep

LEMMA LoadFailsKeeps == ASSUME DInv, NEW o \in Op, LoadFails(o) PROVE DInv'
<1>1. PICK i \in Ids : i = ops[o].id
  BY OpFacts
<1> DEFINE entry == Entry("failed", Nothing)
<1>2. /\ UNCHANGED <<up, lazy, store, temp, loose, crashes, faults>> /\ up
      /\ ops[o].step \in {"decode", "insert"} /\ End(o, "rejected")
      /\ registry' = [registry EXCEPT ![i] = entry]
  BY <1>1 DEF LoadFails, files
<1>3. Moving(ops[o]) /\ ops[o].kind = "load"
  BY <1>2, OpFacts DEF Moving, Kinded, Loading, Ended
<1>4. entry \in Entries /\ entry.state = "failed" /\ "rejected" \in Ended
  BY Values DEF Entry, Ended
<1> HIDE DEF entry
<1>5. i \notin loose => temp[i] = NoDir
  BY <1>1, <1>2, <1>3, OpFacts DEF Staged, Replacing
<1>6. i \notin loose => Agree(entry, store[i]) /\ temp[i] = NoDir
  BY <1>4, <1>5 DEF Agree
<1>7. QED
  BY <1>1, <1>2, <1>3, <1>4, <1>6, EntrySet

LEMMA SaveCacheOfLoadedKeeps == ASSUME DInv, NEW o \in Op, SaveCacheOfLoaded(o) PROVE DInv'
<1>1. PICK i \in Ids : i = ops[o].id
  BY OpFacts
<1> DEFINE meta == [of |-> ops[o].gate, ver |-> ops[o].ver]
<1>2. /\ UNCHANGED <<up, lazy, registry, temp, loose, crashes, faults>> /\ up
      /\ ops[o].step = "recache" /\ End(o, "applied") /\ WriteCache(o, meta)
  BY DEF SaveCacheOfLoaded
<1>3. Moving(ops[o]) /\ ops[o].kind = "load"
  BY <1>2, OpFacts DEF Moving, Kinded, Loading, Ended
<1>4. meta \in Meta
  BY OpFacts DEF OpRecord, Meta
<1> HIDE DEF meta
<1>5. /\ store' \in [Ids -> Dir] /\ \A j \in Ids \ {i} : store'[j] = store[j]
      /\ ~store'[i].there => store'[i] = NoDir
      /\ store'[i].src = store[i].src /\ store'[i].meta = store[i].meta
      /\ store'[i].cache \in {store[i].cache, meta}
  BY <1>1, <1>2, <1>4, WriteCacheIs
<1>6. /\ ops' \in [Op -> OpRecord] /\ \A p \in Op \ {o} : ops'[p] = ops[p]
      /\ ~Moving(ops'[o]) /\ Kinded(ops'[o], lazy)
  BY <1>2, EndIs DEF Ended
<1>7. ASSUME i \notin loose
      PROVE  Whole(store'[i]) /\ Agree(registry[i], store'[i]) /\ temp[i] = NoDir
  <2>1. LoadStages(ops[o], registry[i], store[i]) /\ temp[i] = NoDir /\ Whole(store[i])
    BY <1>1, <1>2, <1>3, <1>7, OpFacts DEF Staged, Replacing
  <2>2. registry[i] = Entry("ready", meta) /\ Agree(registry[i], store[i])
    BY <1>2, <2>1 DEF LoadStages, meta
  <2>3. store[i].meta = meta
    BY <2>2 DEF Agree, Entry
  <2>4. QED
    BY <1>5, <2>1, <2>2, <2>3 DEF Whole, Agree
<1>8. crashes \in 0..MaxCrashes /\ faults \in 0..MaxFaults
  BY DEF DInv, Shape
<1>9. QED
  BY <1>1, <1>2, <1>3, <1>5, <1>6, <1>7, <1>8, OpFacts, OwnStep

-----------------------------------------------------------------------------
(* The end of the process and its restart.                                 *)
LEMMA CrashKeeps == ASSUME DInv, Crash PROVE DInv'
<1>1. /\ UNCHANGED <<lazy, store, temp, loose, faults>> /\ ~up' /\ up' \in BOOLEAN
      /\ registry' = [i \in Ids |-> Absent]
      /\ ops' = [o \in Op |-> IF Moving(ops[o]) THEN Rest("lost") ELSE ops[o]]
  BY Zenon DEF Crash, files, InFlight, Moving
<1>2. crashes' \in 0..MaxCrashes
  BY DeploymentsAssumption DEF Crash, DInv, Shape
<1>3. \A i \in Ids : registry'[i] = Absent
  BY <1>1
<1>4. Absent \in Entries /\ Absent.state = "absent"
  BY Values DEF Absent, Entry
<1>5. "lost" \in Step /\ "lost" \in Ended
  BY DEF Step, Ended
<1>6. Rest("lost") \in OpRecord /\ Rest("lost").step = "lost" /\ Rest("lost").kind = "none"
  BY <1>5, Values
<1>7. ops \in [Op -> OpRecord] /\ \A o \in Op : Kinded(ops[o], lazy)
  BY DEF DInv, Shape
<1>8. ASSUME NEW o \in Op
      PROVE  ops'[o] \in OpRecord /\ ~Moving(ops'[o]) /\ Kinded(ops'[o], lazy)
  <2>1. CASE Moving(ops[o])
    <3>1. ops'[o] = Rest("lost")
      BY <1>1, <2>1
    <3>2. QED
      BY <1>5, <1>6, <3>1 DEF Moving, Kinded, Saving, Removing, Loading, Ended
  <2>2. CASE ~Moving(ops[o])
    <3>1. ops'[o] = ops[o]
      BY <1>1, <2>2
    <3>2. QED
      BY <1>7, <2>2, <3>1
  <2>3. QED
    BY <2>1, <2>2
<1>9. ops' \in [Op -> OpRecord]
  BY <1>1, <1>8
<1>10. registry' \in [Ids -> Entries]
  BY <1>1, <1>4
<1>11. Shape'
  BY <1>1, <1>2, <1>9, <1>10 DEF DInv, Shape
<1>12. ASSUME NEW i \in Ids, i \notin loose'
       PROVE  Orderly(i)'
  <2>1. Whole(store'[i])
    BY <1>1, <1>12 DEF DInv, Orderly
  <2>2. QED
    BY <1>1, <1>8, <2>1 DEF Orderly, Alone
<1>13. DirsOK'
  BY <1>1 DEF DInv, DirsOK
<1>14. QED
  BY <1>1, <1>3, <1>4, <1>8, <1>11, <1>12, <1>13 DEF DInv

(* What a restart makes of a directory, and what it registers it as.       *)
LEMMA RestartEntry ==
  ASSUME DInv, NEW i \in Ids, NEW entry,
         entry \in (IF store[i].meta = Nothing THEN {Absent} ELSE Registrations(store[i]))
  PROVE  /\ entry \in Entries
         /\ entry.state = "pending" => lazy
         /\ entry.state = "ready" => store[i].there
         /\ i \notin loose => Agree(entry, store[i]) /\ Whole(store[i])
<1>1. store[i] \in Dir /\ store[i].meta \in Meta /\ store[i].cache \in Meta
      /\ store[i].src \in SUBSET Bundles
  BY DEF DInv, Shape, Dir
<1>2. ~store[i].there => store[i].meta = Nothing
  BY DEF DInv, DirsOK, NoDir
<1>3. i \notin loose => Whole(store[i])
  BY DEF DInv, Orderly
<1>4. CASE store[i].meta = Nothing
  <2>1. entry = Absent /\ entry.state = "absent"
    BY <1>4 DEF Absent, Entry
  <2>2. QED
    BY <1>3, <1>4, <2>1, Values DEF Agree
<1>5. CASE store[i].meta # Nothing /\ entry = Entry("pending", store[i].cache) /\ lazy
  <2>1. entry.state = "pending" /\ entry.meta = store[i].cache
    BY <1>5 DEF Entry
  <2>2. entry \in Entries
    BY <1>1, <1>5 DEF Entry, Entries, State
  <2>3. QED
    BY <1>3, <1>5, <2>1, <2>2 DEF Agree, Whole
<1>6. CASE store[i].meta # Nothing /\ entry = Entry("failed", Nothing)
  <2>1. entry.state = "failed"
    BY <1>6 DEF Entry
  <2>2. QED
    BY <1>3, <1>6, <2>1, Values DEF Agree
<1>7. ASSUME store[i].meta # Nothing, NEW b \in Compiled(store[i].src),
             entry = Entry("ready", [of |-> b, ver |-> store[i].meta.ver])
      PROVE  /\ entry \in Entries /\ entry.state = "ready"
             /\ i \notin loose => Agree(entry, store[i])
  <2>1. /\ b \in Bundles \cup {Mixed} /\ b # None
        /\ \A m : store[i].src \subseteq {m} => b = m /\ store[i].src = {m}
    BY <1>1, CompiledIs
  <2>2. entry.state = "ready" /\ entry.meta = [of |-> b, ver |-> store[i].meta.ver]
        /\ entry.meta.of = b
    BY <1>7 DEF Entry
  <2>3. entry \in Entries
    BY <1>1, <1>7, <2>1 DEF Entry, Entries, State, Meta
  <2>4. ASSUME i \notin loose
        PROVE  Agree(entry, store[i])
    <3>1. store[i].src \subseteq {store[i].meta.of}
      BY <1>3, <1>7, <2>4 DEF Whole
    <3>2. b = store[i].meta.of /\ store[i].src = {b}
      BY <2>1, <3>1
    <3>3. store[i].meta = [of |-> b, ver |-> store[i].meta.ver]
      BY <1>1, <3>2, MetaIs
    <3>4. QED
      BY <2>2, <3>2, <3>3 DEF Agree
  <2>5. QED
    BY <2>2, <2>3, <2>4
<1>8. CASE store[i].meta # Nothing
  <2>1. entry \in Registrations(store[i])
    BY <1>8
  <2>2. CASE lazy
    BY <1>5, <1>8, <2>1, <2>2 DEF Registrations
  <2>3. CASE ~lazy
    <3>1. \/ entry = Entry("failed", Nothing)
          \/ \E b \in Compiled(store[i].src) :
               entry = Entry("ready", [of |-> b, ver |-> store[i].meta.ver])
      BY <2>1, <2>3 DEF Registrations
    <3>2. CASE entry = Entry("failed", Nothing)
      BY <1>6, <1>8, <3>2
    <3>3. CASE \E b \in Compiled(store[i].src) :
                 entry = Entry("ready", [of |-> b, ver |-> store[i].meta.ver])
      BY <1>2, <1>3, <1>7, <1>8, <3>3
    <3>4. QED
      BY <3>1, <3>2, <3>3
  <2>4. QED
    BY <2>2, <2>3
<1>9. QED
  BY <1>4, <1>8

LEMMA RestartKeeps == ASSUME DInv, Restart PROVE DInv'
<1>1. /\ UNCHANGED <<lazy, ops, loose, crashes, faults>> /\ ~up /\ up'
      /\ temp' = [i \in Ids |-> NoDir]
      /\ store' = [i \in Ids |-> IF registry'[i].state = "ready"
                                 THEN [store[i] EXCEPT !.cache = registry'[i].meta]
                                 ELSE store[i]]
  BY DEF Restart, CleanupStore
<1>2. DOMAIN registry' = Ids /\ registry' = [i \in Ids |-> registry'[i]] /\ up' \in BOOLEAN
  BY DEF Restart
<1>3. ASSUME NEW i \in Ids
      PROVE  registry'[i] \in (IF store[i].meta = Nothing THEN {Absent}
                               ELSE Registrations(store[i]))
  BY DEF Restart
<1>4. ASSUME NEW i \in Ids
      PROVE  /\ registry'[i] \in Entries
             /\ registry'[i].state = "pending" => lazy
             /\ registry'[i].state = "ready" => store[i].there
             /\ i \notin loose => Agree(registry'[i], store[i]) /\ Whole(store[i])
  BY <1>3, RestartEntry
<1>5. registry' \in [Ids -> Entries]
  BY <1>2, <1>4
<1>6. ASSUME NEW i \in Ids
      PROVE  /\ store'[i] \in Dir /\ (~store'[i].there => store'[i] = NoDir)
             /\ i \notin loose => Agree(registry'[i], store'[i]) /\ Whole(store'[i])
  <2>1. store[i] \in Dir /\ (~store[i].there => store[i] = NoDir)
    BY DEF DInv, Shape, DirsOK
  <2>2. CASE registry'[i].state # "ready"
    <3>1. store'[i] = store[i]
      BY <1>1, <2>2
    <3>2. QED
      BY <1>4, <2>1, <3>1
  <2>3. CASE registry'[i].state = "ready"
    <3>1. store'[i] = [store[i] EXCEPT !.cache = registry'[i].meta]
      BY <1>1, <2>3
    <3>2. registry'[i].meta \in Meta
      BY <1>4 DEF Entries
    <3>3. /\ store'[i] \in Dir /\ store'[i].there = store[i].there
          /\ store'[i].src = store[i].src /\ store'[i].meta = store[i].meta
          /\ store'[i].cache = registry'[i].meta
      BY <2>1, <3>1, <3>2 DEF Dir
    <3>4. ASSUME i \notin loose
          PROVE  Agree(registry'[i], store'[i]) /\ Whole(store'[i])
      <4>1. Agree(registry'[i], store[i]) /\ Whole(store[i])
        BY <1>4, <3>4
      <4>2. registry'[i].meta = store[i].meta
        BY <2>3, <4>1 DEF Agree
      <4>3. QED
        BY <3>3, <4>1, <4>2 DEF Agree, Whole
    <3>5. QED
      BY <1>4, <2>3, <3>3, <3>4
  <2>4. QED
    BY <2>2, <2>3
<1>7. store' \in [Ids -> Dir]
  BY <1>1, <1>6
<1>8. temp' \in [Ids -> Dir] /\ \A i \in Ids : temp'[i] = NoDir
  BY <1>1, Values
<1>9. Shape'
  BY <1>1, <1>2, <1>5, <1>7, <1>8 DEF DInv, Shape
<1>10. DirsOK'
  BY <1>6 DEF DirsOK
<1>11. \A o \in Op : ~Moving(ops'[o]) /\ Kinded(ops'[o], lazy')
  BY <1>1 DEF DInv
<1>12. ASSUME NEW i \in Ids, i \notin loose'
       PROVE  Orderly(i)'
  BY <1>1, <1>6, <1>8, <1>11, <1>12 DEF Orderly, Alone
<1>13. \A i \in Ids : registry'[i].state = "pending" => lazy'
  BY <1>1, <1>4
<1>14. QED
  BY <1>1, <1>9, <1>10, <1>11, <1>12, <1>13 DEF DInv

-----------------------------------------------------------------------------
(* The invariant holds at the start, and every step keeps it.              *)
LEMMA InitDInv == Init => DInv
<1> SUFFICES ASSUME Init PROVE DInv
  OBVIOUS
<1>1. /\ up = TRUE /\ lazy \in BOOLEAN
      /\ registry = [i \in Ids |-> Absent]
      /\ store = [i \in Ids |-> NoDir] /\ temp = [i \in Ids |-> NoDir]
      /\ ops = [o \in Op |-> Rest("idle")]
      /\ loose = {} /\ crashes = 0 /\ faults = 0
  BY DeploymentsAssumption DEF Init
<1>2. "idle" \in Step
  BY DEF Step
<1>3. Rest("idle") \in OpRecord /\ Rest("idle").step = "idle" /\ Rest("idle").kind = "none"
  BY <1>2, Values
<1>4. Absent \in Entries /\ Absent.state = "absent" /\ NoDir \in Dir
  BY Values DEF Absent, Entry
<1>5. Shape
  <2>1. 0 \in 0..MaxCrashes /\ 0 \in 0..MaxFaults
    BY DeploymentsAssumption
  <2>2. QED
    BY <1>1, <1>3, <1>4, <2>1 DEF Shape
<1>6. \A o \in Op : ops[o] = Rest("idle") /\ ~Moving(ops[o]) /\ Kinded(ops[o], lazy)
  BY <1>1, <1>3 DEF Moving, Kinded, Saving, Removing, Loading
<1>7. \A i \in Ids : registry[i] = Absent /\ store[i] = NoDir /\ temp[i] = NoDir
  BY <1>1
<1>8. \A i \in Ids : Orderly(i)
  BY <1>4, <1>6, <1>7, NoDirIs DEF Orderly, Alone, Agree
<1>9. QED
  BY <1>1, <1>4, <1>5, <1>6, <1>7, <1>8 DEF DInv, DirsOK

LEMMA StutterKeeps == ASSUME DInv, UNCHANGED vars PROVE DInv'
<1>1. UNCHANGED <<up, lazy, registry, store, temp, ops, loose, crashes, faults>>
  BY DEF vars
<1>2. Shape'
  BY <1>1 DEF DInv, Shape
<1>3. DirsOK'
  BY <1>1 DEF DInv, DirsOK
<1>4. ASSUME NEW i \in Ids, i \notin loose'
      PROVE  Orderly(i)'
  BY <1>1, <1>4 DEF DInv, Orderly, Alone
<1>5. QED
  BY <1>1, <1>2, <1>3, <1>4 DEF DInv

LEMMA StepKeeps == DInv /\ [Next]_vars => DInv'
<1> SUFFICES ASSUME DInv, [Next]_vars PROVE DInv'
  OBVIOUS
<1>1. ASSUME NEW o \in Op, Request(o) PROVE DInv'
  <2>1. PICK i \in Ids :
          \/ \E b \in Bundles : Post(o, i, b) \/ Put(o, i, b)
          \/ Delete(o, i) \/ TriggerCompilationIfPending(o, i)
    BY <1>1 DEF Request
  <2>2. QED
    BY <2>1, PostKeeps, DeleteKeeps, TriggerKeeps
<1>2. ASSUME NEW o \in Op, Job(o) PROVE DInv'
  BY <1>2, RejectKeeps, AcceptKeeps, WriteSourcesKeeps, WriteMetadataKeeps, BeginRemovalKeeps,
     EndRemovalKeeps, RenameKeeps, FailFilesKeeps, SaveCacheKeeps, SwapKeeps, DeleteEntryKeeps
  DEF Job
<1>3. ASSUME NEW o \in Op, Load(o) PROVE DInv'
  BY <1>3, ReadSourcesKeeps, DecodeMetadataKeeps, InsertKeeps, LoadFailsKeeps,
     SaveCacheOfLoadedKeeps DEF Load
<1>4. CASE Crash
  BY <1>4, CrashKeeps
<1>5. CASE Restart
  BY <1>5, RestartKeeps
<1>6. CASE UNCHANGED vars
  BY <1>6, StutterKeeps
<1>7. QED
  BY <1>1, <1>2, <1>3, <1>4, <1>5, <1>6 DEF Next

(* In every reachable state, whatever the interleaving, the crashes and    *)
(* the failures of file operations (ControlPlane.hs, DeploymentLoader.hs,  *)
(* BundleStore.hs): the inductive invariant.                               *)
THEOREM DeploymentsInvariant == Spec => []DInv
BY InitDInv, StepKeeps, PTL DEF Spec

LEMMA DInvRegistryOK == DInv => RegistryOK
<1> SUFFICES ASSUME DInv PROVE RegistryOK
  OBVIOUS
<1>1. DeploymentsTypeOK
  <2>1. \A i \in Ids : registry[i] \in Entries
    BY DEF DInv, Shape
  <2>2. registry \in [Ids -> [state : State, meta : Meta]]
    BY <2>1 DEF DInv, Shape, Entries
  <2>3. QED
    BY <2>1, <2>2 DEF DInv, Shape, Entries, DeploymentsTypeOK
<1>2. RegistryMatchesStore
  <2> SUFFICES ASSUME NEW i \in Ids, Settled(i)
               PROVE  Agree(registry[i], store[i])
    BY DEF RegistryMatchesStore, Agree
  <2>1. up /\ i \notin loose /\ \A o \in Op : ~(Moving(ops[o]) /\ ops[o].id = i)
    BY DEF Settled, Busy, InFlight, Moving
  <2>2. QED
    BY <2>1 DEF DInv, Orderly
<1>3. QED
  BY <1>1, <1>2 DEF RegistryOK

(* Of an id of which no two operations overlapped and no file operation    *)
(* failed, what is served and what is kept agree whenever nothing is going *)
(* on, whenever the process ended in between: a ready deployment is the    *)
(* one a restart would load, an id that is gone does not come back,        *)
(* metadata cached in the registry are those of the store.  Other ids are  *)
(* exempt (loose): what the code does there breaks it.                     *)
THEOREM ServedIsKept == Spec => []RegistryOK
BY DeploymentsInvariant, DInvRegistryOK, PTL

-----------------------------------------------------------------------------
(* What a step may do to the registry.                                     *)
LEMMA RegistrySteps ==
  ASSUME [Next]_vars
  PROVE  \/ UNCHANGED registry \/ Crash \/ Restart
         \/ \E o \in Op : \/ Swap(o) \/ DeleteEntry(o) \/ Insert(o) \/ LoadFails(o)
                          \/ \E i \in Ids : TriggerCompilationIfPending(o, i)
<1>1. ASSUME NEW o \in Op, Request(o)
      PROVE  UNCHANGED registry \/ \E i \in Ids : TriggerCompilationIfPending(o, i)
  <2>1. PICK i \in Ids :
          \/ \E b \in Bundles : Post(o, i, b) \/ Put(o, i, b)
          \/ Delete(o, i) \/ TriggerCompilationIfPending(o, i)
    BY <1>1 DEF Request
  <2>2. QED
    BY <2>1 DEF Post, Put, Delete
<1>2. ASSUME NEW o \in Op, Job(o)
      PROVE  UNCHANGED registry \/ Swap(o) \/ DeleteEntry(o)
  BY <1>2 DEF Job, Reject, Accept, WriteSources, WriteMetadata, BeginRemoval, EndRemoval, Rename,
              FailFiles, SaveCache
<1>3. ASSUME NEW o \in Op, Load(o)
      PROVE  UNCHANGED registry \/ Insert(o) \/ LoadFails(o)
  BY <1>3 DEF Load, ReadSources, DecodeMetadata, SaveCacheOfLoaded
<1>4. CASE UNCHANGED vars
  BY <1>4 DEF vars
<1>5. QED
  BY <1>1, <1>2, <1>3, <1>4 DEF Next

(* A step of operation o that sets the entry of its id to e.               *)
Sets(o, e) == registry' = [registry EXCEPT ![ops[o].id] = e]

LEMMA SetsIs ==
  ASSUME DInv, NEW o \in Op, NEW e, Sets(o, e), NEW i \in Ids
  PROVE  IF i = ops[o].id THEN registry'[i] = e ELSE registry'[i] = registry[i]
BY OpFacts DEF Sets

(* What the steps that change the registry set, and what they find.        *)
LEMMA SwapSets ==
  ASSUME DInv, NEW o \in Op, Swap(o)
  PROVE  /\ Sets(o, Entry("ready", Uploaded(ops[o])))
         /\ ops[o].id \notin loose =>
              ops[o].ver = NextDeploymentVersion(PreviousMeta(registry[ops[o].id]), ops[o].bundle)
<1>1. Sets(o, Entry("ready", Uploaded(ops[o]))) /\ ops[o].step = "swap"
  BY DEF Swap, Sets, Uploaded
<1>2. Moving(ops[o]) /\ ops[o].kind \in {"post", "put"}
  BY <1>1, OpFacts DEF Moving, Kinded, Saving, Ended
<1>3. QED
  BY <1>1, <1>2, OpFacts DEF Staged, Deploying

LEMMA InsertSets ==
  ASSUME DInv, NEW o \in Op, Insert(o)
  PROVE  /\ \E b \in Bundles \cup {Mixed} : Sets(o, Entry("ready", [of |-> b, ver |-> ops[o].ver]))
         /\ ops[o].id \notin loose => registry[ops[o].id].state = "compiling"
<1>1. PICK b \in Compiled(ops[o].src) : Sets(o, Entry("ready", [of |-> b, ver |-> ops[o].ver]))
  BY DEF Insert, Sets
<1>2. b \in Bundles \cup {Mixed}
  BY OpFacts, CompiledIs DEF OpRecord
<1>3. ops[o].step = "insert"
  BY DEF Insert
<1>4. Moving(ops[o]) /\ ops[o].kind = "load"
  BY <1>3, OpFacts DEF Moving, Kinded, Loading, Ended
<1>5. QED
  BY <1>1, <1>2, <1>3, <1>4, OpFacts DEF Staged, LoadStages

LEMMA LoadFailsSets ==
  ASSUME DInv, NEW o \in Op, LoadFails(o)
  PROVE  /\ Sets(o, Entry("failed", Nothing)) /\ lazy
         /\ ops[o].id \notin loose => registry[ops[o].id].state = "compiling"
<1>1. Sets(o, Entry("failed", Nothing)) /\ ops[o].step \in {"decode", "insert"}
  BY DEF LoadFails, Sets
<1>2. Moving(ops[o]) /\ ops[o].kind = "load" /\ lazy
  BY <1>1, OpFacts DEF Moving, Kinded, Loading, Ended
<1>3. QED
  BY <1>1, <1>2, OpFacts DEF Staged, LoadStages

LEMMA DeleteEntrySets ==
  ASSUME DInv, NEW o \in Op, DeleteEntry(o)
  PROVE  Sets(o, Absent) /\ ops[o].kind = "delete" /\ ops[o].step = "entry" /\ ops'[o].step = "applied"
<1>1. Sets(o, Absent) /\ ops[o].step = "entry" /\ End(o, "applied")
  BY DEF DeleteEntry, Sets
<1>2. ops'[o].step = "applied"
  BY <1>1, EndIs DEF Ended
<1>3. QED
  BY <1>1, <1>2, OpFacts DEF Kinded

LEMMA TriggerSets ==
  ASSUME DInv, NEW o \in Op, NEW j \in Ids, TriggerCompilationIfPending(o, j), NEW i \in Ids
  PROVE  IF i = j THEN registry[i].state = "pending" /\ registry'[i] = Entry("compiling", Nothing)
         ELSE registry'[i] = registry[i]
<1>1. registry \in [Ids -> Entries]
  BY DEF DInv, Shape
<1>2. QED
  BY <1>1 DEF TriggerCompilationIfPending

(* "The currently-live version keeps serving the whole time" (the README   *)
(* of jl4-service): a ready deployment stays ready until it is deleted or  *)
(* the process ends; only a lazy load that overlaps a deploy may end it.   *)
THEOREM LiveVersionStays == Spec => LiveVersionKeepsServing
<1>1. ASSUME DInv, [Next]_vars, NEW i \in Ids, registry[i].state = "ready",
             registry'[i].state # "ready"
      PROVE  \/ ~up'
             \/ \E o \in Op : ops[o].kind = "delete" /\ ops[o].id = i
                              /\ ops[o].step = "entry" /\ ops'[o].step = "applied"
             \/ lazy /\ i \in loose
  <2>1. CASE UNCHANGED registry
    BY <1>1, <2>1
  <2>2. CASE Crash
    BY <2>2 DEF Crash
  <2>3. CASE Restart
    <3>1. registry[i] = Absent
      BY <1>1, <2>3 DEF Restart, DInv
    <3>2. QED
      BY <1>1, <3>1 DEF Absent, Entry
  <2>4. ASSUME NEW o \in Op, NEW e, Sets(o, e)
        PROVE  ops[o].id = i /\ registry'[i] = e
    BY <1>1, <2>4, SetsIs
  <2>5. ASSUME NEW o \in Op, Swap(o)
        PROVE  FALSE
    <3>1. registry'[i] = Entry("ready", Uploaded(ops[o]))
      BY <1>1, <2>4, <2>5, SwapSets
    <3>2. QED
      BY <1>1, <3>1 DEF Entry
  <2>6. ASSUME NEW o \in Op, Insert(o)
        PROVE  FALSE
    <3>1. PICK b : Sets(o, Entry("ready", [of |-> b, ver |-> ops[o].ver]))
      BY <1>1, <2>6, InsertSets
    <3>2. registry'[i] = Entry("ready", [of |-> b, ver |-> ops[o].ver])
      BY <2>4, <3>1
    <3>3. QED
      BY <1>1, <3>2 DEF Entry
  <2>7. ASSUME NEW o \in Op, LoadFails(o)
        PROVE  lazy /\ i \in loose
    <3>1. ops[o].id = i
      BY <1>1, <2>4, <2>7, LoadFailsSets
    <3>2. QED
      BY <1>1, <2>7, <3>1, LoadFailsSets
  <2>8. ASSUME NEW o \in Op, DeleteEntry(o)
        PROVE  ops[o].kind = "delete" /\ ops[o].id = i /\ ops[o].step = "entry"
               /\ ops'[o].step = "applied"
    BY <1>1, <2>4, <2>8, DeleteEntrySets
  <2>9. ASSUME NEW o \in Op, NEW j \in Ids, TriggerCompilationIfPending(o, j)
        PROVE  FALSE
    BY <1>1, <2>9, TriggerSets
  <2>10. QED
    BY <1>1, <2>1, <2>2, <2>3, <2>5, <2>6, <2>7, <2>8, <2>9, RegistrySteps
<1>2. DInv /\ [Next]_vars =>
        [\A i \in Ids :
           registry[i].state = "ready" /\ registry'[i].state # "ready" =>
             \/ ~up'
             \/ \E o \in Op : ops[o].kind = "delete" /\ ops[o].id = i
                              /\ ops[o].step = "entry" /\ ops'[o].step = "applied"
             \/ lazy /\ i \in loose]_vars
  BY <1>1
<1>3. QED
  BY <1>2, DeploymentsInvariant, PTL DEF Spec, LiveVersionKeepsServing

=============================================================================
