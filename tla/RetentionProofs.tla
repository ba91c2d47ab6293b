--------------------------- MODULE RetentionProofs ---------------------------
(***************************************************************************)
(* Proofs about Retention for any number of workers, runs and resources.     *)
(*                                                                         *)
(* Evidence is safe: what a worker read from a row or from the publication    *)
(* ledger still holds while its claim is in force and the revisions it read   *)
(* are the rows' own, at most one worker with such a claim is past the point   *)
(* of deleting an object, and a restored row has an object behind it.  Calls   *)
(* that land after their claim was lost, and losses of the store, are          *)
(* remembered in late and damaged, and nothing is claimed for those resources. *)
(*                                                                         *)
(* Work on evidence implements the queue of retention runs.  Retention has    *)
(* the variables of the queue, so that the refinement mapping is the identity; *)
(* what has to be shown is that no step on evidence touches them in a way the  *)
(* queue does not know.                                                    *)
(***************************************************************************)
EXTENDS Retention, TLAPS

Disturbed == late \cup damaged

\* The claims in force.
Held == {w \in Workers : task[w].pc = "start" /\ lockRetentionRun(w)}

\* An item is for evidence of its kind.
Fits(item) ==
  \/ item.resource \in Observations /\ item.action # "expire-raw-report"
  \/ item.resource \in Imports /\ item.action = "expire-raw-report"

\* A run: a list of items, each for evidence of its kind.
RunSound(r) ==
  /\ r.fence \in Nat
  /\ \A i \in DOMAIN r.items : i \in Nat \ {0} /\ Fits(r.items[i])

\* A worker has an item of a run that was queued, with a fence the run has reached.
TaskSound(t, s) ==
  /\ t.pc \in {"idle", "start", "finish"}
  /\ t.pc # "start" => s.pc = "none"
  /\ t.pc # "idle" => /\ t.run \in Runs /\ run[t.run].state # "none"
                      /\ t.fence \in Nat /\ t.fence <= run[t.run].fence
                      /\ t.item \in DOMAIN run[t.run].items

QueueInv ==
  /\ DOMAIN run = Runs /\ DOMAIN task = Workers /\ DOMAIN step = Workers
  /\ \A r \in Runs : RunSound(run[r])
  /\ \A w \in Workers : TaskSound(task[w], step[w])

\* The row and the object of a resource.
EvidenceSound(x, r, o, bad) ==
  /\ r.availability \in {"available", "archived", "missing", "corrupt", "expired"}
  /\ r.revision \in Nat \ {0}
  /\ r.transition \in {"none", "expiring"}
  /\ r.archive \in {"none", "referenced"}
  /\ o \in {"absent", "intact", "corrupt"}
  /\ r.transition = "expiring" => r.availability = Stored(x)
  /\ x \in Observations /\ r.availability # "available" => r.archive = "referenced"
  /\ x \in Imports => r.availability # "archived"
  /\ x \notin bad =>
       /\ o # "corrupt"
       /\ r.availability = Stored(x) /\ r.transition = "none" => o = "intact"
       /\ r.availability \notin {"missing", "corrupt"}
       /\ r.availability = "expired" => o = "absent"

\* The ledger entry of an observation.
LedgerSound(x, r, o, p, bad) ==
  /\ p.revision \in Nat
  /\ p.age \in {"fresh", "old"}
  /\ x \notin bad /\ o # "absent" /\ r.archive = "none" => p.state \in {"publishing", "orphan"}

Archiving == {"begin", "put", "commit"}
Expiring == {"recheck", "presence", "clear", "delete", "expire"}
Restoring == {"fetch", "restore"}
Deleting == {"orphan", "orphaned"}

\* What a worker at pc read still holds if the row has the revision it read:
\* every change of a row takes a new revision.
ReadSound(s, x, r) ==
  /\ s.pc \in Archiving \cup {"read", "mark"} \cup Expiring \cup Restoring =>
       s.revision \in Nat /\ s.revision <= r.revision
  /\ s.pc \in Archiving /\ s.revision = r.revision => r.availability = "available"
  /\ s.pc \in {"read", "mark"} /\ s.revision = r.revision =>
       r.availability = Stored(x) /\ r.transition = "none"
  /\ s.pc \in Expiring /\ s.revision = r.revision => r.transition = "expiring"
  /\ s.pc \in Restoring /\ s.revision = r.revision =>
       r.availability \in {"archived", "missing", "corrupt"} /\ r.transition = "none"

\* What a worker may rely on in its next step.
WorkSound(w, s, x, r, o, p, bad, held) ==
  /\ s.pc \in Archiving \cup Restoring \cup Deleting => x \in Observations
  /\ ReadSound(s, x, r)
  /\ s.pc \in {"put", "commit"} =>
       /\ s.publication \in Nat /\ s.publication <= p.revision
       /\ s.publication = p.revision => p.state = "publishing"
  /\ s.pc = "put" => p.age = "fresh"
  /\ s.pc = "commit" /\ w \in held => p.age = "fresh"
  /\ s.pc = "commit" /\ w \in held /\ x \notin bad
       /\ s.publication = p.revision /\ s.revision = r.revision => o = "intact"
  /\ s.pc \in Deleting => p.state \in {"publishing", "orphan"} /\ p.age = "old" /\ r.archive = "none"
  /\ s.pc = "orphaned" /\ x \notin bad => o = "absent"
  /\ s.pc = "expire" /\ x \notin bad /\ s.revision = r.revision => o = "absent"

\* What a reader of evidence has in memory.
ViewSound(x, r) ==
  view.resource = x =>
    /\ view.revision \in Nat /\ view.revision <= r.revision
    /\ view.revision = r.revision =>
         /\ r.transition = "none" /\ r.availability # "expired"
         /\ x \in Observations => r.availability # "available"

\* A publication row is locked by one transaction.
OneDeletes ==
  \A v, w \in Workers :
    step[v].pc \in Deleting /\ step[w].pc \in Deleting /\ Target(v) = Target(w) => v = w

\* Imports have no entry in the ledger.
Ledger(x) == IF x \in Observations THEN publication[x] ELSE Entry("none", 0, "fresh")

WorkerSound(w) ==
  step[w].pc # "none" =>
    WorkSound(w, step[w], Target(w), row[Target(w)], object[Target(w)], Ledger(Target(w)),
              Disturbed, Held)

TablesInv ==
  /\ DOMAIN row = Resources /\ DOMAIN object = Resources /\ DOMAIN publication = Observations
  /\ \A x \in Resources : EvidenceSound(x, row[x], object[x], Disturbed) /\ ViewSound(x, row[x])
  /\ \A x \in Observations : LedgerSound(x, row[x], object[x], publication[x], Disturbed)

EvidenceInv ==
  /\ QueueInv /\ OneDeletes /\ TablesInv
  /\ \A w \in Workers : WorkerSound(w)
-----------------------------------------------------------------------------
(* What a step may do to the runs. *)

\* A row keeps its manifest, its fence grows, and a claim in force is the one it
\* was or has a new fence.
RowKeeps(r, s) ==
  /\ s.fence \in Nat /\ r.fence <= s.fence
  /\ s.state # "none"
  /\ DOMAIN s.items = DOMAIN r.items
  /\ \A i \in DOMAIN r.items : /\ s.items[i].action = r.items[i].action
                               /\ s.items[i].resource = r.items[i].resource
  /\ s.state = "processing" /\ s.lease = "live" /\ s.fence = r.fence =>
       r.state = "processing" /\ r.lease = "live"

LEMMA KeptIsSound ==
  ASSUME NEW r, NEW s, RunSound(r), RowKeeps(r, s)
  PROVE  RunSound(s)
  BY Zenon DEF RunSound, RowKeeps, Fits

\* The row of a run whose items are rewritten one by one.
LEMMA ItemsKept ==
  ASSUME NEW r, NEW i, NEW s, NEW a
  PROVE  /\ DOMAIN ItemSet(r, i, s, a) = DOMAIN r.items
         /\ \A j \in DOMAIN r.items :
              /\ ItemSet(r, i, s, a)[j].action = r.items[j].action
              /\ ItemSet(r, i, s, a)[j].resource = r.items[j].resource
  BY Zenon DEF ItemSet, Item

\* What is the same in two lists of items.
SameItems(m, n) ==
  /\ DOMAIN m = DOMAIN n
  /\ \A i \in DOMAIN n : m[i].action = n[i].action /\ m[i].resource = n[i].resource

LEMMA RowsKept ==
  ASSUME NEW r, RunSound(r)
  PROVE  /\ \A s, n, a, l, items :
              /\ s \notin {"none", "processing"} /\ n \in {r.fence, r.fence + 1}
              /\ SameItems(items, r.items)
              => RowKeeps(r, RunRow(s, n, a, l, items))
         /\ \A a, items : SameItems(items, r.items)
              => RowKeeps(r, RunRow("processing", r.fence + 1, a, "live", items))
         /\ r.state = "processing" => \A a :
              RowKeeps(r, RunRow(r.state, r.fence, a, "expired", r.items))
<1>1. r.fence \in Nat
  BY Zenon DEF RunSound
<1> QED
  BY <1>1 DEF RowKeeps, RunRow, SameItems

LEMMA AdvanceKept ==
  ASSUME NEW r, NEW s, NEW n \in {r.fence, r.fence + 1}, NEW a, NEW l, NEW items,
         RunSound(r), SameItems(items, r.items)
  PROVE  /\ RowKeeps(r, advanceRetentionRunTx(RunRow(s, n, a, l, items)))
         /\ RowKeeps(r, finalizeRetentionRunTx(RunRow(s, n, a, l, items)))
<1> DEFINE q == RunRow(s, n, a, l, items)
<1>1. q.fence = n /\ q.items = items
  BY Zenon DEF RunRow
<1> HIDE DEF q
<1>2. RowKeeps(r, finalizeRetentionRunTx(q))
  BY Zenon, <1>1, RowsKept DEF finalizeRetentionRunTx
<1>3. RowKeeps(r, RunRow("queued", q.fence, 0, "none", q.items))
  BY Zenon, <1>1, RowsKept
<1>4. RowKeeps(r, advanceRetentionRunTx(q))
  BY Zenon, <1>2, <1>3 DEF advanceRetentionRunTx
<1> QED
  BY Zenon, <1>2, <1>4 DEF q

\* The runs after a step: nobody's manifest changes, no claim is revived.
RunsStep ==
  /\ DOMAIN run' = Runs
  /\ \A r \in Runs : RunSound(run'[r])
  /\ \A r \in Runs : run[r].state = "none" \/ run'[r] = run[r] \/ RowKeeps(run[r], run'[r])

\* A worker that takes no part in a step has the same claim on the same item, and
\* may lose it.
LEMMA ClaimStands ==
  ASSUME QueueInv, RunsStep, NEW w \in Workers, task'[w] = task[w], step'[w] = step[w]
  PROVE  /\ TaskSound(task[w], step[w])'
         /\ task[w].pc # "idle" => Target(w)' = Target(w)
         /\ w \in Held' => w \in Held
<1>1. TaskSound(task[w], step[w])
  BY Zenon DEF QueueInv
<1>2. CASE task[w].pc = "idle"
  BY Zenon, <1>1, <1>2 DEF TaskSound, Held
<1>3. CASE task[w].pc # "idle"
  <2>1. PICK r \in Runs : task[w].run = r
    BY Zenon, <1>1, <1>3 DEF TaskSound
  <2>2. PICK i : i = task[w].item
    BY Zenon
  <2>3. RunSound(run[r]) /\ (run'[r] = run[r] \/ RowKeeps(run[r], run'[r]))
    BY Zenon, <1>1, <1>3, <2>1 DEF RunsStep, TaskSound, QueueInv
  <2>4. /\ run[r].fence \in Nat /\ run'[r].fence \in Nat /\ run[r].fence <= run'[r].fence
        /\ run[r].state # "none" /\ run'[r].state # "none"
        /\ i \in DOMAIN run[r].items /\ i \in DOMAIN run'[r].items
        /\ run'[r].items[i].resource = run[r].items[i].resource
        /\ run'[r].state = "processing" /\ run'[r].lease = "live" /\ run'[r].fence = run[r].fence =>
             run[r].state = "processing" /\ run[r].lease = "live"
        /\ task[w].fence \in Nat /\ task[w].fence <= run[r].fence
    BY <1>1, <1>3, <2>1, <2>2, <2>3 DEF RunSound, RowKeeps, TaskSound
  <2>5. TaskSound(task[w], step[w])'
    BY <1>1, <2>1, <2>2, <2>4 DEF TaskSound
  <2>6. Target(w)' = Target(w)
    BY Zenon, <2>1, <2>2, <2>4 DEF Target, ItemOf
  <2>7. lockRetentionRun(w)' => lockRetentionRun(w)
    BY <2>1, <2>4 DEF lockRetentionRun
  <2> QED
    BY Zenon, <2>5, <2>6, <2>7 DEF Held
<1> QED
  BY Zenon, <1>2, <1>3
\* One run is rewritten.
LEMMA OneRunChanges ==
  ASSUME QueueInv, NEW r \in Runs, NEW s, run' = [run EXCEPT ![r] = s],
         RowKeeps(run[r], s) \/ (run[r].state = "none" /\ RunSound(s))
  PROVE  RunsStep
<1>1. RunSound(s)
  BY Zenon, KeptIsSound DEF QueueInv
<1>2. DOMAIN run' = Runs /\ run'[r] = s /\ \A q \in Runs : q # r => run'[q] = run[q]
  BY Zenon DEF QueueInv
<1> QED
  BY Zenon, <1>1, <1>2 DEF RunsStep, QueueInv

LEMMA RunsStand ==
  ASSUME QueueInv, UNCHANGED run
  PROVE  RunsStep
  BY Zenon DEF RunsStep, QueueInv

\* What w does to its own claim, while nobody else moves.
OwnMove(w, t, s) ==
  /\ DOMAIN task' = Workers /\ DOMAIN step' = Workers
  /\ task'[w] = t /\ step'[w] = s
  /\ \A v \in Workers \ {w} : task'[v] = task[v] /\ step'[v] = step[v]

LEMMA MoveKeepsQueue ==
  ASSUME QueueInv, RunsStep, NEW w \in Workers, NEW t, NEW s, OwnMove(w, t, s),
         TaskSound(t, s)'
  PROVE  /\ QueueInv'
         /\ \A v \in Workers \ {w} :
              /\ step'[v] = step[v]
              /\ v \in Held' => v \in Held
              /\ step[v].pc # "none" => Target(v)' = Target(v)
<1>1. /\ DOMAIN task' = Workers /\ DOMAIN step' = Workers
      /\ task'[w] = t /\ step'[w] = s
      /\ \A v \in Workers \ {w} : task'[v] = task[v] /\ step'[v] = step[v]
  BY Zenon DEF OwnMove
<1>2. ASSUME NEW v \in Workers \ {w}
      PROVE  /\ TaskSound(task[v], step[v])'
             /\ v \in Held' => v \in Held
             /\ step[v].pc # "none" => Target(v)' = Target(v)
  <2>1. task'[v] = task[v] /\ step'[v] = step[v]
    BY Zenon, <1>1
  <2>2. step[v].pc # "none" => task[v].pc # "idle"
    BY Zenon DEF QueueInv, TaskSound
  <2> QED
    BY Zenon, <2>1, <2>2, ClaimStands
<1>3. TaskSound(task[w], step[w])'
  BY Zenon, <1>1
<1>4. \A v \in Workers : TaskSound(task[v], step[v])'
  BY Zenon, <1>2, <1>3
<1>5. QueueInv'
  BY Zenon, <1>1, <1>4 DEF QueueInv, RunsStep
<1> QED
  BY Zenon, <1>1, <1>2, <1>5

\* Every worker stays where it is.
LEMMA StandKeepsQueue ==
  ASSUME QueueInv, RunsStep, UNCHANGED <<task, step>>
  PROVE  /\ QueueInv'
         /\ \A v \in Workers :
              /\ v \in Held' => v \in Held
              /\ step[v].pc # "none" => Target(v)' = Target(v)
<1>1. ASSUME NEW v \in Workers
      PROVE  /\ TaskSound(task[v], step[v])'
             /\ v \in Held' => v \in Held
             /\ step[v].pc # "none" => Target(v)' = Target(v)
  <2>1. task'[v] = task[v] /\ step'[v] = step[v]
    BY Zenon
  <2>2. step[v].pc # "none" => task[v].pc # "idle"
    BY Zenon DEF QueueInv, TaskSound
  <2> QED
    BY Zenon, <2>1, <2>2, ClaimStands
<1>2. QueueInv'
  BY Zenon, <1>1 DEF QueueInv, RunsStep
<1> QED
  BY Zenon, <1>1, <1>2

\* A worker with an item has it for evidence of its kind.
LEMMA TargetIsEvidence ==
  ASSUME QueueInv, NEW w \in Workers, task[w].pc # "idle"
  PROVE  /\ Target(w) \in Resources
         /\ ItemOf(w).action # "expire-raw-report" => Target(w) \in Observations
         /\ ItemOf(w).action = "expire-raw-report" => Target(w) \in Imports
<1>1. TaskSound(task[w], step[w])
  BY Zenon DEF QueueInv
<1>2. PICK r \in Runs : task[w].run = r /\ task[w].item \in DOMAIN run[r].items
  BY Zenon, <1>1 DEF TaskSound
<1>3. Fits(run[r].items[task[w].item])
  BY Zenon, <1>2 DEF QueueInv, RunSound
<1> QED
  BY Zenon, <1>2, <1>3 DEF Target, ItemOf, Fits, Resources
-----------------------------------------------------------------------------
(* What a worker may rely on survives the steps of the others. *)

\* Claims are lost and resources disturbed.
LEMMA HeldLess ==
  ASSUME NEW w, NEW s, NEW x, NEW r, NEW o, NEW p, NEW bad, NEW held, NEW bad2, NEW held2,
         WorkSound(w, s, x, r, o, p, bad, held),
         x \in bad => x \in bad2, w \in held2 => w \in held
  PROVE  WorkSound(w, s, x, r, o, p, bad2, held2)
  BY Zenon DEF WorkSound

\* A row that changes takes a new revision.
RowGoes(r, q) ==
  \/ q = r
  \/ q.revision = r.revision + 1

LEMMA RowMoves ==
  ASSUME NEW w, NEW s, NEW x, NEW r, NEW q, NEW o, NEW p, NEW bad, NEW held,
         WorkSound(w, s, x, r, o, p, bad, held), r.revision \in Nat, RowGoes(r, q),
         s.pc \in Deleting => q.archive = r.archive
  PROVE  WorkSound(w, s, x, q, o, p, bad, held)
<1>1. CASE q = r
  BY Zenon, <1>1
<1>2. CASE q.revision = r.revision + 1
  <2>1. s.revision \in Nat /\ s.revision <= r.revision => s.revision # q.revision /\ s.revision <= q.revision
    BY <1>2
  <2>2. ReadSound(s, x, q)
    BY Zenon, <2>1 DEF WorkSound, ReadSound
  <2>3. s.pc = "expire" => s.revision # q.revision
    BY Zenon, <2>1 DEF WorkSound, ReadSound, Expiring
  <2>4. s.pc = "commit" => s.revision # q.revision
    BY Zenon, <2>1 DEF WorkSound, ReadSound, Archiving
  <2> QED
    BY Zenon, <2>2, <2>3, <2>4 DEF WorkSound
<1> QED
  BY Zenon, <1>1, <1>2 DEF RowGoes

\* So does a ledger entry, and no transaction has it locked.
EntryGoes(p, q) ==
  \/ q = p
  \/ p.revision \in Nat /\ q.revision = p.revision + 1 /\ q.age = "fresh"

LEMMA EntryMoves ==
  ASSUME NEW w, NEW s, NEW x, NEW r, NEW o, NEW p, NEW q, NEW bad, NEW held,
         WorkSound(w, s, x, r, o, p, bad, held), EntryGoes(p, q), q = p \/ s.pc \notin Deleting
  PROVE  WorkSound(w, s, x, r, o, q, bad, held)
<1>1. CASE q = p
  BY Zenon, <1>1
<1>2. CASE p.revision \in Nat /\ q.revision = p.revision + 1 /\ q.age = "fresh" /\ s.pc \notin Deleting
  <2>1. s.pc \in {"put", "commit"} =>
          s.publication \in Nat /\ s.publication <= q.revision /\ s.publication # q.revision
    BY <1>2 DEF WorkSound
  <2> QED
    BY Zenon, <1>2, <2>1 DEF WorkSound, Deleting
<1> QED
  BY Zenon, <1>1, <1>2 DEF EntryGoes

\* The object is written.
LEMMA ObjectWritten ==
  ASSUME NEW w, NEW s, NEW x, NEW r, NEW o, NEW p, NEW bad, NEW held,
         WorkSound(w, s, x, r, o, p, bad, held), s.pc \notin Deleting,
         s.pc = "expire" /\ s.revision = r.revision => x \in bad
  PROVE  WorkSound(w, s, x, r, "intact", p, bad, held)
  BY Zenon DEF WorkSound, Deleting

\* The object is deleted.
LEMMA ObjectDeleted ==
  ASSUME NEW w, NEW s, NEW x, NEW r, NEW o, NEW p, NEW bad, NEW held,
         WorkSound(w, s, x, r, o, p, bad, held),
         s.pc = "commit" /\ w \in held /\ s.revision = r.revision => x \in bad
  PROVE  WorkSound(w, s, x, r, "absent", p, bad, held)
  BY Zenon DEF WorkSound

-----------------------------------------------------------------------------
(* A step at one resource. *)

\* Row, object and ledger entry of x become r, o and p, and no others change.
TablesGo(x, r, o, p) ==
  /\ DOMAIN row' = Resources /\ DOMAIN object' = Resources /\ DOMAIN publication' = Observations
  /\ row'[x] = r /\ object'[x] = o /\ Ledger(x)' = p
  /\ \A y \in Resources \ {x} :
       row'[y] = row[y] /\ object'[y] = object[y] /\ Ledger(y)' = Ledger(y)
  /\ \A y \in Resources : y \in Disturbed => y \in Disturbed'
  /\ view' = view \/ view' = NoView

LEMMA TablesSound ==
  ASSUME TablesInv, NEW x \in Resources, NEW r, NEW o, NEW p, TablesGo(x, r, o, p),
         RowGoes(row[x], r), EvidenceSound(x, r, o, Disturbed'),
         x \in Observations => LedgerSound(x, r, o, p, Disturbed')
  PROVE  TablesInv'
<1>1. ASSUME NEW y \in Resources
      PROVE  EvidenceSound(y, row'[y], object'[y], Disturbed') /\ row'[y].revision \in Nat \ {0}
  <2>1. CASE y = x
    BY Zenon, <2>1 DEF TablesGo, EvidenceSound
  <2>2. CASE y # x
    <3>1. /\ EvidenceSound(y, row[y], object[y], Disturbed)
          /\ row'[y] = row[y] /\ object'[y] = object[y] /\ (y \in Disturbed => y \in Disturbed')
      BY Zenon, <2>2 DEF TablesInv, TablesGo
    <3> QED
      BY <3>1 DEF EvidenceSound
  <2> QED
    BY Zenon, <2>1, <2>2
<1>2. ASSUME NEW y \in Resources PROVE ViewSound(y, row[y])'
  <2>1. /\ row[y].revision \in Nat \ {0} /\ row'[y].revision \in Nat \ {0}
        /\ RowGoes(row[y], row'[y]) /\ ViewSound(y, row[y])
    BY <1>1 DEF TablesInv, EvidenceSound, RowGoes, TablesGo
  <2>2. CASE view' = NoView
    BY <2>1, <2>2 DEF ViewSound, NoView
  <2>3. CASE view' = view
    BY <2>1, <2>3 DEF ViewSound, RowGoes
  <2> QED
    BY Zenon, <2>2, <2>3 DEF TablesGo
<1>3. ASSUME NEW y \in Observations
      PROVE  LedgerSound(y, row'[y], object'[y], publication'[y], Disturbed')
  <2>0. y \in Resources
    BY Zenon DEF Resources
  <2>1. CASE y = x
    BY Zenon, <2>1 DEF TablesGo, Ledger
  <2>2. CASE y # x
    <3>1. /\ LedgerSound(y, row[y], object[y], publication[y], Disturbed)
          /\ row'[y] = row[y] /\ object'[y] = object[y] /\ publication'[y] = publication[y]
          /\ (y \in Disturbed => y \in Disturbed')
      BY Zenon, <2>0, <2>2 DEF TablesInv, TablesGo, Ledger
    <3> QED
      BY Zenon, <3>1 DEF LedgerSound
  <2> QED
    BY Zenon, <2>1, <2>2
<1> QED
  BY Zenon, <1>1, <1>2, <1>3 DEF TablesInv, TablesGo

\* A worker on another resource, or on x with what it relies on.
LEMMA OtherSound ==
  ASSUME NEW x \in Resources, NEW r, NEW o, NEW p, TablesGo(x, r, o, p),
         NEW v \in Workers, WorkerSound(v), Target(v) \in Resources, step'[v] = step[v],
         step[v].pc # "none" => Target(v)' = Target(v), v \in Held' => v \in Held,
         step[v].pc # "none" /\ Target(v) = x => WorkSound(v, step[v], x, r, o, p, Disturbed', Held)
  PROVE  WorkerSound(v)'
<1> SUFFICES ASSUME step[v].pc # "none"
             PROVE  WorkSound(v, step[v], Target(v), row'[Target(v)], object'[Target(v)],
                              Ledger(Target(v))', Disturbed', Held')
  BY Zenon DEF WorkerSound
<1> DEFINE y == Target(v)
<1>1. y \in Disturbed => y \in Disturbed'
  BY Zenon DEF TablesGo
<1>2. WorkSound(v, step[v], y, row'[y], object'[y], Ledger(y)', Disturbed', Held)
  <2>1. CASE y = x
    BY Zenon, <2>1 DEF TablesGo
  <2>2. CASE y # x
    <3>1. WorkSound(v, step[v], y, row[y], object[y], Ledger(y), Disturbed, Held)
      BY Zenon DEF WorkerSound
    <3>2. row'[y] = row[y] /\ object'[y] = object[y] /\ Ledger(y)' = Ledger(y)
      BY Zenon, <2>2 DEF TablesGo
    <3> QED
      BY <1>1, <3>1, <3>2, HeldLess
  <2> QED
    BY Zenon, <2>1, <2>2
<1> QED
  BY Zenon, <1>2, HeldLess
-----------------------------------------------------------------------------
(* A step of a worker on its item. *)

\* Worker w, who works on x, goes on at s or concludes.
Acts(w, x, s) ==
  /\ task[w].pc = "start" /\ Target(w) = x
  /\ step' = [step EXCEPT ![w] = s]
  /\ \/ UNCHANGED runVars
     \/ s = NoStep /\ \E c : Process(w, c)

LEMMA ActsOnQueue ==
  ASSUME QueueInv, NEW w \in Workers, NEW x, NEW s, Acts(w, x, s)
  PROVE  /\ QueueInv' /\ step'[w] = s /\ Target(w)' = x
         /\ \A v \in Workers : v \in Held' => v \in Held
         /\ \A v \in Workers \ {w} :
              step'[v] = step[v] /\ (step[v].pc # "none" => Target(v)' = Target(v))
<1>0. step'[w] = s
  BY Zenon DEF Acts, QueueInv
<1>1. CASE UNCHANGED runVars
  <2>1. PICK t : t = task[w]
    BY Zenon
  <2>2. OwnMove(w, t, s)
    BY Zenon, <1>1, <2>1 DEF OwnMove, Acts, runVars, QueueInv
  <2>3. Target(w)' = x /\ Held' = Held
    BY Zenon, <1>1 DEF Acts, Target, ItemOf, Held, lockRetentionRun, runVars
  <2>4. TaskSound(t, s)'
    BY Zenon, <1>1, <2>1 DEF QueueInv, TaskSound, Acts, runVars
  <2>5. RunsStep
    BY Zenon, <1>1, RunsStand DEF runVars
  <2> QED
    BY Zenon, <1>0, <2>2, <2>3, <2>4, <2>5, MoveKeepsQueue
<1>2. CASE s = NoStep /\ \E c : Process(w, c)
  <2>1. PICK c : Process(w, c)
    BY Zenon, <1>2
  <2>2. PICK t : t = TaskAt("finish", task[w].run, task[w].fence, task[w].item, task[w].attempts, c)
    BY Zenon
  <2>3. task' = [task EXCEPT ![w] = t] /\ run' = run
    BY Zenon, <2>1, <2>2 DEF Process
  <2>4. /\ t.pc = "finish" /\ t.run = task[w].run /\ t.fence = task[w].fence
        /\ t.item = task[w].item
    BY Zenon, <2>2 DEF TaskAt
  <2>5. TaskSound(t, s)'
    <3>1. s.pc = "none"
      BY Zenon, <1>2 DEF NoStep, StepAt
    <3>2. TaskSound(task[w], step[w]) /\ task[w].pc = "start"
      BY Zenon DEF QueueInv, Acts
    <3> QED
      BY Zenon, <2>3, <2>4, <3>1, <3>2 DEF TaskSound
  <2>6. OwnMove(w, t, s)
    BY Zenon, <2>3 DEF OwnMove, Acts, QueueInv
  <2>7. task'[w] = t
    BY Zenon, <2>3 DEF QueueInv
  <2>8. Target(w)' = x /\ w \notin Held'
    BY Zenon, <2>3, <2>4, <2>7 DEF Acts, Target, ItemOf, Held
  <2>9. RunsStep
    BY Zenon, <2>3, RunsStand
  <2> QED
    BY Zenon, <1>0, <2>5, <2>6, <2>8, <2>9, MoveKeepsQueue
<1> QED
  BY Zenon, <1>1, <1>2 DEF Acts

\* What the others rely on.
OthersStand(w, x, r, o, p) ==
  \A v \in Workers \ {w} :
    step[v].pc # "none" /\ Target(v) = x => WorkSound(v, step[v], x, r, o, p, Disturbed', Held)

\* Nobody but w is in the transaction that deletes an orphan.
NobodyDeletes(w, x) == \A v \in Workers \ {w} : step[v].pc \in Deleting => Target(v) # x

\* The step leaves everything as it should be.
ActsSoundly(w, x, r, o, p, s) ==
  /\ Acts(w, x, s)
  /\ TablesGo(x, r, o, p)
  /\ RowGoes(row[x], r)
  /\ EvidenceSound(x, r, o, Disturbed')
  /\ x \in Observations => LedgerSound(x, r, o, p, Disturbed')
  /\ OthersStand(w, x, r, o, p)
  /\ s.pc # "none" => WorkSound(w, s, x, r, o, p, Disturbed', Held)
  /\ s.pc \in Deleting => NobodyDeletes(w, x)

LEMMA SoundAct ==
  ASSUME EvidenceInv, NEW w \in Workers, NEW x, NEW r, NEW o, NEW p, NEW s,
         ActsSoundly(w, x, r, o, p, s)
  PROVE  EvidenceInv'
<1>1. QueueInv /\ TablesInv /\ OneDeletes
  BY Zenon DEF EvidenceInv
<1>2. task[w].pc = "start" /\ Target(w) = x /\ x \in Resources /\ Acts(w, x, s)
  BY Zenon, <1>1, TargetIsEvidence DEF ActsSoundly, Acts
<1>3. /\ QueueInv' /\ step'[w] = s /\ Target(w)' = x
      /\ \A v \in Workers : v \in Held' => v \in Held
      /\ \A v \in Workers \ {w} :
           step'[v] = step[v] /\ (step[v].pc # "none" => Target(v)' = Target(v))
  BY Zenon, <1>1, <1>2, ActsOnQueue
<1>4. TablesInv'
  BY Zenon, <1>1, <1>2, TablesSound DEF ActsSoundly
<1>5. OneDeletes'
  <2>1. \A v \in Workers \ {w} : step[v].pc \in Deleting => step[v].pc # "none"
    BY Zenon DEF Deleting
  <2>2. s.pc \in Deleting => NobodyDeletes(w, x)
    BY Zenon DEF ActsSoundly
  <2> QED
    BY <1>1, <1>3, <2>1, <2>2 DEF OneDeletes, NobodyDeletes
<1>6. ASSUME NEW v \in Workers \ {w} PROVE WorkerSound(v)'
  <2>1. CASE step[v].pc = "none"
    BY Zenon, <1>3, <2>1 DEF WorkerSound
  <2>2. CASE step[v].pc # "none"
    <3>1. Target(v) \in Resources
      BY Zenon, <1>1, <2>2, TargetIsEvidence DEF QueueInv, TaskSound
    <3>2. WorkerSound(v)
      BY Zenon DEF EvidenceInv
    <3>3. Target(v) = x => WorkSound(v, step[v], x, r, o, p, Disturbed', Held)
      BY Zenon, <2>2 DEF ActsSoundly, OthersStand
    <3>4. TablesGo(x, r, o, p)
      BY Zenon DEF ActsSoundly
    <3> QED
      BY Zenon, <1>2, <1>3, <3>1, <3>2, <3>3, <3>4, OtherSound
  <2> QED
    BY Zenon, <2>1, <2>2
<1>7. WorkerSound(w)'
  <2>1. CASE s.pc = "none"
    BY Zenon, <1>3, <2>1 DEF WorkerSound
  <2>2. CASE s.pc # "none"
    <3>1. WorkSound(w, s, x, r, o, p, Disturbed', Held)
      BY Zenon, <2>2 DEF ActsSoundly
    <3>2. WorkSound(w, s, x, r, o, p, Disturbed', Held')
      BY Zenon, <1>3, <3>1, HeldLess
    <3>3. row'[x] = r /\ object'[x] = o /\ Ledger(x)' = p
      BY Zenon DEF ActsSoundly, TablesGo
    <3> QED
      BY Zenon, <1>3, <3>2, <3>3 DEF WorkerSound
  <2> QED
    BY Zenon, <2>1, <2>2
<1> QED
  BY Zenon, <1>3, <1>4, <1>5, <1>6, <1>7 DEF EvidenceInv
-----------------------------------------------------------------------------
(* The parts of an action. *)

\* What the invariant says about a worker and the resource it works on.
LEMMA ActorFacts ==
  ASSUME EvidenceInv, NEW w \in Workers, NEW x, task[w].pc = "start", Target(w) = x
  PROVE  /\ x \in Resources /\ EvidenceSound(x, row[x], object[x], Disturbed)
         /\ x \in Observations => /\ LedgerSound(x, row[x], object[x], Ledger(x), Disturbed)
                                  /\ Ledger(x) = publication[x]
         /\ step[w].pc # "none" =>
              WorkSound(w, step[w], x, row[x], object[x], Ledger(x), Disturbed, Held)
         /\ lockRetentionRun(w) => w \in Held
<1>1. x \in Resources
  BY Zenon, TargetIsEvidence DEF EvidenceInv
<1>2. step[w].pc # "none" =>
        WorkSound(w, step[w], x, row[x], object[x], Ledger(x), Disturbed, Held)
  BY Zenon DEF EvidenceInv, WorkerSound
<1> QED
  BY Zenon, <1>1, <1>2 DEF EvidenceInv, TablesInv, Ledger, Held

LEMMA ActOfStep ==
  ASSUME NEW w, NEW x, task[w].pc = "start", Target(w) = x
  PROVE  /\ \A pc, n, e : Continue(w, pc, n, e) => Acts(w, x, StepAt(pc, n, e))
         /\ \A pc : Goto(w, pc) => Acts(w, x, StepAt(pc, step[w].revision, step[w].publication))
         /\ \A c : Conclude(w, c) => Acts(w, x, NoStep)
<1>1. \A pc, n, e : Continue(w, pc, n, e) => Acts(w, x, StepAt(pc, n, e))
  BY Zenon DEF Acts, Continue
<1>2. \A c : Conclude(w, c) => Acts(w, x, NoStep)
  BY Zenon DEF Acts, Conclude
<1> QED
  BY Zenon, <1>1, <1>2 DEF Goto

LEMMA TablesChange ==
  ASSUME TablesInv, NEW x \in Resources, NEW r, NEW o, NEW p,
         \/ row' = row /\ r = row[x]
         \/ row' = [row EXCEPT ![x] = r],
         \/ object' = object /\ o = object[x]
         \/ object' = [object EXCEPT ![x] = o],
         \/ publication' = publication /\ p = Ledger(x)
         \/ x \in Observations /\ publication' = [publication EXCEPT ![x] = p],
         late \subseteq late', damaged' = damaged, view' = view \/ view' = NoView
  PROVE  TablesGo(x, r, o, p)
<1>1. /\ DOMAIN row' = Resources /\ row'[x] = r /\ \A y \in Resources \ {x} : row'[y] = row[y]
  BY Zenon DEF TablesInv
<1>2. /\ DOMAIN object' = Resources /\ object'[x] = o
      /\ \A y \in Resources \ {x} : object'[y] = object[y]
  BY Zenon DEF TablesInv
<1>3. /\ DOMAIN publication' = Observations /\ Ledger(x)' = p
      /\ \A y \in Resources \ {x} : Ledger(y)' = Ledger(y)
  BY Zenon DEF TablesInv, Ledger
<1>4. \A y \in Resources : y \in Disturbed => y \in Disturbed'
  BY Zenon DEF Disturbed
<1> QED
  BY Zenon, <1>1, <1>2, <1>3, <1>4 DEF TablesGo

\* deleteOrphanArchive has the publication row to itself.
LEMMA LockKeepsOut ==
  ASSUME QueueInv, NEW w \in Workers, NEW x
  PROVE  /\ ~Locked(x) => NobodyDeletes(w, x)
         /\ OneDeletes /\ step[w].pc \in Deleting /\ Target(w) = x => NobodyDeletes(w, x)
<1>1. ASSUME NEW v \in Workers, step[v].pc \in Deleting PROVE task[v].pc = "start"
  BY Zenon, <1>1 DEF QueueInv, TaskSound, Deleting
<1> QED
  BY Zenon, <1>1 DEF Locked, At, NobodyDeletes, OneDeletes, Deleting

\* What the others rely on when the object stays.
LEMMA OthersKeepRow ==
  ASSUME EvidenceInv, NEW w \in Workers, NEW x \in Resources, NEW r, NEW p,
         RowGoes(row[x], r), EntryGoes(Ledger(x), p), x \in Disturbed => x \in Disturbed',
         (r.archive = row[x].archive /\ p = Ledger(x)) \/ NobodyDeletes(w, x)
  PROVE  OthersStand(w, x, r, object[x], p)
<1> SUFFICES ASSUME NEW v \in Workers \ {w}, step[v].pc # "none", Target(v) = x
             PROVE  WorkSound(v, step[v], x, r, object[x], p, Disturbed', Held)
  BY Zenon DEF OthersStand
<1>1. WorkSound(v, step[v], x, row[x], object[x], Ledger(x), Disturbed, Held)
  BY Zenon DEF EvidenceInv, WorkerSound
<1>2. row[x].revision \in Nat
  BY Zenon DEF EvidenceInv, TablesInv, EvidenceSound
<1>3. step[v].pc \in Deleting => r.archive = row[x].archive /\ p = Ledger(x)
  BY Zenon DEF NobodyDeletes
<1>4. WorkSound(v, step[v], x, r, object[x], Ledger(x), Disturbed, Held)
  BY Zenon, <1>1, <1>2, <1>3, RowMoves
<1>5. WorkSound(v, step[v], x, r, object[x], p, Disturbed, Held)
  BY Zenon, <1>3, <1>4, EntryMoves
<1> QED
  BY Zenon, <1>5, HeldLess

\* A worker that moves on, or concludes, and changes no table.
LEMMA ActStands ==
  ASSUME EvidenceInv, NEW w \in Workers, NEW x, NEW s, Acts(w, x, s),
         UNCHANGED <<row, object, publication, late, damaged, view>>,
         s.pc # "none" => WorkSound(w, s, x, row[x], object[x], Ledger(x), Disturbed, Held),
         s.pc \in Deleting => NobodyDeletes(w, x)
  PROVE  EvidenceInv'
<1>1. /\ x \in Resources /\ EvidenceSound(x, row[x], object[x], Disturbed)
      /\ x \in Observations => LedgerSound(x, row[x], object[x], Ledger(x), Disturbed)
  BY Zenon, ActorFacts DEF Acts
<1>2. PICK r, o, p : r = row[x] /\ o = object[x] /\ p = Ledger(x)
  BY Zenon
<1>3. Disturbed' = Disturbed
  BY Zenon DEF Disturbed
<1>4. TablesGo(x, r, o, p)
  BY Zenon, <1>1, <1>2, TablesChange DEF EvidenceInv
<1>5. RowGoes(row[x], r) /\ EntryGoes(Ledger(x), p)
  BY Zenon, <1>2 DEF RowGoes, EntryGoes
<1>6. OthersStand(w, x, r, o, p)
  BY Zenon, <1>1, <1>2, <1>3, <1>5, OthersKeepRow
<1>7. ActsSoundly(w, x, r, o, p, s)
  BY Zenon, <1>1, <1>2, <1>3, <1>4, <1>5, <1>6 DEF ActsSoundly
<1> QED
  BY Zenon, <1>7, SoundAct
-----------------------------------------------------------------------------
(* The steps that change no table. *)

LEMMA Fields ==
  /\ \A pc, n, e : /\ StepAt(pc, n, e).pc = pc /\ StepAt(pc, n, e).revision = n
                   /\ StepAt(pc, n, e).publication = e
  /\ NoStep.pc = "none"
  /\ \A a, n, t, k : /\ EvidenceRow(a, n, t, k).availability = a /\ EvidenceRow(a, n, t, k).revision = n
                     /\ EvidenceRow(a, n, t, k).transition = t /\ EvidenceRow(a, n, t, k).archive = k
  /\ \A s, n, a : Entry(s, n, a).state = s /\ Entry(s, n, a).revision = n /\ Entry(s, n, a).age = a
  BY Zenon DEF StepAt, NoStep, EvidenceRow, Entry

\* A worker concludes with an outcome.
LEMMA JustConcludes ==
  ASSUME EvidenceInv, NEW w \in Workers, NEW c, task[w].pc = "start", Conclude(w, c),
         UNCHANGED <<row, object, publication, late, damaged, view>>
  PROVE  EvidenceInv'
<1>1. PICK x : x = Target(w)
  BY Zenon
<1>2. Acts(w, x, NoStep)
  BY Zenon, <1>1, ActOfStep
<1>3. NoStep.pc = "none" /\ NoStep.pc \notin Deleting
  BY Zenon, Fields DEF Deleting
<1> QED
  BY Zenon, <1>2, <1>3, ActStands

LEMMA StartArchiveSound ==
  ASSUME EvidenceInv, NEW w \in Workers, StartArchive(w)
  PROVE  EvidenceInv'
<1>1. PICK x : x = Target(w)
  BY Zenon
<1>2. /\ task[w].pc = "start" /\ UNCHANGED <<row, object, publication, late, damaged, view>>
      /\ x \in Observations
  BY Zenon, <1>1, TargetIsEvidence DEF StartArchive, Starts, At, asideVars, EvidenceInv
<1>3. CASE \E c : Conclude(w, c)
  BY Zenon, <1>2, <1>3, JustConcludes
<1>4. CASE row[x].availability = "available" /\ Continue(w, "begin", row[x].revision, 0)
  <2>1. PICK s : s = StepAt("begin", row[x].revision, 0)
    BY Zenon
  <2>2. Acts(w, x, s) /\ s.pc = "begin" /\ s.revision = row[x].revision
    BY <1>1, <1>2, <1>4, <2>1, ActOfStep, Fields
  <2>3. row[x].revision \in Nat
    BY Zenon, <1>1, <1>2, ActorFacts DEF EvidenceSound
  <2>4. WorkSound(w, s, x, row[x], object[x], Ledger(x), Disturbed, Held)
    BY <1>2, <1>4, <2>2, <2>3 DEF WorkSound, ReadSound, Archiving, Expiring, Restoring, Deleting
  <2> QED
    BY Zenon, <1>2, <2>2, <2>4, ActStands DEF Deleting
<1> QED
  BY Zenon, <1>1, <1>3, <1>4 DEF StartArchive

LEMMA StartExpireSound ==
  ASSUME EvidenceInv, NEW w \in Workers, StartExpire(w)
  PROVE  EvidenceInv'
<1>1. PICK x : x = Target(w)
  BY Zenon
<1>2. task[w].pc = "start" /\ UNCHANGED <<row, object, publication, late, damaged, view>>
  BY Zenon DEF StartExpire, Starts, At, asideVars
<1>3. CASE \E c : Conclude(w, c)
  BY Zenon, <1>2, <1>3, JustConcludes
<1>4. CASE /\ row[x].availability = Stored(x)
           /\ Continue(w, IF row[x].transition = "none" THEN "read" ELSE "recheck", row[x].revision, 0)
  <2>1. PICK pc : pc = IF row[x].transition = "none" THEN "read" ELSE "recheck"
    BY Zenon
  <2>2. PICK s : s = StepAt(pc, row[x].revision, 0)
    BY Zenon
  <2>3. Acts(w, x, s) /\ s.pc = pc /\ s.revision = row[x].revision
    BY <1>1, <1>2, <1>4, <2>1, <2>2, ActOfStep, Fields
  <2>4. row[x].revision \in Nat /\ row[x].transition \in {"none", "expiring"}
    BY Zenon, <1>1, <1>2, ActorFacts DEF EvidenceSound
  <2>5. WorkSound(w, s, x, row[x], object[x], Ledger(x), Disturbed, Held)
    BY <1>4, <2>1, <2>3, <2>4 DEF WorkSound, ReadSound, Archiving, Expiring, Restoring, Deleting
  <2> QED
    BY Zenon, <1>2, <2>1, <2>3, <2>5, ActStands DEF Deleting
<1> QED
  BY Zenon, <1>1, <1>3, <1>4 DEF StartExpire

LEMMA StartRestoreSound ==
  ASSUME EvidenceInv, NEW w \in Workers, StartRestore(w)
  PROVE  EvidenceInv'
<1>1. PICK x : x = Target(w)
  BY Zenon
<1>2. /\ task[w].pc = "start" /\ UNCHANGED <<row, object, publication, late, damaged, view>>
      /\ x \in Observations
  BY Zenon, <1>1, TargetIsEvidence DEF StartRestore, Starts, At, asideVars, EvidenceInv
<1>3. CASE \E c : Conclude(w, c)
  BY Zenon, <1>2, <1>3, JustConcludes
<1>4. CASE /\ row[x].availability \in {"archived", "missing", "corrupt"} /\ row[x].transition = "none"
           /\ Continue(w, "fetch", row[x].revision, 0)
  <2>1. PICK s : s = StepAt("fetch", row[x].revision, 0)
    BY Zenon
  <2>2. Acts(w, x, s) /\ s.pc = "fetch" /\ s.revision = row[x].revision
    BY <1>1, <1>2, <1>4, <2>1, ActOfStep, Fields
  <2>3. row[x].revision \in Nat
    BY Zenon, <1>1, <1>2, ActorFacts DEF EvidenceSound
  <2>4. WorkSound(w, s, x, row[x], object[x], Ledger(x), Disturbed, Held)
    BY <1>2, <1>4, <2>2, <2>3 DEF WorkSound, ReadSound, Archiving, Expiring, Restoring, Deleting
  <2> QED
    BY Zenon, <1>2, <2>2, <2>4, ActStands DEF Deleting
<1> QED
  BY Zenon, <1>1, <1>3, <1>4 DEF StartRestore

\* An expiry goes on.
LEMMA ExpiryGoesOn ==
  ASSUME EvidenceInv, NEW w \in Workers, NEW pc, task[w].pc = "start", Goto(w, pc),
         UNCHANGED <<row, object, publication, late, damaged, view>>,
         \/ step[w].pc = "recheck" /\ pc \in {"presence", "delete"}
         \/ step[w].pc = "presence" /\ (pc = "clear" \/ (pc = "expire" /\ object[Target(w)] = "absent"))
         \/ step[w].pc = "read" /\ pc = "mark"
  PROVE  EvidenceInv'
<1>1. PICK x : x = Target(w)
  BY Zenon
<1>2. PICK s : s = StepAt(pc, step[w].revision, step[w].publication)
  BY Zenon
<1>3. Acts(w, x, s) /\ s.pc = pc /\ s.revision = step[w].revision
  BY <1>1, <1>2, ActOfStep, Fields
<1>4. ReadSound(step[w], x, row[x])
  BY Zenon, <1>1, ActorFacts DEF WorkSound
<1>5. ReadSound(s, x, row[x])
  BY Zenon, <1>3, <1>4 DEF ReadSound, Archiving, Expiring, Restoring
<1>6. WorkSound(w, s, x, row[x], object[x], Ledger(x), Disturbed, Held)
  BY Zenon, <1>1, <1>3, <1>5 DEF WorkSound, Archiving, Restoring, Deleting
<1> QED
  BY Zenon, <1>3, <1>6, ActStands DEF Deleting
-----------------------------------------------------------------------------
(* The steps that change the row or the ledger. *)

\* A change of row and ledger entry that keeps the object.
Changes(w, x, r, p, s) ==
  /\ Acts(w, x, s)
  /\ \/ row' = row /\ r = row[x]
     \/ row' = [row EXCEPT ![x] = r]
  /\ \/ publication' = publication /\ p = Ledger(x)
     \/ x \in Observations /\ publication' = [publication EXCEPT ![x] = p]
  /\ UNCHANGED <<object, damaged, view>> /\ late \subseteq late'
  /\ RowGoes(row[x], r) /\ EntryGoes(Ledger(x), p)
  /\ (r.archive = row[x].archive /\ p = Ledger(x)) \/ NobodyDeletes(w, x)
  /\ EvidenceSound(x, r, object[x], Disturbed')
  /\ x \in Observations => LedgerSound(x, r, object[x], p, Disturbed')
  /\ s.pc # "none" => WorkSound(w, s, x, r, object[x], p, Disturbed', Held)
  /\ s.pc \notin Deleting

LEMMA ActChanges ==
  ASSUME EvidenceInv, NEW w \in Workers, NEW x, NEW r, NEW p, NEW s, Changes(w, x, r, p, s)
  PROVE  EvidenceInv'
<1>1. x \in Resources /\ Acts(w, x, s)
  BY Zenon, ActorFacts DEF Acts, Changes
<1>2. PICK o : o = object[x]
  BY Zenon
<1>3. x \in Disturbed => x \in Disturbed'
  BY Zenon DEF Disturbed, Changes
<1>4. TablesGo(x, r, o, p)
  <2>1. TablesInv
    BY Zenon DEF EvidenceInv
  <2>2. /\ (row' = row /\ r = row[x]) \/ row' = [row EXCEPT ![x] = r]
        /\ object' = object /\ o = object[x]
        /\ \/ publication' = publication /\ p = Ledger(x)
           \/ x \in Observations /\ publication' = [publication EXCEPT ![x] = p]
        /\ late \subseteq late' /\ damaged' = damaged /\ view' = view
    BY Zenon, <1>2 DEF Changes
  <2> QED
    BY Zenon, <1>1, <2>1, <2>2, TablesChange
<1>5. OthersStand(w, x, r, o, p)
  BY Zenon, <1>1, <1>2, <1>3, OthersKeepRow DEF Changes
<1>6. ActsSoundly(w, x, r, o, p, s)
  BY Zenon, <1>1, <1>2, <1>4, <1>5 DEF ActsSoundly, Changes
<1> QED
  BY Zenon, <1>6, SoundAct

LEMMA BeginSound ==
  ASSUME EvidenceInv, NEW w \in Workers, Begin(w)
  PROVE  EvidenceInv'
<1>1. PICK x : x = Target(w)
  BY Zenon
<1>2. PICK p : p = Entry("publishing", publication[x].revision + 1, "fresh")
  BY Zenon
<1>3. PICK s : s = StepAt("put", step[w].revision, publication[x].revision + 1)
  BY Zenon
<1>4. /\ task[w].pc = "start" /\ step[w].pc = "begin" /\ ~Locked(x)
      /\ publication' = [publication EXCEPT ![x] = p] /\ Continue(w, "put", step[w].revision, publication[x].revision + 1)
      /\ UNCHANGED <<row, object, late, damaged, view>>
  BY Zenon, <1>1, <1>2 DEF Begin, At, Published, asideVars
<1>5. /\ x \in Observations /\ EvidenceSound(x, row[x], object[x], Disturbed)
      /\ LedgerSound(x, row[x], object[x], Ledger(x), Disturbed) /\ Ledger(x) = publication[x]
      /\ ReadSound(step[w], x, row[x])
  BY Zenon, <1>1, <1>4, ActorFacts DEF WorkSound, Archiving
<1>6. /\ Acts(w, x, s) /\ s.pc = "put" /\ s.revision = step[w].revision
      /\ s.publication = publication[x].revision + 1
      /\ p.state = "publishing" /\ p.revision = publication[x].revision + 1 /\ p.age = "fresh"
  BY <1>1, <1>2, <1>3, <1>4, ActOfStep, Fields
<1>7. publication[x].revision \in Nat /\ Disturbed' = Disturbed
  BY Zenon, <1>4, <1>5 DEF LedgerSound, Disturbed
<1>8. LedgerSound(x, row[x], object[x], p, Disturbed)
  BY <1>6, <1>7 DEF LedgerSound
<1>9. WorkSound(w, s, x, row[x], object[x], p, Disturbed, Held)
  <2>1. ReadSound(s, x, row[x])
    BY Zenon, <1>4, <1>5, <1>6 DEF ReadSound, Archiving, Expiring, Restoring
  <2> QED
    BY <1>5, <1>6, <1>7, <2>1 DEF WorkSound, Deleting
<1>10. NobodyDeletes(w, x)
  BY Zenon, <1>4, LockKeepsOut DEF EvidenceInv
<1>11. PICK r : r = row[x]
  BY Zenon
<1>12. Changes(w, x, r, p, s)
  BY <1>4, <1>5, <1>6, <1>7, <1>8, <1>9, <1>10, <1>11 DEF Changes, RowGoes, EntryGoes, Deleting
<1> QED
  BY Zenon, <1>12, ActChanges

LEMMA CommitArchiveSound ==
  ASSUME EvidenceInv, NEW w \in Workers, CommitArchive(w)
  PROVE  EvidenceInv'
<1>1. PICK x : x = Target(w)
  BY Zenon
<1>2. /\ task[w].pc = "start" /\ step[w].pc = "commit" /\ ~Locked(x)
      /\ lockRetentionRun(w) /\ publication[x].revision = step[w].publication
      /\ UNCHANGED <<object, late, damaged, view>> /\ \E c : Conclude(w, c)
  BY Zenon, <1>1 DEF CommitArchive, At, asideVars
<1>3. /\ x \in Observations /\ EvidenceSound(x, row[x], object[x], Disturbed)
      /\ LedgerSound(x, row[x], object[x], Ledger(x), Disturbed) /\ Ledger(x) = publication[x]
      /\ WorkSound(w, step[w], x, row[x], object[x], Ledger(x), Disturbed, Held) /\ w \in Held
  BY <1>1, <1>2, ActorFacts DEF WorkSound, Archiving
<1>4. Acts(w, x, NoStep) /\ NoStep.pc = "none" /\ NobodyDeletes(w, x) /\ Disturbed' = Disturbed
  BY Zenon, <1>1, <1>2, ActOfStep, Fields, LockKeepsOut DEF EvidenceInv, Disturbed
<1>5. publication[x].revision \in Nat /\ row[x].revision \in Nat
  BY Zenon, <1>3 DEF LedgerSound, EvidenceSound
<1>6. CASE UNCHANGED row /\ publication' = Published(x, "orphan")
  <2>1. PICK p : p = Entry("orphan", publication[x].revision + 1, "fresh")
    BY Zenon
  <2>2. /\ p.state = "orphan" /\ p.revision = publication[x].revision + 1 /\ p.age = "fresh"
        /\ publication' = [publication EXCEPT ![x] = p]
    BY <1>6, <2>1, Fields DEF Published
  <2>3. LedgerSound(x, row[x], object[x], p, Disturbed)
    BY <1>5, <2>2 DEF LedgerSound
  <2>4. PICK r : r = row[x]
    BY Zenon
  <2>5. Changes(w, x, r, p, NoStep)
    BY Zenon, <1>2, <1>3, <1>4, <1>5, <1>6, <2>2, <2>3, <2>4 DEF Changes, RowGoes, EntryGoes, Deleting
  <2> QED
    BY Zenon, <2>5, ActChanges
<1>7. CASE /\ row[x].revision = step[w].revision
           /\ row' = [row EXCEPT ![x] = EvidenceRow("archived", @.revision + 1, "none", "referenced")]
           /\ publication' = Published(x, "referenced")
  <2>1. PICK p : p = Entry("referenced", publication[x].revision + 1, "fresh")
    BY Zenon
  <2>2. PICK r : r = EvidenceRow("archived", row[x].revision + 1, "none", "referenced")
    BY Zenon
  <2>3. /\ p.revision = publication[x].revision + 1 /\ p.age = "fresh"
        /\ publication' = [publication EXCEPT ![x] = p] /\ row' = [row EXCEPT ![x] = r]
        /\ r.availability = "archived" /\ r.revision = row[x].revision + 1
        /\ r.transition = "none" /\ r.archive = "referenced"
    BY <1>7, <2>1, <2>2, Fields DEF Published
  <2>4. x \notin Disturbed => object[x] = "intact"
    BY Zenon, <1>2, <1>3, <1>7 DEF WorkSound
  <2>5. EvidenceSound(x, r, object[x], Disturbed)
    BY <1>3, <1>5, <2>3, <2>4, RetentionConstants DEF EvidenceSound, Stored
  <2>6. LedgerSound(x, r, object[x], p, Disturbed)
    BY <1>5, <2>3 DEF LedgerSound
  <2>7. Changes(w, x, r, p, NoStep)
    BY Zenon, <1>2, <1>3, <1>4, <1>5, <2>3, <2>5, <2>6 DEF Changes, RowGoes, EntryGoes, Deleting
  <2> QED
    BY Zenon, <2>7, ActChanges
<1> QED
  BY Zenon, <1>1, <1>6, <1>7 DEF CommitArchive

\* The row of x is marked, and the worker concludes.
LEMMA MarkedSound ==
  ASSUME EvidenceInv, NEW w \in Workers, NEW x, NEW r, task[w].pc = "start", Target(w) = x,
         \E c : Conclude(w, c), row' = [row EXCEPT ![x] = r],
         UNCHANGED <<object, publication, damaged, view>>, late \subseteq late',
         r.revision = row[x].revision + 1, r.archive = row[x].archive,
         EvidenceSound(x, r, object[x], Disturbed')
  PROVE  EvidenceInv'
<1>1. /\ x \in Resources
      /\ x \in Observations => LedgerSound(x, row[x], object[x], Ledger(x), Disturbed)
  BY Zenon, ActorFacts
<1>2. Acts(w, x, NoStep) /\ NoStep.pc = "none"
  BY Zenon, ActOfStep, Fields
<1>3. PICK p : p = Ledger(x)
  BY Zenon
<1>4. x \in Disturbed => x \in Disturbed'
  BY Zenon DEF Disturbed
<1>5. x \in Observations => LedgerSound(x, r, object[x], p, Disturbed')
  BY Zenon, <1>1, <1>3, <1>4 DEF LedgerSound
<1>6. Changes(w, x, r, p, NoStep)
  BY Zenon, <1>2, <1>3, <1>5 DEF Changes, RowGoes, EntryGoes, Deleting
<1> QED
  BY Zenon, <1>6, ActChanges
LEMMA ReadObjectSound ==
  ASSUME EvidenceInv, NEW w \in Workers, ReadObject(w)
  PROVE  EvidenceInv'
<1>1. PICK x : x = Target(w)
  BY Zenon
<1>2. /\ task[w].pc = "start" /\ step[w].pc = "read"
      /\ UNCHANGED <<object, publication, late, damaged, view>>
  BY Zenon, <1>1 DEF ReadObject, At, asideVars
<1>3. /\ EvidenceSound(x, row[x], object[x], Disturbed)
      /\ ReadSound(step[w], x, row[x])
  BY Zenon, <1>1, <1>2, ActorFacts DEF WorkSound
<1>4. CASE Goto(w, "mark") /\ UNCHANGED row
  BY Zenon, <1>2, <1>4, ExpiryGoesOn
<1>5. CASE UNCHANGED row /\ Conclude(w, Missing(x))
  BY Zenon, <1>2, <1>5, JustConcludes
<1>6. CASE /\ row[x].revision = step[w].revision /\ object[x] # "intact"
           /\ row' = Marked(x, Missing(x)) /\ Conclude(w, Missing(x))
  <2>1. PICK m : m = Missing(x)
    BY Zenon
  <2>2. PICK r : r = EvidenceRow(m, row[x].revision + 1, "none", row[x].archive)
    BY Zenon
  <2>3. /\ row' = [row EXCEPT ![x] = r] /\ m \in {"missing", "corrupt"}
        /\ r.availability = m /\ r.revision = row[x].revision + 1
        /\ r.transition = "none" /\ r.archive = row[x].archive
    BY <1>6, <2>1, <2>2, Fields DEF Marked, Missing
  <2>4. row[x].availability = Stored(x) /\ row[x].transition = "none" /\ x \in Disturbed
    BY Zenon, <1>2, <1>3, <1>6 DEF ReadSound, EvidenceSound
  <2>5. EvidenceSound(x, r, object[x], Disturbed) /\ Disturbed' = Disturbed
    BY <1>2, <1>3, <2>3, <2>4 DEF EvidenceSound, Stored, Disturbed
  <2>6. /\ \E c : Conclude(w, c)
        /\ late \subseteq late' /\ EvidenceSound(x, r, object[x], Disturbed')
    BY Zenon, <1>2, <1>6, <2>5
  <2> QED
    BY Zenon, <1>1, <1>2, <2>3, <2>6, MarkedSound
<1> QED
  BY Zenon, <1>1, <1>4, <1>5, <1>6 DEF ReadObject

LEMMA MarkSound ==
  ASSUME EvidenceInv, NEW w \in Workers, Mark(w)
  PROVE  EvidenceInv'
<1>1. PICK x : x = Target(w)
  BY Zenon
<1>2. task[w].pc = "start" /\ UNCHANGED <<object, publication, late, damaged, view>>
  BY Zenon DEF Mark, At, asideVars
<1>3. CASE Conclude(w, "protected") /\ UNCHANGED row
  BY Zenon, <1>2, <1>3, JustConcludes
<1>4. CASE /\ row[x].revision = step[w].revision /\ row[x].availability = Stored(x)
           /\ row' = [row EXCEPT ![x] =
                EvidenceRow(@.availability, @.revision + 1, "expiring", @.archive)]
           /\ Continue(w, "recheck", step[w].revision + 1, 0)
  <2>1. /\ x \in Resources /\ EvidenceSound(x, row[x], object[x], Disturbed)
        /\ x \in Observations => LedgerSound(x, row[x], object[x], Ledger(x), Disturbed)
    BY Zenon, <1>1, <1>2, ActorFacts
  <2>2. PICK r : r = EvidenceRow(row[x].availability, row[x].revision + 1, "expiring", row[x].archive)
    BY Zenon
  <2>3. PICK s : s = StepAt("recheck", step[w].revision + 1, 0)
    BY Zenon
  <2>4. PICK p : p = Ledger(x)
    BY Zenon
  <2>5. /\ row' = [row EXCEPT ![x] = r]
        /\ r.availability = Stored(x) /\ r.revision = row[x].revision + 1
        /\ r.transition = "expiring" /\ r.archive = row[x].archive
        /\ Acts(w, x, s) /\ s.pc = "recheck" /\ s.revision = row[x].revision + 1
    BY <1>1, <1>2, <1>4, <2>2, <2>3, ActOfStep, Fields
  <2>6. row[x].revision \in Nat /\ Disturbed' = Disturbed
    BY Zenon, <1>2, <2>1 DEF EvidenceSound, Disturbed
  <2>7. EvidenceSound(x, r, object[x], Disturbed)
    BY <1>4, <2>1, <2>5, <2>6 DEF EvidenceSound, Stored
  <2>8. x \in Observations => LedgerSound(x, r, object[x], p, Disturbed)
    BY Zenon, <2>1, <2>4, <2>5 DEF LedgerSound
  <2>9. WorkSound(w, s, x, r, object[x], p, Disturbed, Held)
    BY <2>5, <2>6 DEF WorkSound, ReadSound, Archiving, Expiring, Restoring, Deleting
  <2>10. Changes(w, x, r, p, s)
    BY Zenon, <1>2, <2>4, <2>5, <2>6, <2>7, <2>8, <2>9 DEF Changes, RowGoes, EntryGoes, Deleting
  <2> QED
    BY Zenon, <2>10, ActChanges
<1> QED
  BY Zenon, <1>1, <1>3, <1>4 DEF Mark

LEMMA ClearSound ==
  ASSUME EvidenceInv, NEW w \in Workers, ClearTransition(w)
  PROVE  EvidenceInv'
<1>1. PICK x : x = Target(w)
  BY Zenon
<1>2. /\ task[w].pc = "start" /\ step[w].pc = "clear" /\ Conclude(w, "protected")
      /\ UNCHANGED <<object, publication, damaged, view>> /\ Landed(w, x)
  BY Zenon, <1>1 DEF ClearTransition, At, asideVars
<1>3. x \in Resources /\ EvidenceSound(x, row[x], object[x], Disturbed) /\ Acts(w, x, NoStep)
      /\ (x \in Observations => LedgerSound(x, row[x], object[x], Ledger(x), Disturbed))
  BY Zenon, <1>1, <1>2, ActorFacts, ActOfStep
<1>4. /\ late \subseteq late' /\ (x \in Disturbed => x \in Disturbed')
      /\ x \notin Disturbed' => object[x] # "absent"
  BY Zenon, <1>2 DEF Landed, InForce, At, Disturbed
<1>5. CASE UNCHANGED row
  <2>1. PICK r, p : r = row[x] /\ p = Ledger(x)
    BY Zenon
  <2>2. EvidenceSound(x, r, object[x], Disturbed')
    BY Zenon, <1>3, <1>4, <2>1 DEF EvidenceSound
  <2>3. x \in Observations => LedgerSound(x, r, object[x], p, Disturbed')
    BY Zenon, <1>3, <1>4, <2>1 DEF LedgerSound
  <2>4. Changes(w, x, r, p, NoStep)
    BY Zenon, <1>2, <1>3, <1>4, <1>5, <2>1, <2>2, <2>3, Fields DEF Changes, RowGoes, EntryGoes, Deleting
  <2> QED
    BY Zenon, <2>4, ActChanges
<1>6. CASE row[x].transition = "expiring" /\ row' = Marked(x, row[x].availability)
  <2>1. PICK r : r = EvidenceRow(row[x].availability, row[x].revision + 1, "none", row[x].archive)
    BY Zenon
  <2>2. /\ row' = [row EXCEPT ![x] = r]
        /\ r.availability = row[x].availability /\ r.revision = row[x].revision + 1
        /\ r.transition = "none" /\ r.archive = row[x].archive
    BY <1>6, <2>1, Fields DEF Marked
  <2>3. x \notin Disturbed' => object[x] = "intact"
    BY Zenon, <1>3, <1>4 DEF EvidenceSound
  <2>4. EvidenceSound(x, r, object[x], Disturbed')
    BY <1>3, <1>4, <1>6, <2>2, <2>3 DEF EvidenceSound, Stored
  <2> QED
    BY Zenon, <1>1, <1>2, <1>4, <2>2, <2>4, MarkedSound
<1> QED
  BY Zenon, <1>1, <1>5, <1>6 DEF ClearTransition

LEMMA ExpireSound ==
  ASSUME EvidenceInv, NEW w \in Workers, Expire(w)
  PROVE  EvidenceInv'
<1>1. PICK x : x = Target(w)
  BY Zenon
<1>2. /\ task[w].pc = "start" /\ step[w].pc = "expire" /\ Conclude(w, "succeeded")
      /\ row[x].revision = step[w].revision /\ row[x].transition = "expiring"
      /\ row' = Marked(x, "expired") /\ UNCHANGED <<object, late, damaged, view>>
  BY Zenon, <1>1 DEF Expire, At, asideVars
<1>3. /\ x \in Resources /\ EvidenceSound(x, row[x], object[x], Disturbed)
      /\ x \in Observations => /\ LedgerSound(x, row[x], object[x], Ledger(x), Disturbed)
                               /\ Ledger(x) = publication[x]
      /\ WorkSound(w, step[w], x, row[x], object[x], Ledger(x), Disturbed, Held)
  BY Zenon, <1>1, <1>2, ActorFacts
<1>4. PICK r : r = EvidenceRow("expired", row[x].revision + 1, "none", row[x].archive)
  BY Zenon
<1>5. /\ row' = [row EXCEPT ![x] = r]
      /\ r.availability = "expired" /\ r.revision = row[x].revision + 1
      /\ r.transition = "none" /\ r.archive = row[x].archive
  BY <1>2, <1>4, Fields DEF Marked
<1>6. x \notin Disturbed => object[x] = "absent"
  BY Zenon, <1>2, <1>3 DEF WorkSound
<1>7. EvidenceSound(x, r, object[x], Disturbed) /\ Disturbed' = Disturbed
  BY <1>2, <1>3, <1>5, <1>6 DEF EvidenceSound, Stored, Disturbed
<1>8. CASE UNCHANGED publication
  BY <1>1, <1>2, <1>5, <1>7, <1>8, MarkedSound
<1>9. CASE x \in Observations /\ ~Locked(x) /\ publication' = Published(x, "deleted")
  <2>1. PICK p : p = Entry("deleted", publication[x].revision + 1, "fresh")
    BY Zenon
  <2>2. /\ p.revision = publication[x].revision + 1 /\ p.age = "fresh"
        /\ publication' = [publication EXCEPT ![x] = p]
    BY <1>9, <2>1, Fields DEF Published
  <2>3. LedgerSound(x, r, object[x], p, Disturbed) /\ publication[x].revision \in Nat
    BY <1>3, <1>6, <1>9, <2>2 DEF LedgerSound
  <2>4. Acts(w, x, NoStep) /\ NoStep.pc = "none" /\ NobodyDeletes(w, x)
    BY Zenon, <1>1, <1>2, <1>9, ActOfStep, Fields, LockKeepsOut DEF EvidenceInv
  <2>5. Changes(w, x, r, p, NoStep)
    BY Zenon, <1>2, <1>3, <1>5, <1>7, <1>9, <2>2, <2>3, <2>4 DEF Changes, RowGoes, EntryGoes, Deleting
  <2> QED
    BY Zenon, <2>5, ActChanges
<1> QED
  BY Zenon, <1>1, <1>8, <1>9 DEF Expire
LEMMA FetchSound ==
  ASSUME EvidenceInv, NEW w \in Workers, Fetch(w)
  PROVE  EvidenceInv'
<1>1. PICK x : x = Target(w)
  BY Zenon
<1>2. /\ task[w].pc = "start" /\ step[w].pc = "fetch"
      /\ UNCHANGED <<object, publication, late, damaged, view>>
  BY Zenon, <1>1 DEF Fetch, At, asideVars
<1>3. /\ EvidenceSound(x, row[x], object[x], Disturbed) /\ x \in Observations
      /\ ReadSound(step[w], x, row[x])
  BY Zenon, <1>1, <1>2, ActorFacts DEF WorkSound, Restoring
<1>4. CASE Goto(w, "restore") /\ UNCHANGED row
  <2>1. PICK s : s = StepAt("restore", step[w].revision, step[w].publication)
    BY Zenon
  <2>2. Acts(w, x, s) /\ s.pc = "restore" /\ s.revision = step[w].revision
    BY <1>1, <1>2, <1>4, <2>1, ActOfStep, Fields
  <2>3. ReadSound(s, x, row[x])
    BY Zenon, <1>2, <1>3, <2>2 DEF ReadSound, Archiving, Expiring, Restoring
  <2>4. WorkSound(w, s, x, row[x], object[x], Ledger(x), Disturbed, Held)
    BY Zenon, <1>3, <2>2, <2>3 DEF WorkSound, Deleting
  <2> QED
    BY Zenon, <1>2, <1>4, <2>2, <2>4, ActStands DEF Deleting
<1>5. CASE UNCHANGED row /\ Conclude(w, Missing(x))
  BY Zenon, <1>2, <1>5, JustConcludes
<1>6. CASE /\ row[x].revision = step[w].revision /\ object[x] # "intact"
           /\ row' = Labelled(x, Missing(x)) /\ Conclude(w, Missing(x))
  <2>1. PICK m : m = Missing(x)
    BY Zenon
  <2>2. PICK r : r = EvidenceRow(m, row[x].revision + 1, row[x].transition, row[x].archive)
    BY Zenon
  <2>3. /\ row' = [row EXCEPT ![x] = r] /\ m \in {"missing", "corrupt"}
        /\ r.availability = m /\ r.revision = row[x].revision + 1
        /\ r.transition = row[x].transition /\ r.archive = row[x].archive
    BY <1>6, <2>1, <2>2, Fields DEF Labelled, Missing
  <2>4. /\ row[x].availability \in {"archived", "missing", "corrupt"} /\ row[x].transition = "none"
    BY Zenon, <1>2, <1>3, <1>6 DEF ReadSound, Restoring
  <2>5. x \in Disturbed
    BY Zenon, <1>3, <1>6, <2>4 DEF EvidenceSound, Stored
  <2>6. EvidenceSound(x, r, object[x], Disturbed) /\ Disturbed' = Disturbed
    BY <1>2, <1>3, <2>3, <2>4, <2>5 DEF EvidenceSound, Disturbed
  <2>7. /\ \E c : Conclude(w, c)
        /\ late \subseteq late' /\ EvidenceSound(x, r, object[x], Disturbed')
    BY Zenon, <1>2, <1>6, <2>6
  <2> QED
    BY Zenon, <1>1, <1>2, <2>3, <2>7, MarkedSound
<1> QED
  BY Zenon, <1>1, <1>4, <1>5, <1>6 DEF Fetch

LEMMA RestoreSound ==
  ASSUME EvidenceInv, NEW w \in Workers, Restore(w)
  PROVE  EvidenceInv'
<1>1. PICK x : x = Target(w)
  BY Zenon
<1>2. /\ task[w].pc = "start" /\ step[w].pc = "restore" /\ Conclude(w, "succeeded")
      /\ row[x].availability \in {"archived", "missing", "corrupt"}
      /\ row' = Marked(x, "available") /\ UNCHANGED <<object, publication, late, damaged, view>>
  BY Zenon, <1>1 DEF Restore, At, asideVars
<1>3. EvidenceSound(x, row[x], object[x], Disturbed) /\ x \in Observations
  BY Zenon, <1>1, <1>2, ActorFacts DEF WorkSound, Restoring
<1>4. PICK r : r = EvidenceRow("available", row[x].revision + 1, "none", row[x].archive)
  BY Zenon
<1>5. /\ row' = [row EXCEPT ![x] = r]
      /\ r.availability = "available" /\ r.revision = row[x].revision + 1
      /\ r.transition = "none" /\ r.archive = row[x].archive
  BY <1>2, <1>4, Fields DEF Marked
<1>6. EvidenceSound(x, r, object[x], Disturbed) /\ Disturbed' = Disturbed
  BY <1>2, <1>3, <1>5 DEF EvidenceSound, Stored, Disturbed
<1>7. /\ \E c : Conclude(w, c)
      /\ late \subseteq late' /\ EvidenceSound(x, r, object[x], Disturbed')
  BY Zenon, <1>2, <1>6
<1> QED
  BY <1>1, <1>2, <1>5, <1>7, MarkedSound

-----------------------------------------------------------------------------
(* The steps that write or delete an object. *)

LEMMA PutSound ==
  ASSUME EvidenceInv, NEW w \in Workers, Put(w)
  PROVE  EvidenceInv'
<1>1. PICK x : x = Target(w)
  BY Zenon
<1>2. /\ task[w].pc = "start" /\ step[w].pc = "put" /\ Goto(w, "commit") /\ Landed(w, x)
      /\ object' = [object EXCEPT ![x] = "intact"]
      /\ UNCHANGED <<row, publication, damaged, view>>
  BY Zenon, <1>1 DEF Put, At, asideVars
<1>3. /\ x \in Resources /\ x \in Observations /\ EvidenceSound(x, row[x], object[x], Disturbed)
      /\ LedgerSound(x, row[x], object[x], Ledger(x), Disturbed) /\ Ledger(x) = publication[x]
      /\ WorkSound(w, step[w], x, row[x], object[x], Ledger(x), Disturbed, Held)
  BY <1>1, <1>2, ActorFacts DEF WorkSound, Archiving
<1>4. PICK r, p : r = row[x] /\ p = Ledger(x)
  BY Zenon
<1>5. PICK s : s = StepAt("commit", step[w].revision, step[w].publication)
  BY Zenon
<1>6. /\ Acts(w, x, s) /\ s.pc = "commit" /\ s.revision = step[w].revision
      /\ s.publication = step[w].publication
  BY <1>1, <1>2, <1>5, ActOfStep, Fields
<1>7. /\ late \subseteq late' /\ (x \in Disturbed => x \in Disturbed')
      /\ x \notin Disturbed' => p.revision = step[w].publication /\ r.revision = step[w].revision
  BY Zenon, <1>2, <1>3, <1>4 DEF Landed, InForce, At, Disturbed
<1>8. TablesGo(x, r, "intact", p)
  BY Zenon, <1>2, <1>3, <1>4, <1>7, TablesChange DEF EvidenceInv
<1>9. x \notin Disturbed' => r.availability = "available" /\ p.state = "publishing"
  BY Zenon, <1>2, <1>3, <1>4, <1>7 DEF WorkSound, ReadSound, Archiving
<1>10. EvidenceSound(x, r, "intact", Disturbed')
  BY Zenon, <1>3, <1>4, <1>9 DEF EvidenceSound
<1>11. LedgerSound(x, r, "intact", p, Disturbed')
  BY Zenon, <1>3, <1>4, <1>9 DEF LedgerSound
<1>12. p.age = "fresh"
  BY Zenon, <1>2, <1>3, <1>4 DEF WorkSound
<1>13. WorkSound(w, s, x, r, "intact", p, Disturbed', Held)
  <2>1. ReadSound(s, x, r)
    BY Zenon, <1>2, <1>3, <1>4, <1>6 DEF WorkSound, ReadSound, Archiving, Expiring, Restoring
  <2> QED
    BY Zenon, <1>2, <1>3, <1>4, <1>6, <1>12, <2>1 DEF WorkSound, Deleting
<1>14. OthersStand(w, x, r, "intact", p)
  <2> SUFFICES ASSUME NEW v \in Workers \ {w}, step[v].pc # "none", Target(v) = x
               PROVE  WorkSound(v, step[v], x, r, "intact", p, Disturbed', Held)
    BY Zenon DEF OthersStand
  <2>1. WorkSound(v, step[v], x, r, object[x], p, Disturbed, Held)
    BY Zenon, <1>4 DEF EvidenceInv, WorkerSound
  <2>2. WorkSound(v, step[v], x, r, object[x], p, Disturbed', Held)
    BY Zenon, <1>7, <2>1, HeldLess
  <2>3. step[v].pc \notin Deleting
    BY Zenon, <1>12, <2>1 DEF WorkSound
  <2>4. step[v].pc = "expire" /\ step[v].revision = r.revision => x \in Disturbed'
    <3>1. step[v].pc = "expire" /\ step[v].revision = r.revision => r.transition = "expiring"
      BY Zenon, <2>1 DEF WorkSound, ReadSound, Expiring
    <3> QED
      BY Zenon, <1>3, <1>4, <1>9, <3>1 DEF EvidenceSound, Stored
  <2> QED
    BY Zenon, <2>2, <2>3, <2>4, ObjectWritten
<1>15. ActsSoundly(w, x, r, "intact", p, s)
  BY Zenon, <1>4, <1>6, <1>8, <1>10, <1>11, <1>13, <1>14 DEF ActsSoundly, RowGoes, Deleting
<1> QED
  BY Zenon, <1>15, SoundAct

LEMMA DeleteSound ==
  ASSUME EvidenceInv, NEW w \in Workers, DeleteObject(w)
  PROVE  EvidenceInv'
<1>1. PICK x : x = Target(w)
  BY Zenon
<1>2. /\ task[w].pc = "start" /\ step[w].pc = "delete" /\ Goto(w, "expire") /\ Landed(w, x)
      /\ object' = [object EXCEPT ![x] = "absent"]
      /\ UNCHANGED <<row, publication, damaged, view>>
  BY Zenon, <1>1 DEF DeleteObject, At, asideVars
<1>3. /\ x \in Resources /\ EvidenceSound(x, row[x], object[x], Disturbed)
      /\ x \in Observations => LedgerSound(x, row[x], object[x], Ledger(x), Disturbed)
      /\ WorkSound(w, step[w], x, row[x], object[x], Ledger(x), Disturbed, Held)
  BY Zenon, <1>1, <1>2, ActorFacts
<1>4. PICK r, p : r = row[x] /\ p = Ledger(x)
  BY Zenon
<1>5. PICK s : s = StepAt("expire", step[w].revision, step[w].publication)
  BY Zenon
<1>6. Acts(w, x, s) /\ s.pc = "expire" /\ s.revision = step[w].revision
  BY <1>1, <1>2, <1>5, ActOfStep, Fields
<1>7. /\ late \subseteq late' /\ (x \in Disturbed => x \in Disturbed')
      /\ x \notin Disturbed' => r.transition = "expiring"
  BY Zenon, <1>2, <1>4 DEF Landed, InForce, At, Disturbed
<1>8. TablesGo(x, r, "absent", p)
  BY Zenon, <1>2, <1>3, <1>4, <1>7, TablesChange DEF EvidenceInv
<1>9. EvidenceSound(x, r, "absent", Disturbed')
  BY Zenon, <1>3, <1>4, <1>7 DEF EvidenceSound
<1>10. x \in Observations => LedgerSound(x, r, "absent", p, Disturbed')
  BY Zenon, <1>3, <1>4 DEF LedgerSound
<1>11. WorkSound(w, s, x, r, "absent", p, Disturbed', Held)
  <2>1. ReadSound(s, x, r)
    BY Zenon, <1>2, <1>3, <1>4, <1>6 DEF WorkSound, ReadSound, Archiving, Expiring, Restoring
  <2> QED
    BY Zenon, <1>6, <2>1 DEF WorkSound, Archiving, Restoring, Deleting
<1>12. OthersStand(w, x, r, "absent", p)
  <2> SUFFICES ASSUME NEW v \in Workers \ {w}, step[v].pc # "none", Target(v) = x
               PROVE  WorkSound(v, step[v], x, r, "absent", p, Disturbed', Held)
    BY Zenon DEF OthersStand
  <2>1. WorkSound(v, step[v], x, r, object[x], p, Disturbed, Held)
    BY Zenon, <1>4 DEF EvidenceInv, WorkerSound
  <2>2. WorkSound(v, step[v], x, r, object[x], p, Disturbed', Held)
    BY Zenon, <1>7, <2>1, HeldLess
  <2>3. step[v].pc = "commit" /\ step[v].revision = r.revision => x \in Disturbed'
    <3>1. step[v].pc = "commit" /\ step[v].revision = r.revision =>
            r.availability = "available" /\ x \in Observations
      BY Zenon, <2>1 DEF WorkSound, ReadSound, Archiving
    <3> QED
      BY Zenon, <1>3, <1>4, <1>7, <3>1 DEF EvidenceSound, Stored
  <2> QED
    BY Zenon, <2>2, <2>3, ObjectDeleted
<1>13. ActsSoundly(w, x, r, "absent", p, s)
  BY Zenon, <1>4, <1>6, <1>8, <1>9, <1>10, <1>11, <1>12 DEF ActsSoundly, RowGoes, Deleting
<1> QED
  BY Zenon, <1>13, SoundAct
LEMMA OrphanCheckSound ==
  ASSUME EvidenceInv, NEW w \in Workers, OrphanCheck(w)
  PROVE  EvidenceInv'
<1>1. PICK x : x = Target(w)
  BY Zenon
<1>2. /\ task[w].pc = "start" /\ step[w].pc = "none" /\ ~Locked(x) /\ x \in Observations
      /\ UNCHANGED <<row, object, late, damaged, view>>
  BY Zenon, <1>1, TargetIsEvidence DEF OrphanCheck, Starts, At, asideVars, EvidenceInv
<1>3. /\ EvidenceSound(x, row[x], object[x], Disturbed)
      /\ LedgerSound(x, row[x], object[x], Ledger(x), Disturbed) /\ Ledger(x) = publication[x]
      /\ NobodyDeletes(w, x)
  BY Zenon, <1>1, <1>2, ActorFacts, LockKeepsOut DEF EvidenceInv
<1>4. CASE Conclude(w, "protected") /\ UNCHANGED publication
  BY Zenon, <1>2, <1>4, JustConcludes
<1>5. CASE /\ row[x].archive = "referenced"
           /\ Conclude(w, "protected") /\ publication' = Published(x, "referenced")
  <2>1. PICK p : p = Entry("referenced", publication[x].revision + 1, "fresh")
    BY Zenon
  <2>2. /\ p.revision = publication[x].revision + 1 /\ p.age = "fresh"
        /\ publication' = [publication EXCEPT ![x] = p] /\ publication[x].revision \in Nat
    BY <1>3, <1>5, <2>1, Fields DEF Published, LedgerSound
  <2>3. PICK r : r = row[x]
    BY Zenon
  <2>4. LedgerSound(x, r, object[x], p, Disturbed) /\ Disturbed' = Disturbed
    BY <1>2, <1>5, <2>2, <2>3 DEF LedgerSound, Disturbed
  <2>5. Acts(w, x, NoStep) /\ NoStep.pc = "none"
    BY Zenon, <1>1, <1>2, <1>5, ActOfStep, Fields
  <2>6. Changes(w, x, r, p, NoStep)
    BY Zenon, <1>2, <1>3, <2>2, <2>3, <2>4, <2>5 DEF Changes, RowGoes, EntryGoes, Deleting
  <2> QED
    BY Zenon, <2>6, ActChanges
<1>6. CASE /\ publication[x].state \in {"publishing", "orphan"} /\ publication[x].age # "fresh"
           /\ row[x].archive # "referenced" /\ Goto(w, "orphan") /\ UNCHANGED publication
  <2>1. PICK s : s = StepAt("orphan", step[w].revision, step[w].publication)
    BY Zenon
  <2>2. Acts(w, x, s) /\ s.pc = "orphan"
    BY <1>1, <1>2, <1>6, <2>1, ActOfStep, Fields
  <2>3. row[x].archive = "none" /\ publication[x].age = "old"
    BY Zenon, <1>3, <1>6 DEF EvidenceSound, LedgerSound
  <2>4. WorkSound(w, s, x, row[x], object[x], Ledger(x), Disturbed, Held)
    BY Zenon, <1>2, <1>3, <1>6, <2>2, <2>3 DEF WorkSound, ReadSound, Archiving, Expiring, Restoring, Deleting
  <2> QED
    BY Zenon, <1>2, <1>3, <1>6, <2>2, <2>4, ActStands
<1> QED
  BY Zenon, <1>1, <1>4, <1>5, <1>6 DEF OrphanCheck

LEMMA OrphanDeleteSound ==
  ASSUME EvidenceInv, NEW w \in Workers, OrphanDelete(w)
  PROVE  EvidenceInv'
<1>1. PICK x : x = Target(w)
  BY Zenon
<1>2. /\ task[w].pc = "start" /\ step[w].pc = "orphan" /\ Goto(w, "orphaned")
      /\ object' = [object EXCEPT ![x] = "absent"]
      /\ UNCHANGED <<row, publication, late, damaged, view>>
  BY Zenon, <1>1 DEF OrphanDelete, At, asideVars
<1>3. /\ x \in Resources /\ x \in Observations /\ EvidenceSound(x, row[x], object[x], Disturbed)
      /\ LedgerSound(x, row[x], object[x], Ledger(x), Disturbed)
      /\ WorkSound(w, step[w], x, row[x], object[x], Ledger(x), Disturbed, Held)
  BY <1>1, <1>2, ActorFacts DEF WorkSound, Deleting
<1>4. PICK r, p : r = row[x] /\ p = Ledger(x)
  BY Zenon
<1>5. PICK s : s = StepAt("orphaned", step[w].revision, step[w].publication)
  BY Zenon
<1>6. Acts(w, x, s) /\ s.pc = "orphaned" /\ Disturbed' = Disturbed
  BY <1>1, <1>2, <1>5, ActOfStep, Fields DEF Disturbed
<1>7. TablesGo(x, r, "absent", p)
  BY Zenon, <1>2, <1>3, <1>4, TablesChange DEF EvidenceInv
<1>8. p.state \in {"publishing", "orphan"} /\ p.age = "old" /\ r.archive = "none"
  BY Zenon, <1>2, <1>3, <1>4 DEF WorkSound, Deleting
<1>9. EvidenceSound(x, r, "absent", Disturbed)
  BY Zenon, <1>3, <1>4, <1>8 DEF EvidenceSound, Stored
<1>10. LedgerSound(x, r, "absent", p, Disturbed)
  BY Zenon, <1>3, <1>4 DEF LedgerSound
<1>11. WorkSound(w, s, x, r, "absent", p, Disturbed, Held)
  BY Zenon, <1>3, <1>6, <1>8 DEF WorkSound, ReadSound, Archiving, Expiring, Restoring, Deleting
<1>12. OthersStand(w, x, r, "absent", p)
  <2> SUFFICES ASSUME NEW v \in Workers \ {w}, step[v].pc # "none", Target(v) = x
               PROVE  WorkSound(v, step[v], x, r, "absent", p, Disturbed', Held)
    BY Zenon DEF OthersStand
  <2>1. WorkSound(v, step[v], x, r, object[x], p, Disturbed, Held)
    BY Zenon, <1>4 DEF EvidenceInv, WorkerSound
  <2>2. ~(step[v].pc = "commit" /\ v \in Held)
    BY Zenon, <1>8, <2>1 DEF WorkSound
  <2> QED
    BY Zenon, <1>6, <2>1, <2>2, ObjectDeleted
<1>13. NobodyDeletes(w, x)
  BY Zenon, <1>1, <1>2, LockKeepsOut DEF EvidenceInv, Deleting
<1>14. ActsSoundly(w, x, r, "absent", p, s)
  BY Zenon, <1>4, <1>6, <1>7, <1>9, <1>10, <1>11, <1>12, <1>13 DEF ActsSoundly, RowGoes
<1> QED
  BY Zenon, <1>14, SoundAct

LEMMA OrphanFinishSound ==
  ASSUME EvidenceInv, NEW w \in Workers, OrphanFinish(w)
  PROVE  EvidenceInv'
<1>1. PICK x : x = Target(w)
  BY Zenon
<1>2. /\ task[w].pc = "start" /\ step[w].pc = "orphaned" /\ Conclude(w, "succeeded")
      /\ publication' = Published(x, "deleted")
      /\ UNCHANGED <<row, object, late, damaged, view>>
  BY Zenon, <1>1 DEF OrphanFinish, At, asideVars
<1>3. /\ x \in Observations /\ EvidenceSound(x, row[x], object[x], Disturbed)
      /\ LedgerSound(x, row[x], object[x], Ledger(x), Disturbed) /\ Ledger(x) = publication[x]
      /\ x \notin Disturbed => object[x] = "absent"
  BY <1>1, <1>2, ActorFacts DEF WorkSound, Deleting
<1>4. PICK p : p = Entry("deleted", publication[x].revision + 1, "fresh")
  BY Zenon
<1>5. PICK r : r = row[x]
  BY Zenon
<1>6. /\ p.revision = publication[x].revision + 1 /\ p.age = "fresh"
      /\ publication' = [publication EXCEPT ![x] = p] /\ publication[x].revision \in Nat
  BY <1>2, <1>3, <1>4, Fields DEF Published, LedgerSound
<1>7. LedgerSound(x, r, object[x], p, Disturbed) /\ Disturbed' = Disturbed
  BY <1>2, <1>3, <1>6 DEF LedgerSound, Disturbed
<1>8. Acts(w, x, NoStep) /\ NoStep.pc = "none"
  BY Zenon, <1>1, <1>2, ActOfStep, Fields
<1>9. NobodyDeletes(w, x)
  BY Zenon, <1>1, <1>2, LockKeepsOut DEF EvidenceInv, Deleting
<1>10. Changes(w, x, r, p, NoStep)
  BY Zenon, <1>2, <1>3, <1>5, <1>6, <1>7, <1>8, <1>9 DEF Changes, RowGoes, EntryGoes, Deleting
<1> QED
  BY Zenon, <1>10, ActChanges

\* Every step of a worker on its item.
LEMMA WorkKeepsEvidence ==
  ASSUME EvidenceInv, NEW w \in Workers, Work(w)
  PROVE  EvidenceInv'
<1>1. CASE Recheck(w)
  <2>1. PICK pc \in {"presence", "delete"} : Goto(w, pc)
    BY Zenon, <1>1 DEF Recheck
  <2>2. /\ task[w].pc = "start" /\ step[w].pc = "recheck"
        /\ UNCHANGED <<row, object, publication, late, damaged, view>>
    BY Zenon, <1>1 DEF Recheck, At, asideVars
  <2> QED
    BY Zenon, <2>1, <2>2, ExpiryGoesOn
<1>2. CASE Presence(w)
  <2>1. PICK pc : Goto(w, pc) /\ (pc = "clear" \/ (pc = "expire" /\ object[Target(w)] = "absent"))
    BY Zenon, <1>2 DEF Presence
  <2>2. /\ task[w].pc = "start" /\ step[w].pc = "presence"
        /\ UNCHANGED <<row, object, publication, late, damaged, view>>
    BY Zenon, <1>2 DEF Presence, At, asideVars
  <2> QED
    BY Zenon, <2>1, <2>2, ExpiryGoesOn
<1> QED
  BY SMTT(20), <1>1, <1>2, StartArchiveSound, BeginSound, PutSound, CommitArchiveSound, StartExpireSound,
     ReadObjectSound, MarkSound, ClearSound, DeleteSound, ExpireSound, StartRestoreSound,
     FetchSound, RestoreSound, OrphanCheckSound, OrphanDeleteSound, OrphanFinishSound DEF Work
-----------------------------------------------------------------------------
(* The steps of the queue. *)

\* Nothing but the queue moves.
LEMMA QueueMoves ==
  ASSUME EvidenceInv, QueueInv', UNCHANGED <<row, object, publication, late, damaged, view>>,
         \A v \in Workers : step'[v].pc # "none" =>
           step'[v] = step[v] /\ Target(v)' = Target(v) /\ (v \in Held' => v \in Held)
  PROVE  EvidenceInv'
<1>1. Disturbed' = Disturbed
  BY Zenon DEF Disturbed
<1>2. TablesInv'
  BY Zenon, <1>1 DEF EvidenceInv, TablesInv, ViewSound
<1>3. OneDeletes'
  <2>1. \A v \in Workers : step'[v].pc \in Deleting => step'[v].pc # "none"
    BY Zenon DEF Deleting
  <2> QED
    BY <2>1 DEF EvidenceInv, OneDeletes
<1>4. ASSUME NEW v \in Workers PROVE WorkerSound(v)'
  <2>1. CASE step'[v].pc = "none"
    BY Zenon, <2>1 DEF WorkerSound
  <2>2. CASE step'[v].pc # "none"
    <3>1. PICK x : x = Target(v)
      BY Zenon
    <3>2. WorkSound(v, step[v], x, row[x], object[x], Ledger(x), Disturbed, Held)
      BY Zenon, <2>2, <3>1 DEF EvidenceInv, WorkerSound
    <3>3. WorkSound(v, step[v], x, row[x], object[x], Ledger(x), Disturbed, Held')
      BY Zenon, <2>2, <3>2, HeldLess
    <3>4. Target(v)' = x /\ step'[v] = step[v] /\ Ledger(x)' = Ledger(x)
      BY Zenon, <2>2, <3>1 DEF Ledger
    <3> QED
      BY Zenon, <1>1, <3>3, <3>4 DEF WorkerSound
  <2> QED
    BY Zenon, <2>1, <2>2
<1> QED
  BY Zenon, <1>2, <1>3, <1>4 DEF EvidenceInv

\* Runs change, and no worker.
LEMMA RunsMove ==
  ASSUME EvidenceInv, RunsStep, UNCHANGED <<task, step, row, object, publication, late, damaged, view>>
  PROVE  EvidenceInv'
<1>1. /\ QueueInv'
      /\ \A v \in Workers :
           /\ v \in Held' => v \in Held
           /\ step[v].pc # "none" => Target(v)' = Target(v)
  BY Zenon, StandKeepsQueue DEF EvidenceInv
<1> QED
  BY Zenon, <1>1, QueueMoves

\* A worker gives back its item or drops it.
LEMMA LeaveSound ==
  ASSUME EvidenceInv, NEW w \in Workers, Leave(w)
  PROVE  EvidenceInv'
<1>1. QueueInv /\ task[w].pc # "idle"
  BY Zenon DEF EvidenceInv, Leave, FinishItem, RetryItem, Abandon
<1>2. PICK r \in Runs : task[w].run = r /\ RunSound(run[r])
  BY Zenon, <1>1 DEF QueueInv, TaskSound
<1>3. \A s : \E items : /\ SameItems(items, run[r].items)
                        /\ Recorded(w, s) = RunRow(run[r].state, run[r].fence, run[r].attempts,
                                                   run[r].lease, items)
  BY <1>2, ItemsKept DEF Recorded, SameItems
<1>4. RunsStep
  <2>1. CASE FinishItem(w)
    <3>1. PICK q : q = advanceRetentionRunTx(Recorded(w, task[w].outcome))
      BY Zenon
    <3>2. RowKeeps(run[r], q)
      BY <1>2, <1>3, <3>1, AdvanceKept
    <3>3. run' = [run EXCEPT ![r] = q]
      BY Zenon, <1>2, <2>1, <3>1 DEF FinishItem
    <3> QED
      BY Zenon, <1>1, <3>2, <3>3, OneRunChanges
  <2>2. CASE RetryItem(w)
    <3>1. PICK q : q = IF task[w].attempts >= retentionAttempts
                       THEN advanceRetentionRunTx(Recorded(w, "failed"))
                       ELSE RunRow("queued", run[r].fence, 0, "none", Recorded(w, "queued").items)
      BY Zenon
    <3>2. RowKeeps(run[r], advanceRetentionRunTx(Recorded(w, "failed")))
      BY <1>2, <1>3, AdvanceKept
    <3>3. RowKeeps(run[r], RunRow("queued", run[r].fence, 0, "none", Recorded(w, "queued").items))
      <4>1. SameItems(Recorded(w, "queued").items, run[r].items)
        BY <1>3 DEF RunRow
      <4> QED
        BY Zenon, <1>2, <4>1, RowsKept
    <3>4. run' = [run EXCEPT ![r] = q]
      BY Zenon, <1>2, <2>2, <3>1 DEF RetryItem
    <3> QED
      BY Zenon, <1>1, <3>1, <3>2, <3>3, <3>4, OneRunChanges
  <2>3. CASE Abandon(w)
    BY Zenon, <1>1, <2>3, RunsStand DEF Abandon
  <2> QED
    BY Zenon, <2>1, <2>2, <2>3 DEF Leave
<1>5. IdleTask.pc = "idle" /\ NoStep.pc = "none"
  BY Zenon, Fields DEF IdleTask, TaskAt
<1>6. OwnMove(w, IdleTask, NoStep) /\ TaskSound(IdleTask, NoStep)'
  BY Zenon, <1>1, <1>5 DEF OwnMove, Leave, FinishItem, RetryItem, Abandon, QueueInv, TaskSound
<1>7. step'[w].pc = "none" /\ UNCHANGED <<row, object, publication, late, damaged, view>>
  BY Zenon, <1>5, <1>6 DEF OwnMove, Leave, asideVars
<1>8. /\ QueueInv'
      /\ \A v \in Workers \ {w} :
           /\ step'[v] = step[v]
           /\ v \in Held' => v \in Held
           /\ step[v].pc # "none" => Target(v)' = Target(v)
  BY Zenon, <1>1, <1>4, <1>6, MoveKeepsQueue
<1> QED
  BY Zenon, <1>7, <1>8, QueueMoves

LEMMA ClaimSound ==
  ASSUME EvidenceInv, NEW w \in Workers, NEW r \in Runs, ClaimRun(w, r)
  PROVE  EvidenceInv'
<1>1. /\ QueueInv /\ RunSound(run[r]) /\ task[w].pc = "idle" /\ Claim(w, r)
      /\ UNCHANGED <<step, row, object, publication, late, damaged, view>>
  BY Zenon DEF EvidenceInv, QueueInv, ClaimRun, Claim
<1>3. ASSUME NEW i \in DOMAIN run[r].items, NEW n,
             run' = [run EXCEPT ![r] = ClaimedRow(run[r], ItemSet(run[r], i, "processing", n))],
             task' = [task EXCEPT ![w] = TaskAt("start", r, run[r].fence + 1, i, n, "none")]
      PROVE  EvidenceInv'
  <2>1. PICK q : q = ClaimedRow(run[r], ItemSet(run[r], i, "processing", n))
    BY Zenon
  <2>2. PICK t : t = TaskAt("start", r, run[r].fence + 1, i, n, "none")
    BY Zenon
  <2>3. PICK s : s = step[w]
    BY Zenon
  <2>4. SameItems(ItemSet(run[r], i, "processing", n), run[r].items)
    BY ItemsKept DEF SameItems
  <2>5. /\ RowKeeps(run[r], q) /\ q.state = "processing" /\ q.fence = run[r].fence + 1
        /\ q.items = ItemSet(run[r], i, "processing", n)
    BY Zenon, <1>1, <2>1, <2>4, RowsKept DEF ClaimedRow, RunRow
  <2>6. RunsStep /\ run'[r] = q
    BY Zenon, <1>1, <1>3, <2>1, <2>5, OneRunChanges DEF QueueInv
  <2>7. i \in DOMAIN q.items /\ run[r].fence \in Nat
    BY Zenon, <1>1, <1>3, <2>4, <2>5 DEF SameItems, RunSound
  <2>8. s.pc = "none"
    BY ZenonT(20), <1>1, <2>3 DEF QueueInv, TaskSound
  <2>9. TaskSound(t, s)'
    BY <2>2, <2>5, <2>6, <2>7, <2>8 DEF TaskSound, TaskAt
  <2>10. OwnMove(w, t, s)
    BY Zenon, <1>1, <1>3, <2>2, <2>3 DEF OwnMove, QueueInv
  <2>11. /\ QueueInv'
         /\ \A v \in Workers \ {w} :
              /\ step'[v] = step[v]
              /\ v \in Held' => v \in Held
              /\ step[v].pc # "none" => Target(v)' = Target(v)
    BY Zenon, <1>1, <2>6, <2>9, <2>10, MoveKeepsQueue
  <2>12. step'[w].pc = "none"
    BY Zenon, <2>8, <2>10 DEF OwnMove
  <2> QED
    BY Zenon, <1>1, <2>11, <2>12, QueueMoves
<1>4. CASE run' = [run EXCEPT ![r] = finalizeRetentionRunTx(ClaimedRow(run[r], run[r].items))] /\ UNCHANGED task
  <2>1. PICK q : q = finalizeRetentionRunTx(ClaimedRow(run[r], run[r].items))
    BY Zenon
  <2>2. RowKeeps(run[r], q)
    BY Zenon, <1>1, <2>1, AdvanceKept DEF ClaimedRow, SameItems
  <2>3. RunsStep
    BY Zenon, <1>1, <1>4, <2>1, <2>2, OneRunChanges
  <2> QED
    BY Zenon, <1>1, <1>4, <2>3, RunsMove
<1> QED
  BY Zenon, <1>1, <1>3, <1>4 DEF Claim

LEMMA ExhaustSound ==
  ASSUME EvidenceInv, NEW w \in Workers, NEW r \in Runs, ExhaustRun(w, r)
  PROVE  EvidenceInv'
<1>1. /\ QueueInv /\ RunSound(run[r]) /\ Exhaust(w, r)
      /\ UNCHANGED <<task, step, row, object, publication, late, damaged, view>>
  BY Zenon DEF EvidenceInv, QueueInv, ExhaustRun, Exhaust, evidenceVars
<1>2. ASSUME NEW q, RowKeeps(run[r], q), run' = [run EXCEPT ![r] = q]
      PROVE  EvidenceInv'
  <2>1. RunsStep
    BY Zenon, <1>1, <1>2, OneRunChanges
  <2> QED
    BY Zenon, <1>1, <2>1, RunsMove
<1>3. ASSUME NEW i \in DOMAIN run[r].items
      PROVE  RowKeeps(run[r], ExhaustedRow(run[r], i))
  <2>1. PICK items : /\ SameItems(items, run[r].items)
                     /\ ExhaustedRow(run[r], i) = advanceRetentionRunTx(
                          RunRow(run[r].state, run[r].fence + 1, run[r].attempts, run[r].lease, items))
    BY ItemsKept DEF ExhaustedRow, SameItems
  <2> QED
    BY Zenon, <1>1, <2>1, AdvanceKept
<1>4. RowKeeps(run[r], RunRow("failed", run[r].fence, run[r].attempts, "none", run[r].items))
  BY Zenon, <1>1, RowsKept DEF SameItems
<1> QED
  BY Zenon, <1>1, <1>2, <1>3, <1>4 DEF Exhaust

LEMMA LeaseEndsSound ==
  ASSUME EvidenceInv, NEW r \in Runs, LeaseEnds(r), UNCHANGED evidenceVars
  PROVE  EvidenceInv'
<1>1. /\ QueueInv /\ RunSound(run[r]) /\ run[r].state = "processing"
      /\ UNCHANGED <<task, step, row, object, publication, late, damaged, view>>
  BY Zenon DEF EvidenceInv, QueueInv, LeaseEnds, evidenceVars
<1>2. PICK q : q = RunRow(run[r].state, run[r].fence, run[r].attempts, "expired", run[r].items)
  BY Zenon
<1>3. RowKeeps(run[r], q) /\ run' = [run EXCEPT ![r] = q]
  BY Zenon, <1>1, <1>2, RowsKept DEF LeaseEnds
<1>4. RunsStep
  BY Zenon, <1>1, <1>3, OneRunChanges
<1> QED
  BY Zenon, <1>1, <1>4, RunsMove

\* A run starts with a manifest that fits the evidence.
LEMMA EnqueueSound ==
  ASSUME EvidenceInv, NEW r \in Runs, NEW m, Enqueue(r, m),
         UNCHANGED <<step, row, object, publication, late, damaged, view>>,
         m \in Seq(Selections) \/ \E x \in Observations : m = Restoration(x)
  PROVE  EvidenceInv'
<1>1. PICK items : items = [i \in DOMAIN m |-> Item(m[i][1], m[i][2], "queued", 0)]
  BY Zenon
<1>2. PICK q : q = RunRow("queued", 0, 0, "none", items)
  BY Zenon
<1>3. /\ QueueInv /\ run[r].state = "none" /\ run' = [run EXCEPT ![r] = q] /\ UNCHANGED task
  BY Zenon, <1>1, <1>2 DEF EvidenceInv, Enqueue
<1>4. q.fence = 0 /\ q.items = items
  BY Zenon, <1>2 DEF RunRow
<1>5. \E n \in Nat : DOMAIN m = 1..n
  <2>1. CASE m \in Seq(Selections)
    BY <2>1
  <2>2. CASE \E x \in Observations : m = Restoration(x)
    BY <2>2 DEF Restoration
  <2> QED
    BY Zenon, <2>1, <2>2
<1>6. ASSUME NEW i \in DOMAIN m PROVE Fits(Item(m[i][1], m[i][2], "queued", 0))
  <2>1. CASE m \in Seq(Selections)
    <3>1. m[i] \in Selections
      BY <2>1
    <3> QED
      BY Zenon, <3>1 DEF Selections, Fits, Item
  <2>2. CASE \E x \in Observations : m = Restoration(x)
    BY <2>2 DEF Restoration, Fits, Item
  <2> QED
    BY Zenon, <2>1, <2>2
<1>7. RunSound(q)
  BY <1>1, <1>4, <1>5, <1>6 DEF RunSound
<1>8. RunsStep
  BY Zenon, <1>3, <1>7, OneRunChanges
<1> QED
  BY Zenon, <1>3, <1>8, RunsMove

-----------------------------------------------------------------------------
(* Readers, protections and the clock. *)

\* A reader changes the row of x, or nothing.
LEMMA ReaderSound ==
  ASSUME EvidenceInv, NEW x \in Resources, NEW r,
         (row' = row /\ r = row[x]) \/ row' = [row EXCEPT ![x] = r],
         UNCHANGED <<runVars, step, object, publication, late, damaged>>, view' = NoView,
         RowGoes(row[x], r), r.archive = row[x].archive, EvidenceSound(x, r, object[x], Disturbed)
  PROVE  EvidenceInv'
<1>1. PICK o, p : o = object[x] /\ p = Ledger(x)
  BY Zenon
<1>2. QueueInv /\ RunsStep /\ Disturbed' = Disturbed /\ UNCHANGED <<task, step>>
  BY Zenon, RunsStand DEF EvidenceInv, runVars, Disturbed
<1>3. /\ QueueInv'
      /\ \A v \in Workers :
           /\ v \in Held' => v \in Held
           /\ step[v].pc # "none" => Target(v)' = Target(v)
  BY Zenon, <1>2, StandKeepsQueue
<1>4. TablesGo(x, r, o, p)
  BY Zenon, <1>1, TablesChange DEF EvidenceInv
<1>5. x \in Observations => LedgerSound(x, r, o, p, Disturbed)
  BY Zenon, <1>1 DEF EvidenceInv, TablesInv, Ledger, LedgerSound
<1>6. TablesInv'
  BY Zenon, <1>1, <1>2, <1>4, <1>5, TablesSound DEF EvidenceInv
<1>7. OneDeletes'
  BY Zenon, <1>2, <1>3 DEF EvidenceInv, OneDeletes, Deleting
<1>8. ASSUME NEW v \in Workers PROVE WorkerSound(v)'
  <2>1. CASE step[v].pc = "none"
    BY Zenon, <1>2, <2>1 DEF WorkerSound
  <2>2. CASE step[v].pc # "none"
    <3>1. WorkerSound(v) /\ row[x].revision \in Nat
      BY Zenon DEF EvidenceInv, TablesInv, EvidenceSound
    <3>2. Target(v) \in Resources
      BY Zenon, <1>2, <2>2, TargetIsEvidence DEF QueueInv, TaskSound
    <3>3. Target(v) = x => WorkSound(v, step[v], x, row[x], o, p, Disturbed, Held)
      BY Zenon, <1>1, <2>2, <3>1 DEF WorkerSound
    <3>4. Target(v) = x => WorkSound(v, step[v], x, r, o, p, Disturbed, Held)
      BY Zenon, <3>1, <3>3, RowMoves
    <3> QED
      BY Zenon, <1>2, <1>3, <1>4, <3>1, <3>2, <3>4, OtherSound
  <2> QED
    BY Zenon, <2>1, <2>2
<1> QED
  BY Zenon, <1>3, <1>6, <1>7, <1>8 DEF EvidenceInv

LEMMA ViewObjectSound ==
  ASSUME EvidenceInv, NEW x \in Resources, ViewObject(x)
  PROVE  EvidenceInv'
<1>1. /\ view.resource = x /\ view' = NoView
      /\ UNCHANGED <<runVars, step, object, publication, late, damaged>>
  BY Zenon DEF ViewObject
<1>2. EvidenceSound(x, row[x], object[x], Disturbed) /\ ViewSound(x, row[x])
  BY Zenon DEF EvidenceInv, TablesInv
<1>3. CASE UNCHANGED row
  <2>1. PICK r : r = row[x]
    BY Zenon
  <2> QED
    BY Zenon, <1>1, <1>2, <1>3, <2>1, ReaderSound DEF RowGoes
<1>4. ASSUME NEW a, row' = Labelled(x, a), row[x].revision = view.revision,
             \/ object[x] # "intact" /\ a = Missing(x)
             \/ object[x] = "intact" /\ a = Stored(x) /\ row[x].availability \in {"missing", "corrupt"}
      PROVE  EvidenceInv'
  <2>1. PICK r : r = EvidenceRow(a, row[x].revision + 1, row[x].transition, row[x].archive)
    BY Zenon
  <2>2. /\ row' = [row EXCEPT ![x] = r] /\ r.availability = a /\ r.revision = row[x].revision + 1
        /\ r.transition = row[x].transition /\ r.archive = row[x].archive
    BY <1>4, <2>1, Fields DEF Labelled
  <2>3. /\ row[x].transition = "none" /\ row[x].availability # "expired"
        /\ x \in Observations => row[x].availability # "available"
    BY Zenon, <1>1, <1>2, <1>4 DEF ViewSound
  <2>4. x \in Observations \/ x \in Imports
    BY Zenon DEF Resources
  <2>5. EvidenceSound(x, r, object[x], Disturbed)
    <3>1. CASE object[x] # "intact" /\ a = Missing(x)
      <4>1. a \in {"missing", "corrupt"}
        BY Zenon, <3>1 DEF Missing
      <4>2. x \in Disturbed
        BY Zenon, <1>2, <2>3, <2>4, <3>1, RetentionConstants DEF EvidenceSound, Stored
      <4> QED
        BY <1>2, <2>2, <2>3, <4>1, <4>2 DEF EvidenceSound
    <3>2. CASE object[x] = "intact" /\ a = Stored(x) /\ row[x].availability \in {"missing", "corrupt"}
      BY <1>2, <2>2, <2>3, <2>4, <3>2, RetentionConstants DEF EvidenceSound, Stored
    <3> QED
      BY Zenon, <1>4, <3>1, <3>2
  <2> QED
    BY Zenon, <1>1, <2>2, <2>5, ReaderSound DEF RowGoes
<1> QED
  BY Zenon, <1>3, <1>4 DEF ViewObject
\* Nothing but what readers and protections have in hand moves.
LEMMA AsideSound ==
  ASSUME EvidenceInv, UNCHANGED <<runVars, step, row, object, publication, late, damaged>>,
         \A x \in Resources : ViewSound(x, row[x])'
  PROVE  EvidenceInv'
<1>1. /\ Disturbed' = Disturbed /\ Held' = Held
      /\ \A v : Target(v)' = Target(v)
      /\ \A x : Ledger(x)' = Ledger(x)
  BY Zenon DEF runVars, Disturbed, Held, lockRetentionRun, Target, ItemOf, Ledger
<1>2. QueueInv' /\ OneDeletes'
  BY Zenon, <1>1 DEF EvidenceInv, QueueInv, TaskSound, OneDeletes, runVars
<1>3. TablesInv'
  BY Zenon, <1>1 DEF EvidenceInv, TablesInv
<1>4. ASSUME NEW v \in Workers PROVE WorkerSound(v)'
  BY Zenon, <1>1 DEF EvidenceInv, WorkerSound
<1> QED
  BY Zenon, <1>2, <1>3, <1>4 DEF EvidenceInv

LEMMA ViewingSound ==
  ASSUME EvidenceInv, NEW x \in Resources, View(x) \/ Protect(x) \/ Unprotect(x)
  PROVE  EvidenceInv'
<1>1. UNCHANGED <<runVars, step, row, object, publication, late, damaged>>
  BY Zenon DEF View, Protect, Unprotect
<1>2. ASSUME NEW y \in Resources PROVE ViewSound(y, row[y])'
  <2>1. ViewSound(y, row[y]) /\ row[y].revision \in Nat /\ row' = row
    BY Zenon, <1>1 DEF EvidenceInv, TablesInv, EvidenceSound
  <2>2. CASE View(x)
    <3>1. /\ view'.resource = x /\ view'.revision = row[x].revision
          /\ row[x].availability # "expired" /\ row[x].transition = "none"
          /\ x \in Observations => row[x].availability # "available"
      BY Zenon, <2>2 DEF View
    <3> QED
      BY <2>1, <3>1 DEF ViewSound
  <2>3. CASE view' = view
    BY Zenon, <2>1, <2>3 DEF ViewSound
  <2> QED
    BY Zenon, <2>2, <2>3 DEF Protect, Unprotect
<1> QED
  BY Zenon, <1>1, <1>2, AsideSound

LEMMA AgeSound ==
  ASSUME EvidenceInv, NEW x \in Observations, Age(x)
  PROVE  EvidenceInv'
<1>1. PICK p : p = Entry(publication[x].state, publication[x].revision, "old")
  BY Zenon
<1>2. /\ p.state = publication[x].state /\ p.revision = publication[x].revision /\ p.age = "old"
      /\ publication' = [publication EXCEPT ![x] = p]
      /\ UNCHANGED <<runVars, step, row, object, late, damaged, view>>
  BY <1>1, Fields DEF Age
<1>3. PICK r, o : r = row[x] /\ o = object[x]
  BY Zenon
<1>4. QueueInv /\ RunsStep /\ Disturbed' = Disturbed /\ UNCHANGED <<task, step>> /\ x \in Resources
  BY Zenon, <1>2, RunsStand DEF EvidenceInv, runVars, Disturbed, Resources
<1>5. /\ QueueInv'
      /\ \A v \in Workers :
           /\ v \in Held' => v \in Held
           /\ step[v].pc # "none" => Target(v)' = Target(v)
  BY Zenon, <1>4, StandKeepsQueue
<1>6. TablesGo(x, r, o, p)
  BY Zenon, <1>2, <1>3, <1>4, TablesChange DEF EvidenceInv
<1>7. EvidenceSound(x, r, o, Disturbed) /\ LedgerSound(x, r, o, p, Disturbed)
  BY Zenon, <1>2, <1>3, <1>4 DEF EvidenceInv, TablesInv, LedgerSound
<1>8. TablesInv'
  BY Zenon, <1>3, <1>4, <1>6, <1>7, TablesSound DEF EvidenceInv, RowGoes
<1>9. OneDeletes'
  BY Zenon, <1>4, <1>5 DEF EvidenceInv, OneDeletes, Deleting
<1>10. ASSUME NEW v \in Workers PROVE WorkerSound(v)'
  <2>1. CASE step[v].pc = "none"
    BY Zenon, <1>4, <2>1 DEF WorkerSound
  <2>2. CASE step[v].pc # "none"
    <3>1. WorkerSound(v)
      BY Zenon DEF EvidenceInv
    <3>2. task[v].pc = "start"
      BY Zenon, <1>4, <2>2 DEF QueueInv, TaskSound
    <3>3. Target(v) \in Resources
      BY Zenon, <1>4, <3>2, TargetIsEvidence
    <3>4. ASSUME Target(v) = x PROVE WorkSound(v, step[v], x, r, o, p, Disturbed, Held)
      <4>1. WorkSound(v, step[v], x, r, o, publication[x], Disturbed, Held)
        BY Zenon, <1>3, <2>2, <3>1, <3>4 DEF WorkerSound, Ledger
      <4>2. step[v].pc # "put" /\ ~(step[v].pc = "commit" /\ v \in Held)
        BY Zenon, <3>2, <3>4 DEF Age, At, Held
      <4> QED
        BY Zenon, <1>2, <4>1, <4>2 DEF WorkSound
    <3> QED
      BY Zenon, <1>4, <1>5, <1>6, <3>1, <3>3, <3>4, OtherSound
  <2> QED
    BY Zenon, <2>1, <2>2
<1> QED
  BY Zenon, <1>5, <1>8, <1>9, <1>10 DEF EvidenceInv

-----------------------------------------------------------------------------
\* Nothing is claimed yet, and evidence is what its history left.
LEMMA InitEvidence ==
  Init => EvidenceInv
<1> SUFFICES ASSUME Init PROVE EvidenceInv
  BY Zenon
<1>1. PICK h \in Histories :
        /\ row = [x \in Resources |-> FirstRow(x, h[x])]
        /\ object = [x \in Resources |-> FirstObject(x, h[x])]
        /\ publication = [x \in Observations |-> FirstPublication(h[x])]
        /\ damaged = {x \in Resources : h[x] \in {"lost", "damaged"}}
  BY Zenon DEF Init
<1>2. \A w \in Workers : step[w].pc = "none" /\ task[w].pc = "idle"
  BY Zenon DEF Init, RunsInit, IdleTask, TaskAt, NoStep, StepAt
<1>3. QueueInv
  BY <1>2 DEF QueueInv, Init, RunsInit, RunSound, RunRow, TaskSound
<1>4. OneDeletes /\ \A w \in Workers : WorkerSound(w)
  BY Zenon, <1>2 DEF OneDeletes, WorkerSound, Deleting
<1>5. ASSUME NEW x \in Resources
      PROVE  EvidenceSound(x, row[x], object[x], Disturbed) /\ ViewSound(x, row[x])
  <2>1. h[x] \in {"fresh", "archived", "expired", "lost", "damaged"}
    BY Zenon, RetentionConstants
  <2>2. row[x] = FirstRow(x, h[x]) /\ object[x] = FirstObject(x, h[x])
    BY Zenon, <1>1
  <2>3. x \in Disturbed <=> h[x] \in {"lost", "damaged"}
    BY Zenon, <1>1 DEF Disturbed, Init
  <2>4. x \in Observations <=> x \notin Imports
    BY Zenon, RetentionConstants DEF Resources
  <2>5. /\ row[x].availability = IF h[x] = "fresh" THEN "available"
                                 ELSE IF h[x] = "expired" THEN "expired" ELSE Stored(x)
        /\ row[x].revision = 1 /\ row[x].transition = "none"
        /\ row[x].archive = IF x \in Observations /\ h[x] # "fresh" THEN "referenced" ELSE "none"
    BY <2>2, Fields DEF FirstRow
  <2>6. EvidenceSound(x, row[x], object[x], Disturbed)
    BY <2>1, <2>2, <2>3, <2>4, <2>5 DEF EvidenceSound, FirstObject, Stored
  <2>7. ViewSound(x, row[x])
    BY <2>5 DEF ViewSound, Init, NoView
  <2> QED
    BY Zenon, <2>6, <2>7
<1>6. ASSUME NEW x \in Observations
      PROVE  LedgerSound(x, row[x], object[x], publication[x], Disturbed)
  <2>1. x \in Resources /\ x \notin Imports
    BY Zenon, RetentionConstants DEF Resources
  <2>2. row[x] = FirstRow(x, h[x]) /\ object[x] = FirstObject(x, h[x])
        /\ publication[x] = FirstPublication(h[x])
    BY Zenon, <1>1, <2>1
  <2>3. publication[x].revision = 0 /\ publication[x].age = "fresh"
    BY <2>2, Fields DEF FirstPublication
  <2>4. h[x] # "fresh" => row[x].archive = "referenced"
    BY <2>2, Fields DEF FirstRow
  <2>5. h[x] = "fresh" => object[x] = "absent"
    BY Zenon, <2>1, <2>2 DEF FirstObject
  <2> QED
    BY <2>3, <2>4, <2>5 DEF LedgerSound
<1> QED
  BY Zenon, <1>1, <1>3, <1>4, <1>5, <1>6 DEF EvidenceInv, TablesInv

LEMMA NextEvidence ==
  EvidenceInv /\ [Next]_vars => EvidenceInv'
<1> SUFFICES ASSUME EvidenceInv, [Next]_vars PROVE EvidenceInv'
  BY Zenon
<1>1. ASSUME NEW r \in Runs, NEW m \in Previews, QueueExecution(r, m) PROVE EvidenceInv'
  <2>1. /\ Enqueue(r, m) /\ m \in Seq(Selections)
        /\ UNCHANGED <<step, row, object, publication, late, damaged, view>>
    BY Zenon, <1>1, RetentionConstants DEF QueueExecution
  <2> QED
    BY Zenon, <2>1, EnqueueSound
<1>2. ASSUME NEW r \in Runs, NEW x \in Observations, QueueRestore(r, x) PROVE EvidenceInv'
  <2>1. PICK m : m = Restoration(x)
    BY Zenon
  <2>2. Enqueue(r, m) /\ UNCHANGED <<step, row, object, publication, late, damaged, view>>
    BY Zenon, <1>2, <2>1 DEF QueueRestore, evidenceVars
  <2> QED
    BY Zenon, <2>1, <2>2, EnqueueSound
<1>3. CASE UNCHANGED vars
  <2>1. UNCHANGED <<runVars, step, row, object, publication, late, damaged, view>>
    BY Zenon, <1>3 DEF vars, evidenceVars
  <2>2. \A x \in Resources : ViewSound(x, row[x])'
    BY Zenon, <2>1 DEF EvidenceInv, TablesInv, ViewSound
  <2> QED
    BY Zenon, <2>1, <2>2, AsideSound
<1>4. ASSUME NEW w \in Workers, Work(w) \/ Leave(w) \/ \E r \in Runs : ClaimRun(w, r) \/ ExhaustRun(w, r)
      PROVE  EvidenceInv'
  BY Zenon, <1>4, WorkKeepsEvidence, LeaveSound, ClaimSound, ExhaustSound
<1>5. ASSUME NEW r \in Runs, LeaseEnds(r) /\ UNCHANGED evidenceVars PROVE EvidenceInv'
  BY Zenon, <1>5, LeaseEndsSound
<1>6. ASSUME NEW x \in Resources, View(x) \/ ViewObject(x) \/ Protect(x) \/ Unprotect(x)
      PROVE  EvidenceInv'
  BY Zenon, <1>6, ViewingSound, ViewObjectSound
<1>7. ASSUME NEW x \in Observations, Age(x) PROVE EvidenceInv'
  BY Zenon, <1>7, AgeSound
<1> QED
  BY Zenon, <1>1, <1>2, <1>3, <1>4, <1>5, <1>6, <1>7 DEF Next

\* Whatever workers, readers and the clock do in between, the invariant holds.
THEOREM EvidenceSafe == Spec => []EvidenceInv
  BY InitEvidence, NextEvidence, PTL DEF Spec

\* Evidence that its row says is stored is in the object store and reads back, for
\* any number of workers, runs and resources: no archiving, expiry, restoration,
\* orphan cleanup or reading under way at the same time takes it away, unless the
\* store lost it or a call landed after its claim was lost.
THEOREM StoredReads == Spec => []StoredIsReadable
<1>1. EvidenceInv => StoredIsReadable
  BY Zenon DEF EvidenceInv, TablesInv, EvidenceSound, StoredIsReadable, Undisturbed, Disturbed
<1> QED
  BY <1>1, EvidenceSafe, PTL

\* A row is marked missing or corrupt by a reader or a worker only where the store
\* lost the object or a late call took it, never because of an expiry half way.
THEOREM MissingByAccident == Spec => []MissingIsAccident
<1>1. EvidenceInv => MissingIsAccident
  BY Zenon DEF EvidenceInv, TablesInv, EvidenceSound, MissingIsAccident, Undisturbed, Disturbed
<1> QED
  BY <1>1, EvidenceSafe, PTL

\* Behind an expired row no object is left.
THEOREM ExpiredGone == Spec => []ExpiredIsGone
<1>1. EvidenceInv => ExpiredIsGone
  BY Zenon DEF EvidenceInv, TablesInv, EvidenceSound, ExpiredIsGone, Undisturbed, Disturbed
<1> QED
  BY <1>1, EvidenceSafe, PTL

\* An archive object that no row refers to is in the publication ledger as a
\* candidate for deletion.
THEOREM OrphansKnown == Spec => []LedgerKnowsOrphans
<1>1. EvidenceInv => LedgerKnowsOrphans
  BY Zenon DEF EvidenceInv, TablesInv, LedgerSound, LedgerKnowsOrphans, Undisturbed, Disturbed
<1> QED
  BY <1>1, EvidenceSafe, PTL

-----------------------------------------------------------------------------
\* A step of the queue by one worker, or none.
QueueStep(w) == WorkerStep(w) \/ UNCHANGED runVars

\* The two ways in which a step on evidence ends.
LEMMA StepsOfAnItem ==
  ASSUME NEW w \in Workers
  PROVE  /\ \A s \in {"succeeded", "protected", "missing", "corrupt"} :
              Conclude(w, s) => QueueStep(w)
         /\ \A pc, n, e : Continue(w, pc, n, e) => QueueStep(w)
         /\ \A pc : Goto(w, pc) => QueueStep(w)
         /\ \A x : Conclude(w, Missing(x)) => QueueStep(w)
<1>1. \A s \in {"succeeded", "protected", "missing", "corrupt"} :
        Conclude(w, s) => QueueStep(w)
  BY Zenon DEF Conclude, QueueStep, WorkerStep, EndedItem, FaultyItem
<1>2. \A pc, n, e : Continue(w, pc, n, e) => QueueStep(w)
  BY Zenon DEF Continue, QueueStep
<1>3. \A pc : Goto(w, pc) => QueueStep(w)
  BY Zenon, <1>2 DEF Goto
<1>4. \A x : Conclude(w, Missing(x)) => QueueStep(w)
  BY Zenon, <1>1 DEF Missing
<1> QED
  BY Zenon, <1>1, <1>2, <1>3, <1>4

\* What a worker does to evidence is, for the queue, an outcome or nothing.
LEMMA WorkIsQueued ==
  ASSUME NEW w \in Workers, Work(w)
  PROVE  QueueStep(w)
<1>1. CASE StartArchive(w)
  BY Zenon, <1>1, StepsOfAnItem DEF StartArchive
<1>2. CASE Begin(w)
  BY Zenon, <1>2, StepsOfAnItem DEF Begin
<1>3. CASE Put(w)
  BY Zenon, <1>3, StepsOfAnItem DEF Put
<1>4. CASE CommitArchive(w)
  BY Zenon, <1>4, StepsOfAnItem DEF CommitArchive
<1>5. CASE StartExpire(w)
  BY Zenon, <1>5, StepsOfAnItem DEF StartExpire
<1>6. CASE ReadObject(w)
  BY Zenon, <1>6, StepsOfAnItem DEF ReadObject
<1>7. CASE Mark(w)
  BY Zenon, <1>7, StepsOfAnItem DEF Mark
<1>8. CASE Recheck(w)
  BY Zenon, <1>8, StepsOfAnItem DEF Recheck
<1>9. CASE Presence(w)
  BY Zenon, <1>9, StepsOfAnItem DEF Presence
<1>10. CASE ClearTransition(w)
  BY Zenon, <1>10, StepsOfAnItem DEF ClearTransition
<1>11. CASE DeleteObject(w)
  BY Zenon, <1>11, StepsOfAnItem DEF DeleteObject
<1>12. CASE Expire(w)
  BY Zenon, <1>12, StepsOfAnItem DEF Expire
<1>13. CASE StartRestore(w)
  BY Zenon, <1>13, StepsOfAnItem DEF StartRestore
<1>14. CASE Fetch(w)
  BY Zenon, <1>14, StepsOfAnItem DEF Fetch
<1>15. CASE Restore(w)
  BY Zenon, <1>15, StepsOfAnItem DEF Restore
<1>16. CASE OrphanCheck(w)
  BY Zenon, <1>16, StepsOfAnItem DEF OrphanCheck
<1>17. CASE OrphanDelete(w)
  BY Zenon, <1>17, StepsOfAnItem DEF OrphanDelete
<1>18. CASE OrphanFinish(w)
  BY Zenon, <1>18, StepsOfAnItem DEF OrphanFinish
<1> QED
  BY SMTT(20), <1>1, <1>2, <1>3, <1>4, <1>5, <1>6, <1>7, <1>8, <1>9, <1>10, <1>11, <1>12, <1>13,
     <1>14, <1>15, <1>16, <1>17, <1>18 DEF Work

\* Every step of Retention is a step of the queue or leaves the queue alone.
LEMMA StepIsQueued ==
  ASSUME [Next]_vars
  PROVE  [RunsNext]_runVars
<1>1. ASSUME NEW w \in Workers, Work(w)
      PROVE  [RunsNext]_runVars
  BY Zenon, <1>1, WorkIsQueued DEF QueueStep, RunsNext
<1>2. ASSUME NEW w \in Workers, Leave(w)
      PROVE  [RunsNext]_runVars
  BY Zenon, <1>2 DEF Leave, RunsNext, WorkerStep
<1>3. ASSUME NEW w \in Workers, NEW r \in Runs, ClaimRun(w, r) \/ ExhaustRun(w, r)
      PROVE  [RunsNext]_runVars
  BY Zenon, <1>3 DEF ClaimRun, ExhaustRun, RunsNext, WorkerStep
<1>4. ASSUME NEW r \in Runs, NEW m \in Previews, QueueExecution(r, m)
      PROVE  [RunsNext]_runVars
  BY Zenon, <1>4, RetentionConstants DEF QueueExecution, RunsNext
<1>5. ASSUME NEW r \in Runs, NEW x \in Observations, QueueRestore(r, x)
      PROVE  [RunsNext]_runVars
  BY Zenon, <1>5, RetentionConstants DEF QueueRestore, RunsNext
<1>6. ASSUME NEW r \in Runs, LeaseEnds(r)
      PROVE  [RunsNext]_runVars
  BY Zenon, <1>6 DEF RunsNext
<1>7. ASSUME NEW x \in Resources, View(x) \/ ViewObject(x) \/ Protect(x) \/ Unprotect(x)
      PROVE  [RunsNext]_runVars
  BY Zenon, <1>7 DEF View, ViewObject, Protect, Unprotect
<1>8. ASSUME NEW x \in Observations, Age(x)
      PROVE  [RunsNext]_runVars
  BY Zenon, <1>8 DEF Age
<1>9. CASE UNCHANGED vars
  BY Zenon, <1>9 DEF vars
<1> QED
  BY Zenon, <1>1, <1>2, <1>3, <1>4, <1>5, <1>6, <1>7, <1>8, <1>9 DEF Next

\* Whatever archiving, expiry, restoration and orphan cleanup do between a claim
\* and its outcome, Retention implements the queue of RetentionRuns: what holds
\* of the queue (outcomes are final, claims are bounded) holds of the worker.
THEOREM RetentionImplementsQueue == Spec => RunsAsQueued
<1>1. Init => RunsInit
  BY Zenon DEF Init
<1>2. [Next]_vars => [RunsNext]_runVars
  BY Zenon, StepIsQueued
<1> QED
  BY <1>1, <1>2, PTL DEF Spec, RunsAsQueued, RunsSpec
=============================================================================
