---------------------------- MODULE RetentionRuns ----------------------------
(***************************************************************************)
(* The durable queue of retention work: a run is a manifest of items, taken   *)
(* from an approved preview or made for one restoration.  A retention worker   *)
(* claims a run under a lease and a fence, works on its first open item, and   *)
(* gives the run back after every item.                                     *)
(*                                                                         *)
(* worker_id is left out: every claim raises the fence, so that the fence     *)
(* names the claim and the worker that made it.  available_at only delays a   *)
(* claim; lease_until is on one side or the other of the database clock.      *)
(***************************************************************************)
EXTENDS Naturals, Sequences, FiniteSets

CONSTANTS
  Runs,
  Workers,
  Manifests,           \* what runs are made of: sequences of <<action, resource>>
  retentionAttempts,
  NoRun

ASSUME RunConstants ==
  /\ retentionAttempts \in Nat \ {0}
  /\ NoRun \notin Runs

VARIABLES
  run,     \* the retention_runs table, each run with its retention_run_items
  task     \* what each worker has in memory about the item it works on

runVars == <<run, task>>

-----------------------------------------------------------------------------
OpenItem == {"queued", "processing"}
FaultyItem == {"missing", "corrupt", "failed"}
EndedItem == FaultyItem \cup {"succeeded", "protected"}

Item(action, resource, s, a) ==
  [action |-> action, resource |-> resource, state |-> s, attempts |-> a]

RunRow(s, n, a, l, items) ==
  [state |-> s, fence |-> n, attempts |-> a, lease |-> l, items |-> items]

TaskAt(pc, r, n, i, a, s) ==
  [pc |-> pc, run |-> r, fence |-> n, item |-> i, attempts |-> a, outcome |-> s]

IdleTask == TaskAt("idle", NoRun, 0, 0, 0, "none")

RunsInit ==
  /\ run = [r \in Runs |-> RunRow("none", 0, 0, "none", <<>>)]
  /\ task = [w \in Workers |-> IdleTask]

-----------------------------------------------------------------------------
\* The helpers of the worker's transactions, on one row.
HasOpen(r) == \E i \in DOMAIN r.items : r.items[i].state \in OpenItem

IsFirstOpen(r, i) ==
  /\ r.items[i].state \in OpenItem
  /\ \A j \in 1..(i - 1) : r.items[j].state \notin OpenItem

\* The items with the state and the attempts of item i replaced.
ItemSet(r, i, s, a) ==
  [r.items EXCEPT ![i] = Item(r.items[i].action, r.items[i].resource, s, a)]

finalizeRetentionRunTx(r) ==
  RunRow(IF \E i \in DOMAIN r.items : r.items[i].state \in FaultyItem
         THEN "partial" ELSE "succeeded",
         r.fence, r.attempts, "none", r.items)

advanceRetentionRunTx(r) ==
  IF HasOpen(r) THEN RunRow("queued", r.fence, 0, "none", r.items)
  ELSE finalizeRetentionRunTx(r)

\* Mutant: a run whose worker died is not taken over.
AbandonedForever(r) == FALSE

Abandoned(r) == r.state = "processing" /\ r.lease = "expired"

Exhausted(r) ==
  /\ r.attempts >= retentionAttempts
  /\ r.state = "queued" \/ Abandoned(r)

Claimable(r) ==
  /\ r.attempts < retentionAttempts
  /\ r.state = "queued" \/ Abandoned(r)

-----------------------------------------------------------------------------
\* queueRetentionExecution and queueObservationRestore store the run and its
\* manifest in one transaction.  A replay of the idempotency key returns the
\* stored run.
Enqueue(r, m) ==
  /\ run[r].state = "none"
  /\ run' = [run EXCEPT ![r] =
       RunRow("queued", 0, 0, "none", [i \in DOMAIN m |-> Item(m[i][1], m[i][2], "queued", 0)])]
  /\ UNCHANGED task

\* claimRetentionItem, on a run whose claims were abandoned too often: its open
\* item fails and the run goes on with the next one.
ExhaustedRow(r, i) ==
  LET tried == IF r.items[i].attempts < retentionAttempts
               THEN retentionAttempts ELSE r.items[i].attempts
  IN advanceRetentionRunTx(
       RunRow(r.state, r.fence + 1, r.attempts, r.lease, ItemSet(r, i, "failed", tried)))

Exhaust(w, r) ==
  /\ task[w].pc = "idle"
  /\ Exhausted(run[r])
  /\ \/ \E i \in DOMAIN run[r].items :
          /\ IsFirstOpen(run[r], i)
          /\ run' = [run EXCEPT ![r] = ExhaustedRow(@, i)]
     \/ /\ ~HasOpen(run[r])
        /\ run' = [run EXCEPT ![r] = RunRow("failed", @.fence, @.attempts, "none", @.items)]
  /\ UNCHANGED task

\* claimRetentionItem: the run and its first open item, in one transaction.
ClaimedRow(r, items) == RunRow("processing", r.fence + 1, r.attempts + 1, "live", items)

Claim(w, r) ==
  LET c == run[r] IN
  /\ task[w].pc = "idle"
  /\ \A x \in Runs : ~Exhausted(run[x])
  /\ Claimable(c)
  /\ \/ \E i \in DOMAIN c.items :
          LET n == c.items[i].attempts + 1 IN
          /\ IsFirstOpen(c, i)
          /\ run' = [run EXCEPT ![r] = ClaimedRow(c, ItemSet(c, i, "processing", n))]
          /\ task' = [task EXCEPT ![w] = TaskAt("start", r, c.fence + 1, i, n, "none")]
     \/ /\ ~HasOpen(c)
        /\ run' = [run EXCEPT ![r] = finalizeRetentionRunTx(ClaimedRow(c, c.items))]
        /\ UNCHANGED task

\* lockRetentionRun and renewRetentionLease: the claim is still in force.
lockRetentionRun(w) ==
  LET r == run[task[w].run]
  IN r.state = "processing" /\ r.fence = task[w].fence /\ r.lease = "live"

\* The item of the worker's claim.
ItemOf(w) == run[task[w].run].items[task[w].item]

\* The row of the worker's run with the state of its item recorded.
Recorded(w, s) ==
  LET r == run[task[w].run] IN
  RunRow(r.state, r.fence, r.attempts, r.lease,
         ItemSet(r, task[w].item, s, ItemOf(w).attempts))

\* finishRetentionItem
FinishItem(w) ==
  /\ task[w].pc = "finish"
  /\ lockRetentionRun(w)
  /\ ItemOf(w).state = "processing"
  /\ run' = [run EXCEPT ![task[w].run] = advanceRetentionRunTx(Recorded(w, task[w].outcome))]
  /\ task' = [task EXCEPT ![w] = IdleTask]

\* retryRetentionItem, after an error of storage or database.
RetryItem(w) ==
  /\ task[w].pc = "start"
  /\ lockRetentionRun(w)
  /\ ItemOf(w).state = "processing"
  /\ run' = [run EXCEPT ![task[w].run] =
       IF task[w].attempts >= retentionAttempts
       THEN advanceRetentionRunTx(Recorded(w, "failed"))
       ELSE RunRow("queued", @.fence, 0, "none", Recorded(w, "queued").items)]
  /\ task' = [task EXCEPT ![w] = IdleTask]

\* The worker gives up with nothing recorded: it crashed or was stopped, an
\* update found another revision (errRetentionLeaseLost), or its lease is gone.
Abandon(w) ==
  /\ task[w].pc # "idle"
  /\ task' = [task EXCEPT ![w] = IdleTask]
  /\ UNCHANGED run

\* The database clock passes lease_until: nobody renewed it in time.
LeaseEnds(r) ==
  /\ run[r].state = "processing"
  /\ run[r].lease = "live"
  /\ run' = [run EXCEPT ![r] = RunRow(@.state, @.fence, @.attempts, "expired", @.items)]
  /\ UNCHANGED task

\* processRetentionItem returns an outcome, for finishRetentionItem to record.
\* What it does to evidence is in module Retention.
Process(w, s) ==
  /\ task[w].pc = "start"
  /\ task' = [task EXCEPT ![w] = TaskAt("finish", @.run, @.fence, @.item, @.attempts, s)]
  /\ UNCHANGED run

WorkerStep(w) ==
  \/ \E r \in Runs : Claim(w, r) \/ Exhaust(w, r)
  \/ \E s \in EndedItem \ {"failed"} : Process(w, s)
  \/ FinishItem(w) \/ RetryItem(w) \/ Abandon(w)

RunsNext ==
  \/ \E w \in Workers : WorkerStep(w)
  \/ \E r \in Runs : LeaseEnds(r) \/ \E m \in Manifests : Enqueue(r, m)

RunsSpec == RunsInit /\ [][RunsNext]_runVars

-----------------------------------------------------------------------------
\* However its claims were abandoned, retried and taken over, a queued run ends.
EveryRunEnds ==
  []<>(\A r \in Runs : run[r].state \notin {"queued", "processing"})
=============================================================================
