# Verification of the ASPM control plane

This directory holds TLA+ models of the parts of the control plane that keep
durable state and share it between processes, TLC configurations that check
them on small instances, and TLAPS proofs of what matters most for all
instances. `PROJECT.json` maps every definition to the lines it models and lists
the runs, the mutants that show that each property can fail, the hazards of the
code and the theorems.

## The system

ASPM is a set of Go services over one PostgreSQL database and one S3 bucket.
Nothing else is shared: a service keeps no state a crash may not lose.

| Part | State | What changes it |
|---|---|---|
| Job queue (`internal/jobs`) | one row per job: state, worker, fence, attempts, expiry, receipt | Enqueue, Claim (sweeps exhausted jobs first), Heartbeat, Complete, Fail |
| Intake and import queue (`imports.go`, `worker.go`) | `imports`, report objects | upload (check, put, check and insert), claim, process, retry, release, revocation of a role |
| Reconciliation (`reconcile.go`) | `findings`, `observations`, `coverage`, `finding_change_events` | the commit of a processed report |
| Remediation outbox (`remediation_*.go`) | `finding_deliveries`, Jira reservations, connections | enqueue, claim, attempt marker, finish, edit of a connection |
| Notification policies (`notification_*.go`) | policy revisions, workspace epoch, change events, outcomes | create, update, claim of an event, evaluation |
| Retention (`retention*.go`, `archive_publications.go`) | runs and items, availability of evidence, archive objects, ledger of publications | previews, approval, the retention worker, readers that notice a missing object |
| Assessment (`assessment_*.go`, `ai_*.go`) | profiles, policies, grants and consent previews by revision, job rows, reservations of a shared pool | previews, enqueue, cancel, the assessment worker |
| Source collection (`source_*.go`) | sources, collections, pinned repositories and their assets, evidence objects | edits of a source, enqueue, the collection worker, the import of a record |
| Verification (`verification*.go`) | evidence, approvals, job rows | submission, approval, revocation, enqueue, the verification worker |
| Reports (`report*.go`) | snapshots and exports with their queues, the SLA policy | requests, the report worker; posture, pages and metrics are reads |
| Decisions and correlations (`finding_*.go`) | decisions, approvals and notes of findings, groups of findings | patch, bulk patch, note, merge, split |
| Login, roles, work items, assets | sessions, OIDC flows, memberships, single rows guarded by a revision | HTTP handlers |
| Installer (`internal/install/execution`) | checkpoint file, native resources | the steps of an approved plan |
| Backup and recovery (`cmd/aspmctl/recovery_*.go`) | backup directory; restore journal, objects, schema | backup, restore apply, restore cleanup |

How they meet: an upload stores a report and queues an import; the import worker
reconciles the report in the transaction that ends the import and records change
events under the policy epoch it read; the delivery worker evaluates each event
against the policy revisions of that epoch and queues deliveries, next to the ones
users request; the same worker sends them. Retention moves and removes the
evidence that imports and observations refer to, while readers and other runs use
it. Revoking a role fails the pending imports of the user and blocks deliveries and
collections. A collected report is imported like an uploaded one. Users decide on the
findings that imports keep changing, and merge them into groups that hide all but
their primary. The operator's tool, `aspmctl`, works on a deployment from outside, with
a file of its own to resume from.

Three conventions recur, and most hazards come from where they are applied:

* a *claim* is a row update under `FOR UPDATE SKIP LOCKED` that raises a fence and
  sets `lease_until` by the database clock; later statements name worker and fence;
* external calls (S3, remote services) are made outside transactions, so that a
  check made before the call may be stale when it lands;
* an *ended* row is final, and what cannot be known is recorded as such
  (`uncertain`, `missing`) rather than retried.

## Modules

Every transaction, or single statement outside of one, is one action; every call to
S3 or a remote service is one action, or two where its effect and its answer come
apart. What a process has in memory between them is a variable, so that it can be
stale. Time is abstracted the same way everywhere: the code compares `lease_until`
only with the database clock, so a row records whether its lease is live or
expired, and an action of the clock expires it at any moment. `available_at` only
delays a claim, and a claim is never forced, so it is left out (JobQueue keeps it as
`wait`, since its sweep ignores it). Crashes lose the memory of a process and
nothing else.

| Module | Models | State |
|---|---|---|
| `JobQueue` | `jobs.Store`; a caller may use any lease it was ever given | `jobs`, `leases` given, answers received (`acked`, `refused`, `settled`) |
| `Imports` | `acceptImport`, `claimImport`, `processImport`, `changeUserRole` | `import` rows, `objects`, requests, roles, workers; `applied` counts reconciliations |
| `Reconcile` | `reconcile`, `findingUpsert`, `observationChange` | `finding` rows, `coverage`, `runs`, change `events`; `history`, `first` record what was reported |
| `Ingestion` | both together: the commit of `Imports` is the step of `Reconcile` (EXTENDS both) | the union |
| `Delivery` | outbox, Jira reservation, worker, connection edits, the remote service | `delivery` rows, `ticket`, `conn`, `writers`, `proc`; `posts`, `inflight`, `applied` |
| `DeliveryContract` | abstract: an effect at most once, reports that are true and final | `status`, `effect` |
| `Notifications` | policies and their evaluation, on top of `Delivery` (EXTENDS) | `epoch`, `revisions`, `event`, `outcomes`, `eproc` |
| `RetentionRuns` | the queue of retention runs; abstract view of `Retention` | `run` with its items, `task` |
| `Retention` | archive, expiry, restoration, orphan cleanup, readers and holds, on top of `RetentionRuns` (EXTENDS) | `row`, `object`, `publication`, `step`, `view`, `protected` |
| `Assessment` | AI configuration, previews, jobs, admission, the request and its reservation | `profile`, `policy`, `grant`, `requester`, `preview`, `quota`, `job`, `worker`; `posts` |
| `Collection` | sources, collections, evidence, repository assets, the import of a record | `source`, `job`, `link`, `objects`, `worker`, `import` |
| `Verification` | evidence, approvals, jobs and their workers | `revision`, `evidence`, `approval`, `job`, `asked`, `worker`, `faults` |
| `Reports` | the queues of snapshots and exports and their common worker | `job`, `line`, `report`, `worker`, `posture` |
| `Posture` | overview, drill-downs, coverage and SLA as queries over a changing workspace | `finding`, `primary`, `scans`, `policy`, `now`, `reader` |
| `Triage` | patch, bulk patch, note, merge and split lock by lock, beside an import, a role change and an assessment preview | `triaged` rows, `approvals`, `groups`, `correlated`, `txn` (a request with its locks and snapshots), `writers`, `holding` (who has the row of the workspace), `begun` |
| `Installer` | plans, checkpoints, steps and the activation boundary on two platforms | `disk`, `run`, `units`, `carried`, `active`, `running` |
| `Recovery` | restore and cleanup with their journal, beside an application role | `objects`, `schema`, `role`, `journal`, `proc`; `retried` |

`late` and `damaged` in `Retention`, `applied` in `Imports`, `history` and `first` in
`Reconcile`, `posts` in `Delivery` and `Assessment`, `last` and `switched` in
`Installer` and `retried` in `Recovery` are history variables: no guard of a modelled
action reads them. `*Proofs` modules hold the theorems, `MC*` modules the instances.
Definitions called mutants in a comment are plausible bugs; no specification uses
them.

### Correspondence in brief

* **JobQueue.** `Claim` is the transaction of `Store.Claim`: `Swept` is its first
  update, with the smaller of the budget of the job and the limit of the process.
  `Complete` distinguishes the replay of a receipt from a new one. Answers may be
  lost, which is how a caller comes to repeat a call.
* **Imports.** `Preflight`, `Put`, `Insert`/`InsertAnswered` are the three parts of
  `acceptImport`; put and commit may succeed without an answer. `Poll` covers the two
  statements of `claimImport`, `Read`, `Commit`, `Fail`, `Denied`, `Release` the ways
  through `processImport`. Revocation fails the pending imports of the user in its
  own transaction. Its guard on the last administrator is left out: it only
  forbids some revocations.
* **Reconcile.** A report is a status, completeness, a time (0 is NULL) and the
  digest of each finding it contains. `Inserted`, `Updated` and `Resolved` are the
  INSERT, the ON CONFLICT update with its condition `newer`, and the resolution by
  absence. Owner, titles and correlation candidates are data no property needs.
* **Delivery.** Slack sends without a marker; Teams and webhooks mark the attempt
  first; Jira reads metadata, marks and creates. The authority watcher is the
  possibility that a step finds its authority gone. The remote service
  applies or refuses a request when it likes; a refusal it states is believed, as
  the code believes it.
* **Notifications.** Kind and severity are one set of kinds a policy matches.
  Evaluation is one transaction over all policies in the order of their ids. A user
  chooses the idempotency key of a manual delivery (`Manual`) and may choose that of a
  policy; the evaluation that needs the key then fails (`Occupied`). Whether a payload
  is valid depends on the event and the connection, so it is chosen with the event
  (`unfit`) and stays the same when the event is claimed again.
* **Retention.** Each operation runs through the steps of the code: read, begin the
  transition, recheck, storage call, final transaction. A storage call renews the
  lease first and may still land after it was lost, or after what it rests on has changed
  (`InForce`: the claim, the row and ledger entry of a put, the transition of a delete,
  the object seen before a transition is cleared); `late` records that. The row is part of
  it because, with more runs than the instance has, the put of one run may land after
  another has expired the row; the object it leaves is an orphan the ledger knows. Protection (hold, decision, note,
  correlation, assessment) is one bit. Archive keys derive from content, so an observation
  has one object and one ledger entry.
* **Assessment.** `Claim` and admission are the transaction of `claimAssessment`; the
  reservation (`io_token`, `io_deadline`) lives beside the state of the job, as in the
  row. Cancelling, invalidating and retiring a job leave the request running until its
  sockets are closed, which releases the reservation by token, or its deadline passes.
  The role of the requester is part of what a claim and a result are checked against.
* **Collection.** `finalizeSource` is two steps, its locks and its commit; every edit
  that one of those locks excludes waits for it. Puts and the commit may succeed without
  an answer. A collection is not retried.
* **Verification.** Enqueueing reads the approval without a lock and inserts later; the
  publication is its UPDATE and its commit. Evidence has one condition, which the
  verifier reports.
* **Reports.** `line` is the order by `available_at`; the worker alternates between the
  queues as `ProcessReports` does. An instant has a part below the microsecond, which
  the column drops and the document keeps.
* **Posture.** Each query is an operator over the rows of the workspace; a page is bound
  to the as-of time, and for the SLA to the policy revision, of what is displayed.
* **Triage.** `Ask` is the snapshot of a locking statement and `Grab` the moment its lock
  is granted; the tables it joins are read from the snapshot, so that READ COMMITTED is
  modelled where it matters. `LockKey` is the advisory lock and `sessionRole`: a merge or
  split shares the membership of its user from there on. The first row of a new group
  shares the key of the workspace (`MakesGroup`). `Hold` is the row of the workspace that
  `changeUserRole` and `createAssessmentPreview` lock first; `HoldWaits` is what they lock
  next.
* **Installer.** A step may fail or the process stop before, inside and after it; each
  checkpoint write is a step. Neighbouring steps that only issue commands are one.
  `running` is what runs: `helm upgrade` replaces it, `systemctl start` starts a stopped
  service and leaves one that runs alone, and the operator may stop it between
  executions (`StopApplication`). `active` is the bundle whose activation was attempted
  last.
* **Recovery.** Each journal write may fail, each request may take effect and be
  answered by an error, and the process may stop anywhere. The storage client repeats a
  request once by itself (`RetryMaxAttempts: 2`), which `PutRefused` includes.

## Runs

Components that do not interact share a run where the instance of each is small: a
variable `part` chooses one in the initial state, and the others stand still.

| Run | Instance | Question |
|---|---|---|
| `queues` | job queue: 2 jobs, 2 processes with limits 2 and 1, envelopes with budgets 2 and 1; retention runs: 1 run of up to 2 items, 2 workers, 3 attempts; verification: 1 job, 1 approval, 2 fixtures, 3 attempts, 2 finding revisions, 3 faults; fairness | Can a stale, repeated or late call disturb a job, does every run end, and is what a verification reports true of its approval? |
| `ingestion` | 4 uploads of 2 users for one or two scans, 2 workers, 2 attempts; fairness | Do uploads, claims, retries, revocations and lost answers leave the projection of exactly the succeeded imports, and does every import end? |
| `findings` | reconciliation: 2 findings (one from before digests), 3 times and NULL, 3 reports; triage: 4 findings, 2 clients with 2 requests, 1 import, 1 role change or preview, from nothing or from a group of three | Is the projection the one the scan times imply, and do crossing decisions, merges and splits leave sound groups and reviewed decisions? |
| `notifications` | 1 change, 2 policies, connections to Slack, Teams and Jira, 2 workers, in the three scenarios below; fairness | Does the policy in force decide, is nothing sent twice, has a finding one ticket, does everything settle, is the contract implemented? |
| `retention` | 1 observation and 1 report in five histories, 2 runs, 2 workers, 3 claims, 1 hold, 1 reading | Do rows, objects and ledger agree under any interleaving? |
| `assessment` | 2 workers, a pool of 1, 2 jobs, 1 change of the configuration or of the requester's role; fairness | Is the pool bound kept in requests really under way, is nothing sent twice or accepted without consent, is every job settled? |
| `collection` | 2 workers, 2 sources, 2 repositories, 2 collections, 2 pages (the second collection 1), 1 change; fairness | Is evidence stored before it is published, and only under authority, and does every collection end? |
| `reporting` | queues: 2 workers of which 1 keeps running, 2 snapshots, 1 export, 2 attempts, 1 fault, names used again for ever; posture: 3 findings, 3 days, 2 changes, pages of 1; fairness | Does neither queue starve the other, and do pages and measures agree with the numbers displayed? |
| `installer` | both platforms, 3 configurations of 2 bundles, 4 executions; 2 restores of 2 objects, 3 applies, 3 cleanups | Do the checkpoint and the journal of `aspmctl` tell what was done, wherever it stopped? |
| `retention_missing` | as `retention` | *Violated*: what is marked missing was lost. |
| `saved_times` | the queues of `reporting` with 1 worker, instants that differ below the microsecond | *Violated*: the times of a saved report agree. |
| `unsafe_rollback` | Kubernetes, 2 bundles, 5 executions | *Violated*: after an activation a rollback needs a restore. |

### What the properties say

* `ReceiptIsExclusive`: a receipt belongs to the one lease that was answered with it.
  `EveryRunEnds`: a retry resets the attempts of a retention run, yet it ends.
* `EndingIsHonest`, `RevocationEndsWork`, `EveryVerificationEnds`: a result is the
  condition of the approved evidence and is committed only while the approval stands;
  an ended verification is final; all end, but for the jobs described under Findings.
* `AcknowledgedIsDurable`, `PendingHasAuthority`, `ProjectionShowsSucceeded`,
  `EveryImportEnds`: authority is that of the moment, so that a revocation followed by a
  regrant does not revive an import.
* `StateMatchesHistory`: the state of a finding is a function of the set of reports, not
  of their order, as far as the code promises it (scans with times, no failed report).
* `GroupsAreSound`, `DispositionIsApproved`, `ReviewedIsCurrent`, `BulkSparesSecondaries`:
  groups keep two members of different sources and one primary; a disposition has its
  approval; a merge or split commits what was reviewed; a bulk patch leaves hidden
  findings alone. `CirclesAreKnown`: patches, notes, merges and splits lock findings in
  ascending order and close no circle of waiting among themselves. Two others do, and
  PostgreSQL aborts one of the circle: an import that locks in the order of its report,
  and a merge that makes a group against a role change or an assessment preview. The
  property says that every circle is one of these; all three kinds are reachable.
* `AtMostOnePost`, `OneTicketPerFinding`, `ImplementsContract`, `EveryIntentSettles`: the
  record of a delivery is true of the remote service, also of a request still under
  way. A stalled worker may send after its delivery was recorded as uncertain, which is
  why "uncertain" promises nothing. `PolicyInForceDecides`, `EveryChangeEvaluated`:
  outcomes name the revision approved at the epoch of the change, and every change is
  evaluated in the end, unless a manual delivery has the key of one of its policies.
* `StoredIsReadable`, `MissingIsAccident`, `ExpiredIsGone`, `LedgerKnowsOrphans`: the four
  statuses of evidence in `docs/m06-retention-execution.md` and the ledger of
  `docs/m06-orphan-cleanup.md`, for resources no storage call reached too late and the
  store did not damage.
* `PoolIsBounded`, `DispatchIsHonest`, `ResultsAreConsented`, `EveryAssessmentSettles`: the
  bound counts requests, not jobs; a row never understates what may have left; a job
  succeeds only while the consent it was queued under is in force.
* `EvidenceIsStored`, `PublishedUnderAuthority`, `EveryCollectionEnds`: all evidence or
  none; nothing is published or imported for a source, a requester or an asset that
  changed meanwhile.
* `NeitherQueueStarves`, `PagesMatchTheNumber`, `PagesMissNothing`, `MeasuresAreExact`: the
  pages behind a number hold as many rows as it says while nothing changes, whatever
  expires; a walk misses and repeats nothing; coverage and lateness equal their
  definition in terms of scans and days.
* `SettledIsTrue`, `RollbackIsSafe`, `ResumeIsOffered`: a settled checkpoint tells which
  steps were done for which bundle, on Kubernetes also what runs, on Linux what the
  definitions name, and after an uninstall that nothing runs; a rollback returns to the
  release that touched the data last; what was interrupted is accepted again.
  `CleanupIsComplete`: a restore without a journal has left nothing behind.

### Findings

Three runs show the code apart from what is said of it; PROJECT.json quotes both.

1. `retention_missing`: a delete that lands after its lease was lost, with a hold placed
   and the transition cleared meanwhile, leaves evidence that retention removed marked
   missing, and the item reported protected.
2. `saved_times`: a saved report keeps its as-of time with nanoseconds and its completion
   with microseconds; reading a trend compares them and refuses.
3. `unsafe_rollback`: an upgrade that is applied again after its rollback stopped is taken
   for a reapply, and activates the new release with the rollback left open.

Others came up while modelling. They have no run; the models contain the behaviour, and
properties name the exception where they meet it.

* A failed scan that is first to see a finding leaves its time on the row
  (`reconcile.go:253`), and a successful scan with an older time then changes nothing;
  `docs/m06-change-lifecycle.md:43` says that failed inputs gain no authority.
* A patch that waits for the row lock of a finding goes on with the snapshot from before
  the merge it waited for (`finding_decisions.go:93`) and edits a hidden secondary;
  `docs/m06-correlation.md:37-39` excludes it. The bulk patch is not affected.
* A policy whose connection was edited cannot be renewed by saving it with the same
  values (`notification_policies.go:380`): the update is refused as a conflict.
* A manual delivery may name any idempotency key (`remediation_deliveries.go:387`), that of
  a policy included. The evaluation of the change then fails on the unique key
  (`notification_policy_worker.go:275`) and is repeated without end, and no policy gets an
  outcome for the change. `EveryChangeEvaluated` excepts these changes.
* A merge holds its user's membership and two findings when it inserts a new group, whose
  foreign key locks the workspace (`finding_correlations.go:630`); `changeUserRole`
  (`membership.go:67`) and `createAssessmentPreview` (`assessment_previews.go:13`) lock the
  workspace first. Two such requests can wait for each other until PostgreSQL aborts one,
  which the code reports as an error and does not repeat.
* An upgrade of a Linux host whose services run ends as applied with the old release
  running: `start-core` and the steps after it only call `systemctl start`
  (`linux.go:165`), and no step stops a service. `docs/m13-upgrade-rollback.md` calls the
  activation "starting the application role services after the signed Quadlet definitions
  are installed". The new release starts with the next restart of the host or of the
  service. `SettledIsTrue` claims no more of Linux than that.
* A verification that a stopping worker gives back on its last attempt stays queued:
  claims skip it and `failExhausted` looks at processing jobs only
  (`verification_worker.go:104`). It ends when its approval is revoked.
* Restore cleanup drops the schema of a journal that says *pending*
  (`recovery_restore.go:361`), which is written before CREATE SCHEMA. When a role is
  started in between and creates the schema, the restore fails, and its cleanup drops a
  schema it did not create; `docs/m13-backup-restore.md:97-99` says it "drops only the
  exact schema created by that journal". `DropSchema` shows it.
* A restored object whose put was repeated by the storage client after a lost answer is
  taken for somebody else's and off the journal (`recovery_storage.go:303`); cleanup
  leaves it, and the next restore finds the prefix occupied. `CleanupIsComplete`
  excepts it.
* Installer: a reapply takes over the plan of an unfinished rollback or uninstall with
  its completed steps (`SettledIsTrue` excludes these deployments); planning an
  unfinished upgrade again with another configuration replaces the recorded previous
  release; a stop inside the step that writes the Quadlet files leaves definitions whose
  digests are not recorded, so that every later run is refused.

### Bounds

Two workers are enough for one to be stale while the other acts; a third would repeat
one of the two roles. Three attempts (verification, retention runs) are the code's own;
two are used where liveness makes the instance larger. Two revisions give an approval
that is current and one that is not. Three reports give a first, a later and a late
one; four times include NULL and allow equal times. In `retention`, three claims allow a
claim of each run and one takeover; one hold and one reading may fall between any two
steps, and the evidence starts fresh, archived, damaged, lost or expired, as earlier
runs leave it. `Scenarios` of `notifications` are one intent over any connection, one
policy that changes, and two policies with a manual intent for one ticket. In
`assessment` and `collection` one change of the configuration may fall between any two
steps, and two jobs compete for the pool or the repository. Four executions are an
installation, an upgrade that stops, its rollback or repetition, and one more; three
applies and three cleanups let one restore be cleaned in two runs and repeated beside
the other. `MaxClaims` of `Notifications` bounds how often the claim of an event may be
lost: claims have no limit in the code, and a claim that is always lost never ends.
`MaxHolds` of `Triage` is one because the row of the workspace admits one holder at a
time, and one is enough to meet every step of two requests.

Constraints (`Canonical`, `Matters`, `OneOther`, `Scenarios`) keep one of several states
that differ in names only, or split an instance into scenarios; each is commented where
it is defined. Deadlock checking is off where a system may rest (all intents settled, all
bounds used up).

### Fairness

Workers poll in a loop (`ProcessNext` under the service runtimes) and each of their calls
returns, fails or times out, so the steps of a worker are weakly fair; the database
clock runs, so the expiry of leases, deadlines and delays is weakly fair. In `reporting`
only one worker is sure to come back to its queues, which is what starvation is about;
any worker finishes a publication it has begun. Nothing is assumed of users,
administrators or the remote service: an intent settles although no answer ever comes.
No step is strongly fair.

## Proofs

Each module of proofs EXTENDS the components it is about. Below, the inductive invariant
is what had to be added to the property before a single step preserves it.

| Module | Theorems | Argument |
|---|---|---|
| `QueuesProofs` (JobQueue) | `JobQueueTypes`, `JobQueueSafety`, `JobOutcomeStable`, `GrantsBounded` | `IInv`: the fences of leases given lie at or below the fence of the row and name one lease; answers match the rows. Needed because the properties speak of leases long given away. Most follows from one lemma on how a row may move (`EveryRowStep`); `GrantsCounted` adds that leases given are as many as attempts. |
| `QueuesProofs` (Verification) | `EndingHonest`, `RevocationEnds` | `VInv`: a worker inside its publishing transaction owns the job and its approval is granted; revocation and the sweep wait for that row. What an ending says of an approval is never taken back. |
| `IngestionProofs` (Imports) | `ImportsTypes`, `AcknowledgementsDurable`, `PendingAuthority`, `ReportsAppliedOnce`, `ImportEndFinal` | `ImportsInv`: a worker past its claim names an import (`Sound`); reports are stored before rows, a scan has one row, and an accepted request was answered with a row of its content (`Durable`); `applied` counts exactly the succeeded (`Applied`). |
| `IngestionProofs` (Reconcile) | `ProjectionTypes`, `EventsNameOneChange`, `AuthorityGrows`, `StateTellsHistory` | `ReconcileInv`: rows are sound and every event has a revision at most that of its row; a change raises the revision before it is recorded. For the history, `HistoryInv` relates coverage and each row to the times of *all* reports seen (`CoverageSound`, and what an open or resolved row says of its sightings); the state alone is not inductive, since the next report is compared with times and not with states. |
| `IngestionProofs` (Ingestion) | `FindingsShowSucceeded` | `IngestionInv`: both invariants, and `Together`: what was reconciled is what succeeded, and runs are counted by successes. A commit of the queue is one reconciliation. |
| `DeliveryProofs` (Delivery) | `DeliveryTypes`, `DeliverySafety`, `DeliveryOutcomeFinal`, `DeliveryImplementsContract` | `DInv`: what each recorded state says of `posts`, `inflight` and `applied` (`RowInv`), what each worker may still do (`ProcInv`), one worker at most holds the current fence (`OneHolder`), and Jira intents hold their reservation (`Reserved`). The refinement maps recorded states to the contract's reports. |
| `DeliveryProofs` (Notifications) | `NotificationSafety`, `NotificationsImplementContract`, `InForceDecides` | `NInv`: `DInv`, and revisions of a policy are numbered without a gap in the order of their epochs (`Numbered`), a change not yet evaluated has no outcome, and the outcomes of an evaluated one are those of the revisions in force at its epoch (`Decided`). An evaluation queues several deliveries in one step, which `Delivery` never does, so that `AcceptKeeps` shows `DInv` for any set of new intents; for the contract it is one acceptance. |
| `RetentionProofs` | `StoredReads`, `MissingByAccident`, `ExpiredGone`, `OrphansKnown`, `RetentionImplementsQueue` | `EvidenceInv`: what a row, its object and its ledger entry say of each other (`EvidenceSound`, `LedgerSound`); what a worker half way through an item may rely on as long as the row has the revision it read (`WorkSound`, `ReadSound`); what a reader has in memory (`ViewSound`); at most one worker inside the deletion of an orphan. All four properties are conjuncts of it. The refinement is the identity on `run` and `task`: every step of work on evidence is a step of `RetentionRuns` or leaves both alone. |
| `AssessmentProofs` | `DispatchHonest`, `ResultsConsented`, `PoolBounded` | `AInv`: no step leads back to "queued", so a job has one attempt in flight at most, and its row says what that attempt may have done. For the pool, every attempt in flight has a reservation that nobody else gives back, and the admission counted the reservations. |
| `CollectionProofs` | `EvidenceStored`, `Published` | `CInv`: a worker inside `finalizeSource` has stored every record it is about to publish, and its locks keep the authority it checked; a collection that has not ended shows no record. |
| `TriageProofs` | `DispositionsApproved`, `ReviewsCurrent`, `BulkSpares`, `CirclesKnown`, `GroupsSound` | `TInv`: a row is held by one request (`Exclusive`), a request holds a prefix of its ascending list of rows, writes only rows it holds, and what a reviewer saw is what there is unless the revision tells (`TxnInv`). In a circle without a merge that makes a group beside a role change or preview, and without a worker that went down in its list, whoever is waited for waits for a row itself; the greatest of those rows has a holder that waits for a greater one. Groups: `GroupsInv` adds that active groups are disjoint. |
| `RecoveryProofs` | `CleanupComplete` | `RecInv`: whatever a restore has in the destination is named by its journal, as written and as its process has it in memory (`Names`): it is journaled before it is created and struck off after it is gone, and the step a process is at says what cannot be there yet (`HasJournal`, `NoJournal`). |

The theorems hold for every value of the constants that satisfies the named assumptions
(`JobConstants`, `ImportConstants`, `ReconcileConstants`, `IngestionConstants`,
`DeliveryConstants`, `NotificationConstants`, `RunConstants`, `RetentionConstants`,
`AssessmentConstants`, `CollectionConstants`, `TriageAssumption`, `RecoveryAssumption`; for
verification that `MaxAttempts` is a natural number): functions have the right domains,
limits are natural numbers, "nobody" is not somebody. Bounds such as `MaxRevision` are
constants too, so that the theorems hold for any bound.

Only model-checked: all liveness (`Every...`, `NeitherQueueStarves`), which is out of the
prover's reach; the properties of `Reports`, `Posture` and `Installer`, which rest on what
sorting, selecting and walking a list computes, an induction over data the prover does not
do. `RetentionImplementsQueue` is proved and not run, since checking it nearly doubles the
time of that run.

## Not modelled, and assumptions

* PostgreSQL executes transactions as the code asks: row locks, advisory locks and
  conditional updates are atomic. READ COMMITTED re-evaluation of a conditional update is
  what makes single statements atomic; `Triage` models what it does to the other tables
  of a statement.
* S3 keeps an object once a put was answered, unless the model loses or damages it
  (`Retention`); reads see the last write.
* A remote service that states a refusal did not act; one that does not answer may.
* Retention previews and their approval enter as manifests. A preview lists protected
  items too, so eligibility ignores protection. Orphans are a day old before a preview
  offers them, longer than any lease or storage call; `Age` models that.
* The archive of finding history (`retention_history_archive.go`) follows the steps of an
  observation archive, which `Retention` models; it is not modelled a second time.
* Installer: two `aspmctl` processes on one checkpoint, stale approvals (refused before
  anything changes), version 1 checkpoints and the targets other than Linux and
  Kubernetes. Recovery: two processes on one journal, a request that takes effect after
  its process ended and the next one has begun, modified objects (cleanup refuses them
  and stops), and what a role does with a schema it finds. Restarts by systemd itself
  (`Restart=on-failure`, a boot) are left out: they only ever start what the definitions
  name.
* A backup reads a stopped system and publishes a directory by one rename; nothing
  of the system changes.
* Reads, lists and downloads change nothing and are left out, except the readers that
  mark evidence missing and the ones `Posture` is about.
* Login, sessions and OIDC flows, saved views and the other edits of one row guarded by a
  revision, or deleted by the statement that reads it: no other step comes in between.
* The integrity worker is a caller of `JobQueue`; its loop and digest are not modelled.
* Parsers, report adapters, payload formats, policy documents, HTTP encoding and the web
  client are pure data; the service runtimes are loops whose workers may stop anywhere.
