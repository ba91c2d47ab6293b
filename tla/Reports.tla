------------------------------ MODULE Reports ------------------------------
(***************************************************************************)
(* Report snapshots and their exports: two durable queues drained by the   *)
(* same workers.  A snapshot saves the posture of the workspace as of one  *)
(* instant; an export renders a saved report and never reads the posture.  *)
(*                                                                         *)
(* A completion is two steps, the locking read and the commit: in between  *)
(* the lease may expire and the posture may change.  The order in which    *)
(* jobs became available (available_at) is kept as a line for each queue.  *)
(*                                                                         *)
(* Rows are never deleted; the few names of the model stand for them, and  *)
(* Forget gives the name of an ended job to a later request.               *)
(***************************************************************************)
EXTENDS Naturals, Sequences, SequencesExt

CONSTANTS
    Workers,        \* callers of ProcessReports
    Steady,         \* those of them that are assumed to keep running
    Snapshots,      \* names of report_snapshots rows
    Exports,        \* names of report_exports rows
    Instants,       \* times a report can be taken at, in nanoseconds
    MaxAttempts,    \* reportAttempts
    MaxPosture,     \* bound: versions of the posture
    MaxFaults       \* bound: failed generations, crashes and shutdowns

Kinds == {"snapshot", "export"}
Jobs == Snapshots \cup Exports
Kind(j) == IF j \in Snapshots THEN "snapshot" ELSE "export"
Other(k) == IF k = "snapshot" THEN "export" ELSE "snapshot"

VARIABLES
    posture,    \* version of the findings, assets and imports a report is read from
    job,        \* the queue columns of both tables
    line,       \* for each queue the unfinished jobs that became available, in that order
    report,     \* report_snapshots.report and completed_at, report_exports.content
    source,     \* report_exports.snapshot_id
    worker,     \* process memory of the workers
    faults      \* faults so far

vars == <<posture, job, line, report, source, worker, faults>>

-----------------------------------------------------------------------------
None == "none"

NoJob == [state |-> "absent", attempts |-> 0, fence |-> 0, owner |-> None, lease |-> "none"]
NoReport == [posture |-> 0, asOf |-> 0, completed |-> 0]
Idle(prefer) == [phase |-> "first", prefer |-> prefer, job |-> None, fence |-> 0, read |-> NoReport]

\* A microsecond of two "nanoseconds": timestamptz drops what is finer, the JSON report keeps it.
Micro == 2
Timestamp(t) == (t \div Micro) * Micro

Active == {"queued", "processing"}
Locked(j) == \E w \in Workers : worker[w].phase = "publishing" /\ worker[w].job = j
Holds(w) ==
    LET j == worker[w].job IN
    /\ job[j].state = "processing"
    /\ job[j].owner = w
    /\ job[j].fence = worker[w].fence

Ended(j, state) == [job[j] EXCEPT !.state = state, !.owner = None, !.lease = "none"]

\* The line after a job has left it, and after it has come (back) to its end.
Without(j) == [line EXCEPT ![Kind(j)] = Remove(@, j)]
AtEnd(j) == [line EXCEPT ![Kind(j)] = Append(Remove(@, j), j)]

-----------------------------------------------------------------------------
Init ==
    /\ posture = 1
    /\ job = [j \in Jobs |-> NoJob]
    /\ line = [k \in Kinds |-> <<>>]
    /\ report = [j \in Jobs |-> NoReport]
    /\ source = [e \in Exports |-> None]
    /\ worker = [w \in Workers |-> Idle("export")]
    /\ faults = 0

\* createReportSnapshot
CreateSnapshot(s) ==
    /\ job[s].state = "absent"
    /\ job' = [job EXCEPT ![s].state = "queued"]
    /\ line' = AtEnd(s)
    /\ UNCHANGED <<posture, report, source, worker, faults>>

\* createReportExport: only of a snapshot that succeeded; a used key is only replayed.
CreateExport(e, s) ==
    /\ job[e].state = "absent"
    /\ job[s].state = "succeeded"
    /\ job' = [job EXCEPT ![e].state = "queued"]
    /\ source' = [source EXCEPT ![e] = s]
    /\ line' = AtEnd(e)
    /\ UNCHANGED <<posture, report, worker, faults>>

\* The ended job is not looked at again: its name stands for another row from now on.
Forget(j) ==
    /\ job[j].state \in {"succeeded", "failed"}
    /\ \A e \in Exports : source[e] # j
    /\ job' = [job EXCEPT ![j] = NoJob]
    /\ report' = [report EXCEPT ![j] = NoReport]
    /\ source' = IF j \in Exports THEN [source EXCEPT ![j] = None] ELSE source
    /\ UNCHANGED <<posture, line, worker, faults>>

\* Imports and triage change what a report would say.
ChangePosture ==
    /\ posture < MaxPosture
    /\ posture' = posture + 1
    /\ UNCHANGED <<job, line, report, source, worker, faults>>

ExpireLease(j) ==
    /\ job[j].lease = "live"
    /\ job' = [job EXCEPT ![j].lease = "expired"]
    /\ UNCHANGED <<posture, line, report, source, worker, faults>>

\* available_at of a retried job passes.
Ripen(j) ==
    /\ job[j].state = "queued"
    /\ ~Contains(line[Kind(j)], j)
    /\ line' = AtEnd(j)
    /\ UNCHANGED <<posture, job, report, source, worker, faults>>

-----------------------------------------------------------------------------
(* ProcessReports *)

Available(j) == job[j].state = "queued" \/ job[j].lease = "expired"

\* The first statement of a claim: queued or abandoned jobs without an attempt left.
Exhausted(k) ==
    {j \in Jobs : /\ Kind(j) = k
                  /\ job[j].attempts >= MaxAttempts
                  /\ Available(j)
                  /\ ~Locked(j)}

\* Its second statement: the first job in line that is free and may be attempted.
Candidates(k) ==
    SelectSeq(line[k], LAMBDA j : job[j].attempts < MaxAttempts /\ Available(j) /\ ~Locked(j))

\* Mutant: exports always come first.
NextPreferredExports(k) == "export"

\* The kind looked for first once a job of kind k was taken.
NextPreferred(k) == Other(k)

\* claimReport, claimReportExport
Claim(w, k) ==
    LET dead == Exhausted(k)
        j == Head(Candidates(k))
        settled == [i \in Jobs |-> IF i \in dead THEN Ended(i, "failed") ELSE job[i]]
    IN
    /\ line' = [line EXCEPT ![k] = SelectSeq(@, LAMBDA i : i \notin dead)]
    /\ IF Candidates(k) # <<>>
       THEN /\ job' = [settled EXCEPT ![j] = [state |-> "processing", attempts |-> @.attempts + 1,
                                              fence |-> @.fence + 1, owner |-> w, lease |-> "live"]]
            /\ worker' = [worker EXCEPT ![w] = [phase |-> "working", prefer |-> NextPreferred(k),
                                                job |-> j, fence |-> job[j].fence + 1,
                                                read |-> NoReport]]
       ELSE /\ job' = settled
            /\ worker' = IF worker[w].phase = "first"
                         THEN [worker EXCEPT ![w].phase = "second"]
                         ELSE [worker EXCEPT ![w] = Idle(
                                 IF \E i \in Jobs : settled[i].state \in Active
                                 THEN @.prefer ELSE "export")]

\* ProcessReports: the preferred queue, then the other one.  With nothing pending it returns, and
\* its next call starts with the exports again.
Look(w) ==
    /\ worker[w].phase \in {"first", "second"}
    /\ Claim(w, IF worker[w].phase = "first" THEN worker[w].prefer ELSE Other(worker[w].prefer))
    /\ UNCHANGED <<posture, report, source, faults>>

\* completeReportExport reads the saved report only.
ReadExport(e, t) == report[source[e]]

\* completeReport reads the posture in the transaction's snapshot.
ReadSnapshot(s, t) == [posture |-> posture, asOf |-> t, completed |-> Timestamp(t)]

\* completeReport, completeReportExport up to their UPDATE
Begin(w, t) ==
    LET j == worker[w].job IN
    /\ worker[w].phase = "working"
    /\ worker' = [worker EXCEPT ![w] =
          IF Holds(w) /\ job[j].lease = "live"
          THEN [@ EXCEPT !.phase = "publishing",
                         !.read = IF j \in Snapshots THEN ReadSnapshot(j, t) ELSE ReadExport(j, t)]
          ELSE Idle(@.prefer)]
    /\ UNCHANGED <<posture, job, line, report, source, faults>>

\* The UPDATE and the commit, if the lease is still live; the lease is lost otherwise.
Publish(w) ==
    LET j == worker[w].job IN
    /\ worker[w].phase = "publishing"
    /\ IF job[j].lease = "live"
       THEN /\ job' = [job EXCEPT ![j] = Ended(j, "succeeded")]
            /\ report' = [report EXCEPT ![j] = worker[w].read]
            /\ line' = Without(j)
       ELSE UNCHANGED <<job, report, line>>
    /\ worker' = [worker EXCEPT ![w] = Idle(@.prefer)]
    /\ UNCHANGED <<posture, source, faults>>

Fault == faults < MaxFaults /\ faults' = faults + 1

\* processReport, processReportExport after a failed generation: retry later, or give up.
Fail(w) ==
    LET j == worker[w].job IN
    /\ worker[w].phase \in {"working", "publishing"}
    /\ Fault
    /\ IF Holds(w) /\ job[j].lease = "live"
       THEN /\ job' = [job EXCEPT ![j] = Ended(j, IF @.attempts < MaxAttempts THEN "queued" ELSE "failed")]
            /\ line' = Without(j)
       ELSE UNCHANGED <<job, line>>
    /\ worker' = [worker EXCEPT ![w] = Idle(@.prefer)]
    /\ UNCHANGED <<posture, report, source>>

\* A worker told to stop gives its job back; an export is available as of now.
Stop(w) ==
    LET j == worker[w].job IN
    /\ worker[w].phase \in {"working", "publishing"}
    /\ Fault
    /\ IF Holds(w)
       THEN /\ job' = [job EXCEPT ![j] = Ended(j, "queued")]
            /\ line' = IF j \in Exports THEN AtEnd(j) ELSE line
       ELSE UNCHANGED <<job, line>>
    /\ worker' = [worker EXCEPT ![w] = Idle("export")]
    /\ UNCHANGED <<posture, report, source>>

Crash(w) ==
    /\ worker[w].phase \in {"working", "publishing"}
    /\ Fault
    /\ worker' = [worker EXCEPT ![w] = Idle("export")]
    /\ UNCHANGED <<posture, job, line, report, source>>

-----------------------------------------------------------------------------
\* reportTrends takes a saved snapshot as a point, or refuses the whole request.
TrendAccepts(s) == report[s].asOf = report[s].completed

Work(w) == Look(w) \/ (\E t \in Instants : Begin(w, t)) \/ Publish(w)

Next ==
    \/ \E s \in Snapshots : CreateSnapshot(s)
    \/ \E e \in Exports, s \in Snapshots : CreateExport(e, s)
    \/ \E j \in Jobs : Forget(j) \/ ExpireLease(j) \/ Ripen(j)
    \/ ChangePosture
    \/ \E w \in Workers : Work(w) \/ Fail(w) \/ Stop(w) \/ Crash(w)

Spec == Init /\ [][Next]_vars

-----------------------------------------------------------------------------
(* Properties *)

\* Every snapshot and every export ends, although new ones are requested for ever and only one
\* worker keeps running: neither queue starves the other, and an abandoned or returned job is
\* finished or failed (ProcessReports).
NeitherQueueStarves ==
    \A j \in Jobs : []<>(job[j].state \notin Active)

\* The as-of time of a saved report is the completion time of its snapshot, which reportTrends
\* relies on: it answers nothing as long as one snapshot in its window is refused.
SavedTimesAgree ==
    \A s \in Snapshots : job[s].state = "succeeded" => TrendAccepts(s)
=============================================================================
