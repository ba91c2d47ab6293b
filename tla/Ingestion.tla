------------------------------ MODULE Ingestion ------------------------------
(***************************************************************************)
(* The import queue and the source projection together: the worker's commit   *)
(* is the reconciliation of the report, in the same transaction as the end    *)
(* of the import.                                                           *)
(***************************************************************************)
EXTENDS Imports, Reconcile

CONSTANT ReportOf  \* what each upload reports

ingestionVars == <<importVars, reconcileVars>>

ASSUME IngestionConstants == IsFiniteSet(Uploads) /\ ReportOf \in [Uploads -> Reports]

IInit == Init /\ SourceInit

\* Mutant: the projection is updated first, in a transaction of its own.
CommitAndReconcileApart(w, answered) ==
  \/ Commit(w, answered) /\ Reconcile(ReportOf[worker[w].import])
  \/ CommitFails(w) /\ ~answered /\ Reconcile(ReportOf[worker[w].import])

CommitAndReconcile(w, answered) ==
  Commit(w, answered) /\ Reconcile(ReportOf[worker[w].import])

ProcessOther(w) == Read(w) \/ CommitFails(w) \/ Denied(w) \/ Fail(w) \/ Release(w) \/ WorkerCrash(w)

IProcess(w) ==
  \/ \E answered \in BOOLEAN : CommitAndReconcile(w, answered)
  \/ ProcessOther(w) /\ UNCHANGED reconcileVars

INext ==
  \/ \E w \in Workers : IProcess(w)
  \/ /\ \/ \E q \in Uploads : Upload(q)
        \/ \E u \in Users : Revoke(u) \/ Grant(u)
        \/ \E w \in Workers : Poll(w)
        \/ \E i \in Uploads : ImportLeaseExpires(i)
     /\ UNCHANGED reconcileVars

ISpec == IInit /\ [][INext]_ingestionVars

\* ProcessImports polls in a loop, each call returns or its process dies, and
\* the database clock runs.
IFairness ==
  /\ \A w \in Workers : /\ WF_ingestionVars(Poll(w) /\ UNCHANGED reconcileVars)
                         /\ WF_ingestionVars(IProcess(w))
  /\ \A i \in Uploads : WF_ingestionVars(ImportLeaseExpires(i) /\ UNCHANGED reconcileVars)

IFairSpec == ISpec /\ IFairness

-----------------------------------------------------------------------------
\* The findings show exactly the reports whose import succeeded: with whatever
\* claims, retries, revocations and lost answers, a finding exists if one of
\* them reported it, and is resolved if a later comparable one missed it.
ProjectionShowsSucceeded ==
  LET succeeded == {i \in Uploads : import[i].state = "succeeded"}
      done == {OldReport} \cup {ReportOf[i] : i \in succeeded}
      Saw(f) == {r \in done : Reported(f, r)}
  IN
  /\ runs = Cardinality(succeeded)
  /\ \A f \in Identities :
       (\A r \in Saw(f) : Succeeded(r) /\ r.at # 0) =>
         /\ finding[f].state = "absent" <=> Saw(f) = {}
         /\ finding[f].state = "inferred-resolved" <=>
              Saw(f) # {} /\ \E c \in done : Comparable(c) /\ \A r \in Saw(f) : r.at < c.at
=============================================================================
