------------------------------ MODULE Reconcile ------------------------------
(***************************************************************************)
(* The source projection of one exact scope: what ImportWorker.reconcile     *)
(* does to findings, coverage and change events when it commits a report.    *)
(* Commits of a scope are serialized by an advisory lock, but reports arrive  *)
(* in any order, late ones included.                                        *)
(*                                                                         *)
(* Times are natural numbers and 0 is NULL.                                 *)
(***************************************************************************)
EXTENDS Naturals, FiniteSets

CONSTANTS
  Identities,  \* identity keys of findings
  Digests,     \* semantic digests of a finding's content
  NoDigest,    \* the identity is not in a report, or a row has no digest
  Migrated,    \* findings that exist since before digests were kept
  MaxTime,     \* bound on source_scan_at
  MaxRuns      \* bound on the number of reports

Times == 0..MaxTime

\* complete: the scan was full and its completeness "complete".
Reports == [status : {"succeeded", "failed"}, complete : {"yes", "no"}, at : Times,
            content : [Identities -> Digests \cup {NoDigest}]]

ASSUME ReconcileConstants ==
  /\ NoDigest \notin Digests /\ Digests # {}
  /\ Migrated \subseteq Identities
  /\ MaxTime \in Nat \ {0} /\ MaxRuns \in Nat

VARIABLES
  finding,   \* the findings table: the source columns of each identity
  coverage,  \* coverage.complete_at
  runs,      \* how many reports were reconciled; the last one is the current run
  events,    \* finding_change_events: the changes policies may see
  history,   \* the reports reconciled so far
  first      \* the classification of the first successful observation

reconcileVars == <<finding, coverage, runs, events, history, first>>

-----------------------------------------------------------------------------
States == {"absent", "observed", "unknown", "inferred-resolved"}
Changes == {"new", "changed", "unchanged", "reopened", "inferred-resolved"}

FindingRow(s, t, fr, dg, k, r, n) ==
  [state |-> s, scan |-> t, fresh |-> fr, digest |-> dg, kind |-> k, run |-> r, revision |-> n]

\* A migrated row stands for a delta scan at time 1.
OldReport == [status |-> "succeeded", complete |-> "no", at |-> 1,
              content |-> [f \in Identities |->
                 IF f \in Migrated THEN CHOOSE g \in Digests : TRUE ELSE NoDigest]]

SourceInit ==
  /\ finding = [f \in Identities |->
       IF f \in Migrated THEN FindingRow("observed", 1, 0, NoDigest, "unchanged", 0, 1)
       ELSE FindingRow("absent", 0, 0, NoDigest, "unchanged", 0, 0)]
  /\ coverage = 0
  /\ runs = 0
  /\ events = {}
  /\ history = {OldReport}
  /\ first = [f \in Identities |-> IF f \in Migrated THEN "new" ELSE "none"]

-----------------------------------------------------------------------------
Succeeded(r) == r.status = "succeeded"

Comparable(r) == Succeeded(r) /\ r.complete = "yes" /\ r.at # 0

\* Mutant: a late report is not compared with the coverage.
CoveredNever(r) == FALSE

\* A scan that saw the whole scope later is already committed.
Covered(r) == Succeeded(r) /\ r.at # 0 /\ coverage > r.at

SourceState(r) ==
  IF Covered(r) THEN "inferred-resolved" ELSE IF Succeeded(r) THEN "observed" ELSE "unknown"

Freshness(r) == IF Covered(r) THEN coverage ELSE IF Comparable(r) THEN r.at ELSE 0

\* The observation becomes the current projection of an existing row.
Newer(row, r) ==
  /\ Succeeded(r)
  /\ \/ r.at # 0 /\ r.at > row.scan /\ r.at >= row.fresh
     \/ r.at = 0 /\ row.scan = 0 /\ row.fresh = 0

ChangeKind(row, dg) ==
  IF row.state = "inferred-resolved" THEN "reopened"
  ELSE IF row.digest # NoDigest /\ row.digest # dg THEN "changed" ELSE "unchanged"

Inserted(r, dg, run) ==
  IF Succeeded(r)
  THEN FindingRow(SourceState(r), r.at, Freshness(r), dg, "new", run, 1)
  ELSE FindingRow(SourceState(r), r.at, Freshness(r), dg, "unchanged", 0, 1)

Fresher(row, r) == IF Freshness(r) > row.fresh THEN Freshness(r) ELSE row.fresh

Updated(row, r, dg, run) ==
  IF Newer(row, r)
  THEN FindingRow(SourceState(r), r.at, Fresher(row, r), dg, ChangeKind(row, dg), run,
                  row.revision + 1)
  ELSE FindingRow(row.state, row.scan, Fresher(row, r), row.digest, row.kind, row.run,
                  row.revision)

\* findingUpsert
Upserted(row, r, dg, run) ==
  IF row.state = "absent" THEN Inserted(r, dg, run) ELSE Updated(row, r, dg, run)

\* A comparable scan newer than the coverage moves it and resolves, in its
\* scope, what it should have seen and did not.
Advances(r) == Comparable(r) /\ r.at > coverage

Resolves(row, r) ==
  /\ Advances(r)
  /\ row.state \notin {"absent", "unknown"}
  /\ row.scan # 0 /\ row.scan < r.at /\ row.fresh < r.at

Resolved(row, r, run) ==
  FindingRow("inferred-resolved", row.scan, r.at, row.digest, "inferred-resolved", run,
             row.revision + 1)

RowAfter(f, r) ==
  LET row == finding[f] IN
  IF r.content[f] # NoDigest THEN Upserted(row, r, r.content[f], runs + 1)
  ELSE IF Resolves(row, r) THEN Resolved(row, r, runs + 1)
  ELSE row

\* observationChange, without the reasons that are only context.
Observation(r, dg, row) ==
  IF ~Succeeded(r) THEN "non-authoritative"
  ELSE IF row.run = runs + 1 THEN row.kind
  ELSE IF (r.at # 0 /\ row.scan # 0 /\ r.at < row.scan) \/ dg # row.digest THEN "historical"
  ELSE "unchanged"

\* reconcile, from the advisory lock to the commit.
Reconcile(r) ==
  LET after == [f \in Identities |-> RowAfter(f, r)]
      seen == {f \in Identities : r.content[f] # NoDigest}
  IN
  /\ finding' = after
  /\ coverage' = IF Advances(r) THEN r.at ELSE coverage
  /\ runs' = runs + 1
  /\ events' = events \cup
       {[identity |-> f, revision |-> after[f].revision, kind |-> after[f].kind] :
          f \in {g \in seen : /\ Comparable(r) /\ after[g].run = runs + 1
                              /\ after[g].kind \in {"new", "changed", "reopened"}}}
  /\ history' = history \cup {r}
  /\ first' = [f \in Identities |->
       IF f \in seen /\ Succeeded(r) /\ first[f] = "none"
       THEN Observation(r, r.content[f], after[f]) ELSE first[f]]

SourceNext == runs < MaxRuns /\ \E r \in Reports : Reconcile(r)

SourceSpec == SourceInit /\ [][SourceNext]_reconcileVars

-----------------------------------------------------------------------------
Rows == [state : States, scan : Nat, fresh : Nat, digest : Digests \cup {NoDigest},
         kind : Changes, run : Nat, revision : Nat]

\* Types of the source columns, of the change events and of the ghost state.
SourceTypeOK ==
  /\ finding \in [Identities -> Rows]
  /\ coverage \in Nat /\ runs \in Nat
  /\ events \subseteq [identity : Identities, revision : Nat, kind : Changes]
  /\ history \subseteq Reports
  /\ first \in [Identities -> Changes \cup {"none", "historical"}]

Reported(f, r) == r.content[f] # NoDigest

\* Whatever the order in which reports were committed, the source state is the
\* one their own times imply: resolved if and only if a later comparable scan
\* missed what the last successful scan saw.  Reports without a time count only
\* until there is one with a time.  The first successful observation of a finding
\* is classified new, however late it comes.  (A finding that a failed scan
\* reported is excluded: its row keeps the time of that scan.)
StateMatchesHistory ==
  \A f \in Identities :
    LET sightings == {r \in history : Reported(f, r)} IN
    (\A r \in sightings : Succeeded(r)) =>
      /\ finding[f].state = "absent" <=> sightings = {}
      /\ finding[f].state = "inferred-resolved" <=>
           /\ \E r \in sightings : r.at # 0
           /\ \E c \in history : Comparable(c) /\ \A r \in sightings : r.at < c.at
      /\ first[f] \in {"none", "new"}

\* A change event names one change: no two events of a finding share a
\* revision, although reports repeat and reorder, and every event belongs to a
\* revision the finding has reached.
EventNamesOneChange ==
  \A e \in events :
    /\ e.revision <= finding[e.identity].revision
    /\ \A d \in events : d.identity = e.identity /\ d.revision = e.revision => d = e

\* A late report never takes authority back: scan time, freshness and coverage
\* never decrease, a finding is reopened only by a scan at least as recent as
\* the coverage, and the projection changes only together with its revision.
LateReportsKeepAuthority ==
  [][/\ coverage' >= coverage
     /\ \A f \in Identities :
          LET old == finding[f]
              new == finding'[f]
          IN
          old.state # "absent" =>
            /\ new.scan >= old.scan /\ new.fresh >= old.fresh
            /\ new.revision \in {old.revision, old.revision + 1}
            /\ new.revision = old.revision =>
                 new.state = old.state /\ new.digest = old.digest /\ new.scan = old.scan
            /\ old.state = "inferred-resolved" /\ new.state # old.state =>
                 new.scan >= coverage /\ new.scan > old.scan]_reconcileVars
=============================================================================
