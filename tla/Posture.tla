------------------------------ MODULE Posture ------------------------------
(***************************************************************************)
(* What the reporting API says of a workspace: the posture overview, the   *)
(* drill-downs behind its numbers, coverage and the remediation SLA, while *)
(* imports, triage and policy changes go on and time passes.               *)
(*                                                                         *)
(* A reader opens an overview (or the SLA summary) and then walks the      *)
(* pages behind one of its numbers; the pages are bound to the as-of time  *)
(* of what is displayed, and to the policy revision for the SLA.  Each     *)
(* read is one repeatable-read transaction, so it is one step.             *)
(***************************************************************************)
EXTENDS Naturals, FiniteSets, Sequences, SequencesExt

CONSTANTS
    MaxFinding,     \* findings are 1..MaxFinding, in the order of their ids
    Reported,       \* for each finding the severity and the day of its first report
    Decisions,      \* triage decisions: workflow, disposition and expiry
    ScanTimes,      \* days of imported scans
    Assets,         \* assets
    Scopes,         \* source, scope, revision and branch of a scan
    Window,         \* freshness window of the reader, in days
    Targets,        \* SLA policies: for each severity the days to remediation
    PageSize,       \* rows of a page
    MaxTime,        \* bound: days
    MaxChanges      \* bound: imports, decisions, merges, splits, policy changes

Findings == 1..MaxFinding
Severities == {"critical", "low"}
Days == 0..MaxTime
Never == MaxTime + 1
Expiring == {"accepted-risk", "suppressed"}

VARIABLES
    now,        \* the clock
    finding,    \* findings, with the expiry of the latest matching approval
    primary,    \* the primary of each finding's active correlation, itself if there is none
    scans,      \* succeeded complete full imports: asset, scope and source_scan_at ({}: unknown)
    policy,     \* report_sla_policies
    changes,    \* changes of the workspace so far
    reader      \* what a client displays and has paged through

postureVars == <<now, finding, primary, scans, policy, changes, reader>>

-----------------------------------------------------------------------------
(* What the queries select *)

\* workVisible: not a secondary member of an active correlation
Visible == {f \in Findings : primary[f] = f}

FindingMetrics ==
    {"findings", "open-findings", "accepted-risk", "expired-accepted-risk", "suppressed",
     "expired-suppression", "false-positive", "inferred-resolved"} \cup Severities

\* Mutant: expiry is judged by the clock, not by the displayed as-of time.
MetricPredicateNow(metric, f, asOf) ==
    LET r == finding[f] IN
    CASE metric = "expired-accepted-risk" -> r.disposition = "accepted-risk" /\ r.expires <= now
      [] metric = "expired-suppression" -> r.disposition = "suppressed" /\ r.expires <= now
      [] metric = "open-findings" -> r.workflow # "resolved"
      [] metric = "inferred-resolved" -> r.source = "inferred-resolved"
      [] metric \in Severities -> r.severity = metric
      [] metric \in Expiring \cup {"false-positive"} -> r.disposition = metric
      [] OTHER -> TRUE

\* findingMetricPredicate
MetricPredicate(metric, f, asOf) ==
    LET r == finding[f] IN
    CASE metric = "expired-accepted-risk" -> r.disposition = "accepted-risk" /\ r.expires <= asOf
      [] metric = "expired-suppression" -> r.disposition = "suppressed" /\ r.expires <= asOf
      [] metric = "open-findings" -> r.workflow # "resolved"
      [] metric = "inferred-resolved" -> r.source = "inferred-resolved"
      [] metric \in Severities -> r.severity = metric
      [] metric \in Expiring \cup {"false-positive"} -> r.disposition = metric
      [] OTHER -> TRUE

\* reportFindingMetrics
MetricRows(metric, asOf) == {f \in Visible : MetricPredicate(metric, f, asOf)}

\* readPosture: the finding totals of an overview
Totals(asOf) ==
    LET count(rows) == Cardinality(rows \cap Visible)
        with(d) == {f \in Findings : finding[f].disposition = d}
        expired == {f \in Findings : finding[f].expires <= asOf}
    IN [metric \in FindingMetrics |->
          CASE metric = "findings" -> count(Findings)
            [] metric = "open-findings" -> count({f \in Findings : finding[f].workflow # "resolved"})
            [] metric = "expired-accepted-risk" -> count(with("accepted-risk") \cap expired)
            [] metric = "expired-suppression" -> count(with("suppressed") \cap expired)
            [] metric = "inferred-resolved" ->
                 count({f \in Findings : finding[f].source = "inferred-resolved"})
            [] metric \in Severities -> count({f \in Findings : finding[f].severity = metric})
            [] OTHER -> count(with(metric))]

\* Mutant: one latest scan for all the scopes of an asset.
SourceScopesMerged(asOf) ==
    LET counted == {s \in scans : \A t \in s.at : t <= asOf}
        times(x) == UNION {s.at : s \in {c \in counted : c.asset = x}}
    IN {[asset |-> s.asset, scope |-> s.scope,
         at |-> IF times(s.asset) = {} THEN {} ELSE {Max(times(s.asset))}] : s \in counted}

\* reportCoverageCTE, source_scopes: the latest known scan of each scope, future ones left out
SourceScopes(asOf) ==
    LET counted == {s \in scans : \A t \in s.at : t <= asOf}
        times(x, p) == UNION {s.at : s \in {c \in counted : c.asset = x /\ c.scope = p}}
    IN {[asset |-> s.asset, scope |-> s.scope,
         at |-> IF times(s.asset, s.scope) = {} THEN {} ELSE {Max(times(s.asset, s.scope))}] : s \in counted}

\* assessed_assets and coverageAssetPredicate
CoverageRows(state, asOf) ==
    LET scopes(x) == {s \in SourceScopes(asOf) : s.asset = x}
    IN CASE state = "scanned" -> {x \in Assets : scopes(x) # {}}
         [] state = "unscanned" -> {x \in Assets : scopes(x) = {}}
         [] state = "stale" -> {x \in Assets : \E s \in scopes(x), t \in Days : s.at = {t} /\ t + Window < asOf}
         [] state = "unknown-freshness" -> {x \in Assets : \E s \in scopes(x) : s.at = {}}

\* remediationSLARowsCTE: the open visible findings and their deadlines; the oldest member of a
\* correlation dates its primary.
Tracked == {f \in Visible : finding[f].workflow # "resolved"}
FirstObserved(f) == Min({finding[g].first : g \in {h \in Findings : primary[h] = f}})
DueAt(f) == FirstObserved(f) + policy.days[finding[f].severity]

SlaRows(status, asOf) ==
    {f \in Tracked : (status = "breached") = (DueAt(f) < asOf)}

-----------------------------------------------------------------------------
NoReader == [view |-> "none", name |-> "none", asOf |-> 0, rev |-> 0, total |-> 0, at |-> 0,
             cursor |-> 0, seen |-> <<>>, steady |-> {}, done |-> "no"]

PostureInit ==
    /\ now = 1
    /\ finding = [f \in Findings |->
                     [severity |-> Reported[f].severity, workflow |-> "open", disposition |-> "none",
                      expires |-> Never, source |-> "active", first |-> Reported[f].first]]
    /\ primary = [f \in Findings |-> f]
    /\ scans = {}
    /\ policy \in [rev : {1}, days : Targets]
    /\ changes = 0
    /\ reader = NoReader

Change == changes < MaxChanges /\ changes' = changes + 1

Tick ==
    /\ now < MaxTime
    /\ now' = now + 1
    /\ UNCHANGED <<finding, primary, scans, policy, changes, reader>>

\* Triage: workflow, or a disposition with the expiry its approval needs.
Decide(f, d) ==
    /\ Change
    /\ d.expires > now
    /\ finding' = [finding EXCEPT ![f].workflow = d.workflow, ![f].disposition = d.disposition,
                                  ![f].expires = d.expires]
    /\ UNCHANGED <<now, primary, scans, policy, reader>>

\* A report changes what its source says of a finding, and the first observation never.
Observe(f, severity, source) ==
    /\ Change
    /\ finding' = [finding EXCEPT ![f].severity = severity, ![f].source = source]
    /\ UNCHANGED <<now, primary, scans, policy, reader>>

\* Merge and split of correlations.
Correlate(f, g) ==
    /\ Change
    /\ f # g /\ primary[f] = f /\ primary[g] = g
    /\ \A h \in Findings \ {g} : primary[h] # g
    /\ primary' = [primary EXCEPT ![g] = f]
    /\ UNCHANGED <<now, finding, scans, policy, reader>>

Separate(g) ==
    /\ Change
    /\ primary[g] # g
    /\ primary' = [primary EXCEPT ![g] = g]
    /\ UNCHANGED <<now, finding, scans, policy, reader>>

\* A succeeded, complete full scan is imported; its time may be unknown or ahead of the clock.
Scan(x, p, at) ==
    /\ Change
    /\ scans' = scans \cup {[asset |-> x, scope |-> p, at |-> at]}
    /\ UNCHANGED <<now, finding, primary, policy, reader>>

\* updateReportSLAPolicy: against the current revision.  The days may be those
\* in force: a new rationale alone makes a revision too.
UpdatePolicy(revision, days) ==
    /\ revision = policy.rev
    /\ Change
    /\ policy' = [rev |-> policy.rev + 1, days |-> days]
    /\ UNCHANGED <<now, finding, primary, scans, reader>>

-----------------------------------------------------------------------------
(* The reader *)

Statuses == {"breached", "within-target"}

\* reportOverview; the reader goes on to the pages of one metric.
OpenOverview(metric) ==
    /\ reader.view = "none"
    /\ reader' = [NoReader EXCEPT !.view = "metric", !.name = metric, !.asOf = now, !.at = changes,
                                  !.total = Totals(now)[metric], !.steady = Findings]
    /\ UNCHANGED <<now, finding, primary, scans, policy, changes>>

\* reportSLA; the reader goes on to the pages of one status.
OpenSla(status) ==
    /\ reader.view = "none"
    /\ reader' = [NoReader EXCEPT !.view = "sla", !.name = status, !.asOf = now, !.at = changes,
                                  !.rev = policy.rev, !.total = Cardinality(SlaRows(status, now)),
                                  !.steady = Findings]
    /\ UNCHANGED <<now, finding, primary, scans, policy, changes>>

\* The rows behind the displayed number, as of the displayed time.
Rows ==
    IF reader.view = "metric" THEN MetricRows(reader.name, reader.asOf)
                              ELSE SlaRows(reader.name, reader.asOf)

\* The ids after the cursor in their order, one more than a page.
Following(rows, cursor) ==
    LET after == SetToSortSeq({f \in rows : f > cursor}, <)
    IN SubSeq(after, 1, Min({Len(after), PageSize + 1}))

\* Mutant: the page's own last row is left for the next page, which starts after it.
NextCursorPast(page) == page[PageSize + 1]

NextCursor(page) == page[PageSize]

\* remediationSLAEvaluationTime: an SLA page of another policy revision is refused.
Bound == reader.view = "sla" => reader.rev = policy.rev

\* reportFindingMetrics, reportSLAFindingPage: the next page.
ReadPage ==
    /\ reader.view # "none" /\ reader.done = "no"
    /\ Bound
    /\ LET page == Following(Rows, reader.cursor)
           items == SubSeq(page, 1, Min({Len(page), PageSize}))
           more == Len(page) > PageSize
       IN reader' = [reader EXCEPT !.seen = @ \o items, !.steady = @ \cap Rows,
                                   !.cursor = IF more THEN NextCursor(page) ELSE 0,
                                   !.done = IF more THEN "no" ELSE "yes"]
    /\ UNCHANGED <<now, finding, primary, scans, policy, changes>>

-----------------------------------------------------------------------------
PostureNext ==
    \/ Tick
    \/ \E f \in Findings, d \in Decisions : Decide(f, d)
    \/ \E f \in Findings, s \in Severities, o \in {"active", "inferred-resolved"} : Observe(f, s, o)
    \/ \E f, g \in Findings : Correlate(f, g)
    \/ \E g \in Findings : Separate(g)
    \/ \E x \in Assets, p \in Scopes, at \in {{}} \cup {{t} : t \in ScanTimes} : Scan(x, p, at)
    \/ \E r \in 1..policy.rev, d \in Targets : UpdatePolicy(r, d)
    \/ \E m \in FindingMetrics : OpenOverview(m)
    \/ \E s \in Statuses : OpenSla(s)
    \/ ReadPage

PostureSpec == PostureInit /\ [][PostureNext]_postureVars

-----------------------------------------------------------------------------
(* Properties *)

\* The pages behind a displayed number hold as many rows as it says for as long as nothing in the
\* workspace changes, however much time passes and whatever expires meanwhile (readPosture,
\* findingMetricPredicate, findingMetricAsOf, remediationSLAEvaluationTime).
PagesMatchTheNumber ==
    reader.view # "none" /\ reader.at = changes /\ Bound => Cardinality(Rows) = reader.total

\* A walk through the pages shows no finding twice, and at its end every finding that was behind
\* the number at each of its reads, although others came and went (reportFindingMetrics,
\* reportSLAFindingPage).
PagesMissNothing ==
    /\ IsInjective(reader.seen)
    /\ reader.done = "yes" => \A f \in reader.steady : Contains(reader.seen, f)

\* The measures mean what they say: an asset is stale if one of its scopes was scanned but not in
\* the freshness window, and a finding is late if one member of its correlation was first observed
\* more than the allowed days ago (reportCoverageCTE, remediationSLARowsCTE).
MeasuresAreExact ==
    /\ \A x \in Assets :
          LET known(p, from) == \E s \in scans : s.asset = x /\ s.scope = p /\ \E t \in from..now : s.at = {t}
          IN x \in CoverageRows("stale", now) <=>
                \E p \in Scopes : known(p, 0) /\ ~\E t \in Days : t + Window >= now /\ known(p, t)
    /\ CoverageRows("stale", now) \cup CoverageRows("unknown-freshness", now)
          \subseteq Assets \ CoverageRows("unscanned", now)
    /\ \A f \in Visible :
          f \in SlaRows("breached", now) <=>
             /\ finding[f].workflow # "resolved"
             /\ \E g \in Findings : primary[g] = f /\ now - finding[g].first > policy.days[finding[f].severity]
=============================================================================
