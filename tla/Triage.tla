------------------------------- MODULE Triage -------------------------------
(***************************************************************************)
(* Human decisions on findings: the single patch, the bulk patch and the   *)
(* note, the merge of findings of different sources into a correlation and *)
(* the split of a member from it, beside the imports that change the       *)
(* evidence of the same rows, the role changes of their users and the      *)
(* requests that take the row of the workspace before one of a finding.    *)
(*                                                                         *)
(* Each request is a transaction that takes its row locks one by one, in   *)
(* the order of the code, and then commits.  A locking SELECT reads its    *)
(* other tables from the snapshot of its start: Ask is that snapshot and   *)
(* Grab the moment the lock is granted, so a request that waited for a row *)
(* goes on with the memberships and the approval it saw before it waited.  *)
(*                                                                         *)
(* Beside the rows of findings, requests lock the membership of their user *)
(* and the workspace: mergeFindings and splitFinding share the membership  *)
(* from the role check on, and the first row of a new group shares the key *)
(* of its workspace; changeUserRole takes both rows for itself, in the     *)
(* other order, and createAssessmentPreview takes the workspace and then   *)
(* shares the key of its finding.                                          *)
(*                                                                         *)
(* Left out are the row of a group, which only a holder of its primary     *)
(* locks, and the memberships of the owners and authors a row refers to    *)
(* and of the submitter of an import.  No other circle passes through      *)
(* these: a role change that has such a membership waits for nobody, and   *)
(* for one that still waits only a merge that makes a group can wait.      *)
(***************************************************************************)
EXTENDS Naturals, Sequences, FiniteSets

CONSTANTS
    Findings,       \* finding ids, a set of numbers; ids are ordered
    SourceOf,       \* the source of a finding
    AssetOf,        \* the asset of a finding
    Clients,        \* users of the API
    Workers,        \* import workers
    Holder,         \* whoever has the row of the workspace for itself
    SourceReports,  \* reports of one source: sequences of its findings
    Keys,           \* idempotency keys
    Patches,        \* inputs of a patch
    Selections,     \* decisions a reviewer selects in a merge or a split
    Bulks,          \* sets of findings a bulk patch selects
    Expiries,       \* expiries a bulk acceptance of risk names; 0 is none
    MaxMembers,     \* members a group may ever have, 64 in the schema
    MaxRequests,    \* bound: requests of clients
    MaxImports,     \* bound: imports applied
    MaxHolds        \* bound: role changes and previews begun

ASSUME TriageAssumption ==
    /\ Findings \subseteq Nat /\ IsFiniteSet(Findings)
    /\ Clients \cap Workers = {} /\ Holder \notin Clients \cup Workers
    /\ SourceReports \subseteq Seq(Findings)
    /\ Bulks \subseteq (SUBSET Findings) \ {{}}

Actors == Clients \cup Workers

VARIABLES
    triaged,    \* findings: work, disp, risk, rev, ev; and the number of notes
    approvals,  \* finding_disposition_approvals, oldest first
    groups,     \* finding_correlations with their members, oldest first
    correlated, \* finding_correlation_events by idempotency key
    txn,        \* the transactions of the actors
    writers,    \* the clients whose role may write: admin or analyst
    holding,    \* the role change or preview that has the workspace's row, if any
    begun       \* transactions begun so far, of each kind

tables == <<triaged, approvals, groups, correlated>>
access == <<writers, holding>>
triageVars == <<triaged, approvals, groups, correlated, txn, writers, holding, begun>>

\* The last entry and the entries of a list, as in SequencesExt, whose other
\* definitions every obligation of the proofs would carry along.
Last(s) == s[Len(s)]
ToSet(s) == {s[i] : i \in DOMAIN s}

-----------------------------------------------------------------------------
(* Decisions: 0 is a missing expiry and "" a missing scope.  A field of a   *)
(* patch is a set: empty when the request leaves it out.                    *)

NoApproval == [rev |-> 0, disp |-> "none", scope |-> "finding", expires |-> 0]

\* The latest approval of a disposition.
LatestOf(disp, approved) ==
    LET mine == SelectSeq(approved, LAMBDA a : a.disp = disp)
    IN  IF mine = <<>> THEN NoApproval ELSE Last(mine)

\* The approval a finding reads.
ApprovalOf(f) == LatestOf(triaged[f].disp, approvals[f])

\* FindingDecision: the row's own columns and what the approval adds.
DecisionOf(row, approval) ==
    [work  |-> row.work,
     disp  |-> row.disp,
     risk  |-> row.risk,
     scope |-> IF row.disp = "none" THEN "" ELSE approval.scope,
     supp  |-> IF row.disp = "suppressed" THEN approval.expires ELSE 0]

Decision(f, approval) == DecisionOf(triaged[f], approval)

Valid(d) ==
    \/ d.disp = "none" /\ d.scope = "" /\ d.risk = 0 /\ d.supp = 0
    \/ d.disp = "accepted-risk" /\ d.scope = "finding" /\ d.supp = 0
    \/ d.disp = "suppressed" /\ d.risk = 0 /\ d.supp > 0
    \/ d.disp = "false-positive" /\ d.scope = "finding" /\ d.risk = 0 /\ d.supp = 0

Set(new, old) == IF new = {} THEN old ELSE CHOOSE v \in new : TRUE
Touched(p) == ~(p.disp = {} /\ p.risk = {} /\ p.scope = {} /\ p.supp = {})

\* applyFindingDecisionPatch from the decision it read to the one it stores; a
\* change of disposition resets what belonged to the old one.
Patched(d, p) ==
    LET disp    == Set(p.disp, d.disp)
        changed == disp # d.disp
        scope   == IF changed /\ p.scope = {}
                   THEN IF disp = "suppressed" THEN "" ELSE "finding"
                   ELSE Set(p.scope, d.scope)
    IN  IF disp = "none" /\ Touched(p)
        THEN [work |-> Set(p.work, d.work), disp |-> "none", risk |-> 0, scope |-> "", supp |-> 0]
        ELSE [work  |-> Set(p.work, d.work),
              disp  |-> disp,
              risk  |-> IF changed /\ disp # "accepted-risk" THEN 0 ELSE Set(p.risk, d.risk),
              scope |-> scope,
              supp  |-> IF changed /\ disp # "suppressed" THEN 0 ELSE Set(p.supp, d.supp)]

ValidPatched(d, p) ==
    /\ Valid(Patched(d, p))
    /\ Patched(d, p).disp = "suppressed" => Patched(d, p).scope # ""

Approval(rev, d) ==
    [rev |-> rev, disp |-> d.disp, scope |-> d.scope,
     expires |-> IF d.disp = "accepted-risk" THEN d.risk ELSE d.supp]

Stored(f, d) ==
    [work |-> d.work, disp |-> d.disp, risk |-> d.risk, rev |-> triaged[f].rev + 1,
     ev |-> triaged[f].ev, notes |-> triaged[f].notes]

-----------------------------------------------------------------------------
(* Correlations: a member is [id, active], the primary is the first member *)

Member(f, active) == [id |-> f, active |-> active]
Group(primary, state, rev, members) ==
    [primary |-> primary, state |-> state, rev |-> rev, members |-> members]

Members(g) == {groups[g].members[i].id : i \in DOMAIN groups[g].members}
ActiveMembers(g) ==
    {groups[g].members[i].id : i \in {j \in DOMAIN groups[g].members :
                                        groups[g].members[j].active = "yes"}}

\* activeCorrelationMeta: the active groups a finding is a member of.
GroupsOf(f) == {g \in DOMAIN groups : groups[g].state = "active" /\ f \in ActiveMembers(g)}

Visible(f) == \A g \in GroupsOf(f) : groups[g].primary = f

\* May this finding join this group?
Joins(f, g) ==
    /\ f \notin Members(g)
    /\ \A m \in ActiveMembers(g) : SourceOf[m] # SourceOf[f]

\* correlationPreview, and what mergeFindings checks of the two locked findings.
Mergeable(p, o) ==
    /\ p # o
    /\ AssetOf[p] = AssetOf[o]
    /\ SourceOf[p] # SourceOf[o]
    /\ GroupsOf(o) = {}
    /\ Visible(p)
    /\ \A g \in GroupsOf(p) : Joins(o, g)

\* activeSplitPreview: the groups this primary can release this member from.
Splittable(p, m) == {g \in GroupsOf(p) : groups[g].primary = p /\ m # p /\ m \in ActiveMembers(g)}

-----------------------------------------------------------------------------
(* Requests and their locks *)

NoRequest == [op |-> "none"]

\* A transaction: its request, the rows it has yet to lock and those it holds,
\* the approval its statement saw, and what it has written.
Txn(phase, req, todo, held, seen, writes) ==
    [phase |-> phase, req |-> req, todo |-> todo, held |-> held, seen |-> seen, writes |-> writes]

Idle(last) == Txn("idle", last, <<>>, {}, NoApproval, <<>>)

\* What a reviewer saw of two findings, and the revisions the request carries.
Reviewed(p, o) ==
    [f \in {p, o} |-> [rev |-> triaged[f].rev, ev |-> triaged[f].ev,
                       decision |-> Decision(f, ApprovalOf(f)), notes |-> triaged[f].notes]]

RevisionOf(p) == IF GroupsOf(p) = {} THEN 0 ELSE groups[CHOOSE g \in GroupsOf(p) : TRUE].rev

\* The lists of these ids, each once.
Lists(ids) == {s \in [1..Cardinality(ids) -> ids] : ToSet(s) = ids}

\* Mutant: the primary is locked first.
LockPrimaryFirst(ids, first) ==
    {s \in Lists(ids) : s[1] = first /\ \A i, j \in DOMAIN s : 1 < i /\ i < j => s[i] < s[j]}

\* slices.Sort of the ids before they are locked: the one list of them that
\* ascends.  first is the id the request names first.
LockOrder(ids, first) ==
    {s \in Lists(ids) : \A i, j \in DOMAIN s : i < j => s[i] < s[j]}

MayBegin(a) ==
    IF a \in Clients THEN begun.requests < MaxRequests ELSE begun.imports < MaxImports

\* The role of the user is read before the transaction begins.
\* orders: the orders in which the transaction may take its rows.
Start(a, phase, req, orders) ==
    /\ txn[a].phase = "idle"
    /\ MayBegin(a)
    /\ a \in Clients => a \in writers
    /\ begun' = IF a \in Clients THEN [begun EXCEPT !.requests = @ + 1]
                                 ELSE [begun EXCEPT !.imports = @ + 1]
    /\ \E todo \in orders :
         txn' = [txn EXCEPT ![a] = Txn(phase, req, todo, {}, NoApproval, <<>>)]
    /\ UNCHANGED <<tables, access>>

\* A merge or split is kept by its client, who may send it again.
Kept(a) ==
    IF txn[a].req.op \in {"merge", "split"} /\ MayBegin(a) THEN txn[a].req ELSE NoRequest

\* Commit or rollback: the locks are released.
End(a) == txn' = [txn EXCEPT ![a] = Idle(Kept(a))]

Rollback(a) == End(a) /\ UNCHANGED <<tables, begun, access>>

BeginPatch(c) ==
    \E f \in Findings, p \in Patches :
        Start(c, "ask", [op |-> "patch", ids |-> {f}, patch |-> p], {<<f>>})

BeginNote(c) ==
    \E f \in Findings : Start(c, "ask", [op |-> "note", ids |-> {f}], {<<f>>})

\* Owner and workflow for a whole selection.
BeginBulk(c) ==
    \E ids \in Bulks, p \in {q \in Patches : ~Touched(q)} :
        Start(c, "ask", [op |-> "bulk", ids |-> ids, patch |-> p],
              LockOrder(ids, CHOOSE f \in ids : TRUE))

\* Accepted risk for a selection, at the revisions that were reviewed.
BeginRisk(c) ==
    \E ids \in Bulks, e \in Expiries :
        Start(c, "ask",
              [op |-> "risk", ids |-> ids, revs |-> [f \in ids |-> triaged[f].rev],
               patch |-> [work |-> {}, disp |-> {"accepted-risk"}, risk |-> {e},
                          scope |-> {"finding"}, supp |-> {}]],
              LockOrder(ids, CHOOSE f \in ids : TRUE))

BeginMerge(c) ==
    \E p, o \in Findings, k \in Keys, d \in Selections :
        /\ Mergeable(p, o)
        /\ Start(c, "key", [op |-> "merge", primary |-> p, other |-> o, key |-> k, decision |-> d,
                            group |-> RevisionOf(p), saw |-> Reviewed(p, o)],
                 LockOrder({p, o}, p))

BeginSplit(c) ==
    \E p, m \in Findings, k \in Keys, d, e \in Selections :
        /\ Splittable(p, m) # {}
        /\ Start(c, "key", [op |-> "split", primary |-> p, other |-> m, key |-> k, decision |-> d,
                            member |-> e, group |-> RevisionOf(p), saw |-> Reviewed(p, m)],
                 LockOrder({p, m}, p))

\* The answer of a merge or split was lost, and the client sends it again.
Resend(c) ==
    /\ txn[c].req.op \in {"merge", "split"}
    /\ LET r == txn[c].req IN Start(c, "key", r, LockOrder({r.primary, r.other}, r.primary))

\* An import of one source upserts its findings in the order of its report.
BeginImport(w) ==
    \E report \in SourceReports : Start(w, "wait", [op |-> "import", ids |-> ToSet(report)], {report})
-----------------------------------------------------------------------------
(* Taking the locks *)

Free(f) == \A b \in Actors : f \notin txn[b].held

\* A merge or split past its role check: it has the advisory lock on its key
\* and shares the membership of its user until it ends.
Admitted(c) == txn[c].phase = "wait" /\ txn[c].req.op \in {"merge", "split"}

KeyFree(k) == \A b \in Clients : Admitted(b) => txn[b].req.key # k

\* The advisory lock on the key, then correlationReplay: a key that was used is
\* answered with the stored group if the request is the same, refused if not.
\* sessionRole shares the membership of the user, whose role must still write.
LockKey(c) ==
    /\ txn[c].phase = "key"
    /\ KeyFree(txn[c].req.key)
    /\ IF correlated[txn[c].req.key] = <<>> /\ c \in writers
       THEN /\ txn' = [txn EXCEPT ![c] = [@ EXCEPT !.phase = "wait"]]
            /\ UNCHANGED <<tables, begun, access>>
       ELSE Rollback(c)

\* The snapshot of the next locking SELECT of a patch or note: a finding that
\* is hidden by its group is not found.
Ask(c) ==
    /\ txn[c].phase = "ask"
    /\ LET t == txn[c]
           f == Head(t.todo)
       IN  IF Visible(f)
           THEN /\ txn' = [txn EXCEPT ![c] =
                       Txn("wait", t.req, t.todo, t.held, ApprovalOf(f), t.writes)]
                /\ UNCHANGED <<tables, begun, access>>
           ELSE Rollback(c)

Edits == {"patch", "bulk", "risk"}

Choice(f, d) == [id |-> f, decision |-> d]

\* The decision a patch starts from: the row as it is once it is locked, with
\* the approval of the snapshot.
Before(c, f) == Decision(f, txn[c].seen)

Refused(c, f) ==
    /\ txn[c].req.op \in Edits
    /\ \/ ~ValidPatched(Before(c, f), txn[c].req.patch)
       \/ txn[c].req.op = "risk" /\ triaged[f].rev # txn[c].req.revs[f]

\* The lock of the next row is granted; a patch is checked and applied in the
\* transaction at once.
Grab(a) ==
    /\ txn[a].phase = "wait"
    /\ txn[a].todo # <<>>
    /\ LET t == txn[a]
           f == Head(t.todo)
           edits == t.req.op \in Edits
       IN  /\ Free(f)
           /\ IF Refused(a, f) THEN Rollback(a)
              ELSE /\ txn' = [txn EXCEPT ![a] =
                        Txn(IF Len(t.todo) > 1 /\ edits THEN "ask" ELSE "wait",
                            t.req, Tail(t.todo), t.held \cup {f}, NoApproval,
                            IF edits THEN Append(t.writes, Choice(f, Patched(Before(a, f), t.req.patch)))
                            ELSE t.writes)]
                   /\ UNCHANGED <<tables, begun, access>>

Ready(a, op) == txn[a].phase = "wait" /\ txn[a].todo = <<>> /\ txn[a].req.op = op

\* Rows with new decisions, each with an approval of it if approve holds.
Write(writes, approve) ==
    LET new(f) == {i \in DOMAIN writes : writes[i].id = f}
        d(f)   == writes[CHOOSE i \in new(f) : TRUE].decision
    IN  /\ triaged' = [f \in Findings |-> IF new(f) = {} THEN triaged[f] ELSE Stored(f, d(f))]
        /\ approvals' = [f \in Findings |->
               IF new(f) # {} /\ d(f).disp # "none" /\ approve
               THEN Append(approvals[f], Approval(triaged[f].rev + 1, d(f)))
               ELSE approvals[f]]

CommitPatch(c) ==
    /\ Ready(c, "patch")
    /\ Write(txn[c].writes, Touched(txn[c].req.patch))
    /\ End(c)
    /\ UNCHANGED <<groups, correlated, begun, access>>

\* Mutant: the selection is not read again before the commit.
CommitBulkUnread(c) ==
    /\ Ready(c, "bulk") \/ Ready(c, "risk")
    /\ Write(txn[c].writes, Touched(txn[c].req.patch))
    /\ End(c)
    /\ UNCHANGED <<groups, correlated, begun, access>>

\* The selection is read again, and every finding of it must still be visible.
CommitBulk(c) ==
    /\ Ready(c, "bulk") \/ Ready(c, "risk")
    /\ IF \A f \in txn[c].req.ids : Visible(f)
       THEN /\ Write(txn[c].writes, Touched(txn[c].req.patch))
            /\ End(c)
            /\ UNCHANGED <<groups, correlated, begun, access>>
       ELSE Rollback(c)

\* Mutant: a note leaves the decision revision alone.
CommitNoteUncounted(c) ==
    /\ Ready(c, "note")
    /\ triaged' = [f \in Findings |->
          IF f \in txn[c].req.ids THEN [triaged[f] EXCEPT !.notes = @ + 1] ELSE triaged[f]]
    /\ End(c)
    /\ UNCHANGED <<approvals, groups, correlated, begun, access>>

CommitNote(c) ==
    /\ Ready(c, "note")
    /\ triaged' = [f \in Findings |->
          IF f \in txn[c].req.ids THEN [triaged[f] EXCEPT !.notes = @ + 1, !.rev = @ + 1]
          ELSE triaged[f]]
    /\ End(c)
    /\ UNCHANGED <<approvals, groups, correlated, begun, access>>

CommitImport(w) ==
    /\ Ready(w, "import")
    /\ triaged' = [f \in Findings |->
          IF f \in txn[w].req.ids THEN [triaged[f] EXCEPT !.ev = @ + 1] ELSE triaged[f]]
    /\ End(w)
    /\ UNCHANGED <<approvals, groups, correlated, begun, access>>

\* The locked rows are at the revisions the reviewer confirmed.
Current(r) ==
    \A f \in {r.primary, r.other} : triaged[f].rev = r.saw[f].rev /\ triaged[f].ev = r.saw[f].ev

\* finding_correlation_events, with the revision of the group as its sequence.
Record(r, g, sequence) ==
    correlated' = [correlated EXCEPT ![r.key] = <<[req |-> r, group |-> g, sequence |-> sequence]>>]

\* Mutant: the decision of a merge is stored without an approval.
MergeUnapproved(c, p, o, g) ==
    /\ Write(<<Choice(p, txn[c].req.decision)>>, FALSE)
    /\ groups' = IF g = 0
                 THEN Append(groups, Group(p, "active", 1, <<Member(p, "yes"), Member(o, "yes")>>))
                 ELSE [groups EXCEPT ![g] = Group(@.primary, @.state, @.rev + 1,
                                                  Append(@.members, Member(o, "yes")))]

\* The decision goes to the primary; the other finding joins its group, which
\* is made if there is none (g = 0).
Merge(c, p, o, g) ==
    /\ Write(<<Choice(p, txn[c].req.decision)>>, TRUE)
    /\ groups' = IF g = 0
                 THEN Append(groups, Group(p, "active", 1, <<Member(p, "yes"), Member(o, "yes")>>))
                 ELSE [groups EXCEPT ![g] = Group(@.primary, @.state, @.rev + 1,
                                                  Append(@.members, Member(o, "yes")))]

\* What mergeFindings checks once it holds both findings.
MergeStands(r) ==
    /\ Current(r)
    /\ Mergeable(r.primary, r.other)
    /\ Valid(r.decision)
    /\ r.group = RevisionOf(r.primary)
    /\ \A g \in GroupsOf(r.primary) : Len(groups[g].members) < MaxMembers

\* A merge that has come to the first row of a new group, which refers to the
\* workspace: it needs the key of the workspace's row, in share.
MakesGroup(c) ==
    /\ Ready(c, "merge")
    /\ MergeStands(txn[c].req)
    /\ GroupsOf(txn[c].req.primary) = {}

CommitMerge(c) ==
    /\ Ready(c, "merge")
    /\ MakesGroup(c) => holding = {}
    /\ LET r == txn[c].req
           p == r.primary
           g == IF GroupsOf(p) = {} THEN 0 ELSE CHOOSE x \in GroupsOf(p) : TRUE
       IN  IF MergeStands(r)
           THEN /\ Merge(c, p, r.other, g)
                /\ IF g = 0 THEN Record(r, Len(groups) + 1, 1) ELSE Record(r, g, groups[g].rev + 1)
                /\ End(c)
                /\ UNCHANGED <<begun, access>>
           ELSE Rollback(c)

Release(g, released) ==
    [i \in DOMAIN groups[g].members |->
        IF groups[g].members[i].id \in released
        THEN Member(groups[g].members[i].id, "no") ELSE groups[g].members[i]]

\* Mutant: only the selected member leaves a group of two.
ReleaseOne(g, m) ==
    groups' = [groups EXCEPT ![g] = Group(@.primary, @.state, @.rev + 1, Release(g, {m}))]

\* The member leaves the group; with only two members left, both do and the
\* group ends.
ReleaseMember(g, m) ==
    LET ends == Cardinality(ActiveMembers(g)) = 2
    IN  groups' = [groups EXCEPT ![g] =
            Group(@.primary, IF ends THEN "split" ELSE @.state, @.rev + 1,
                  Release(g, IF ends THEN ActiveMembers(g) ELSE {m}))]

CommitSplit(c) ==
    /\ Ready(c, "split")
    /\ LET r == txn[c].req
           p == r.primary
       IN  IF /\ Splittable(p, r.other) # {}
              /\ r.group = RevisionOf(p)
              /\ Current(r)
              /\ Valid(r.decision) /\ Valid(r.member)
           THEN \E g \in Splittable(p, r.other) :
                  /\ Write(<<Choice(p, r.decision), Choice(r.other, r.member)>>, TRUE)
                  /\ ReleaseMember(g, r.other)
                  /\ Record(r, g, groups[g].rev + 1)
                  /\ End(c)
                  /\ UNCHANGED <<begun, access>>
           ELSE Rollback(c)

-----------------------------------------------------------------------------
(* changeUserRole and createAssessmentPreview *)

\* Both lock the row of the workspace first; two of them never get past it.
Hold(d) ==
    /\ holding = {}
    /\ begun.holds < MaxHolds
    /\ begun' = [begun EXCEPT !.holds = @ + 1]
    /\ holding' = {d}
    /\ UNCHANGED <<tables, txn, writers>>

BeginChange ==
    \E c \in Clients, role \in {"writer", "viewer"} :
        Hold([op |-> "role", of |-> c, role |-> role])

BeginPreview == \E f \in Findings : Hold([op |-> "preview", of |-> f])

\* What the holder needs next and another has: the membership, which a merge or
\* split of its user shares; the finding, whose lock keeps its key too.
HoldWaits(d, c) ==
    IF d.op = "role" THEN d.of = c /\ Admitted(c) ELSE d.of \in txn[c].held

\* The new role or the preview is stored, and the rows are released.
CommitHold ==
    /\ \E d \in holding :
         /\ \A c \in Clients : ~HoldWaits(d, c)
         /\ writers' = IF d.op # "role" THEN writers
                       ELSE IF d.role = "writer" THEN writers \cup {d.of} ELSE writers \ {d.of}
    /\ holding' = {}
    /\ UNCHANGED <<tables, txn, begun>>

\* It ends without effect: it would demote the last admin, the finding has no
\* such observation, its client went away, or PostgreSQL aborts it in a circle.
DropHold == holding # {} /\ holding' = {} /\ UNCHANGED <<tables, txn, writers, begun>>

-----------------------------------------------------------------------------
(* The database *)

WaitsForRow(a, b) ==
    /\ txn[a].phase = "wait" /\ txn[a].todo # <<>>
    /\ Head(txn[a].todo) \in txn[b].held

WaitsForKey(a, b) ==
    /\ txn[a].phase = "key" /\ b \in Clients /\ b # a
    /\ Admitted(b)
    /\ txn[b].req.key = txn[a].req.key

\* What an actor waits for, and the actors that wait for each other: Holder is
\* the role change or preview under way.
Waits(a, b) ==
    \/ {a, b} \subseteq Actors /\ (WaitsForRow(a, b) \/ WaitsForKey(a, b))
    \/ a \in Clients /\ b = Holder /\ holding # {} /\ MakesGroup(a)
    \/ a = Holder /\ b \in Clients /\ \E d \in holding : HoldWaits(d, b)

Waiting == {a \in Actors \cup {Holder} : \E b \in Actors \cup {Holder} : Waits(a, b)}

Circular(s) == s # {} /\ \A a \in s : \E b \in s : Waits(a, b)

\* PostgreSQL aborts a transaction of a circle of waiting ones.
DeadlockVictim(a) ==
    /\ \E s \in SUBSET Waiting : a \in s /\ Circular(s)
    /\ Rollback(a)

\* The transaction ends without effect for a reason outside the model: the
\* client went away, the worker lost its lease, the chosen expiry has passed,
\* the owner is no member, a bulk acceptance changes nothing.
Cancel(a) == txn[a].phase # "idle" /\ Rollback(a)

TriageInit ==
    /\ triaged = [f \in Findings |-> [work |-> "open", disp |-> "none", risk |-> 0,
                                       rev |-> 1, ev |-> 1, notes |-> 0]]
    /\ approvals = [f \in Findings |-> <<>>]
    /\ groups = <<>>
    /\ correlated = [k \in Keys |-> <<>>]
    /\ txn = [a \in Actors |-> Idle(NoRequest)]
    /\ writers = Clients
    /\ holding = {}
    /\ begun = [requests |-> 0, imports |-> 0, holds |-> 0]

Steps(c) ==
    \/ LockKey(c) \/ Ask(c) \/ Grab(c)
    \/ CommitPatch(c) \/ CommitBulk(c) \/ CommitNote(c) \/ CommitMerge(c) \/ CommitSplit(c)

TriageNext ==
    \/ \E c \in Clients :
         \/ BeginPatch(c) \/ BeginNote(c) \/ BeginBulk(c) \/ BeginRisk(c)
         \/ BeginMerge(c) \/ BeginSplit(c) \/ Resend(c)
         \/ Steps(c)
    \/ \E w \in Workers : BeginImport(w) \/ Grab(w) \/ CommitImport(w)
    \/ BeginChange \/ BeginPreview \/ CommitHold \/ DropHold
    \/ \E a \in Actors : DeadlockVictim(a) \/ Cancel(a)

TriageSpec == TriageInit /\ [][TriageNext]_triageVars

-----------------------------------------------------------------------------
(* Properties *)

\* mergeFindings and splitFinding keep the correlations sound whatever requests
\* cross: an active group has at least two active members, of different
\* sources, its primary among them; a finding is active in one group at most;
\* a group that was split holds nobody.
GroupsAreSound ==
    \A g \in DOMAIN groups :
        IF groups[g].state = "split" THEN ActiveMembers(g) = {}
        ELSE /\ Cardinality(ActiveMembers(g)) >= 2
             /\ groups[g].primary \in ActiveMembers(g)
             /\ \A f \in ActiveMembers(g) : GroupsOf(f) = {g}
             /\ \A e, f \in ActiveMembers(g) : e # f => SourceOf[e] # SourceOf[f]

\* A finding that is accepted, suppressed or a false positive has been approved
\* as that: its latest approval is of this disposition and, for an accepted
\* risk, names the expiry of the row, by whichever of patch, bulk patch, merge
\* and split it came to it.
DispositionIsApproved ==
    \A f \in Findings : triaged[f].disp # "none" =>
        /\ approvals[f] # <<>>
        /\ Last(approvals[f]).disp = triaged[f].disp
        /\ triaged[f].disp = "accepted-risk" => Last(approvals[f]).expires = triaged[f].risk

\* What mergeFindings and splitFinding commit was reviewed, by someone who may
\* still write: the decision, the notes and the evidence of both findings are
\* those the reviewer saw, whatever patches, notes and imports were committed in
\* between, and no role change that took effect has made the reviewer a viewer.
ReviewedIsCurrent ==
    [][\A c \in Clients, k \in Keys :
          correlated[k] # correlated'[k] /\ txn[c].phase # "idle" /\ txn'[c].phase = "idle"
            => /\ c \in writers
               /\ \A f \in {txn[c].req.primary, txn[c].req.other} :
                    Reviewed(f, f)[f] = txn[c].req.saw[f]]_triageVars

\* bulkPatchFindings changes no finding that a merge has hidden meanwhile, and
\* none of a selection when one of it is hidden.
BulkSparesSecondaries ==
    [][\A c \in Clients :
          Ready(c, "bulk") \/ Ready(c, "risk")
            => \A f \in txn[c].req.ids : ~Visible(f) =>
                 \A e \in txn[c].req.ids : triaged'[e] = triaged[e]]_triageVars

\* Sorted locking: patches, notes, merges and splits never wait for each other
\* in a circle.  Two others can close one: an import, which locks in the order
\* of its report, and then holds a row that comes after the one it waits for; and
\* a role change or an assessment preview, which has locked the workspace before
\* the membership or the finding, and then a merge that makes a group is in the
\* circle, for it has both before it needs the workspace.
CirclesAreKnown ==
    \A s \in SUBSET Waiting :
        Circular(s) =>
            \/ Holder \in s /\ \E c \in s \cap Clients : MakesGroup(c)
            \/ \E w \in s \cap Workers, f \in Findings :
                 f \in txn[w].held /\ ~(f < Head(txn[w].todo))
=============================================================================
