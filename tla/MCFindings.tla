----------------------------- MODULE MCFindings -----------------------------
(***************************************************************************)
(* What becomes of a finding, by its source and by its reviewers, each by  *)
(* itself.                                                                 *)
(*                                                                         *)
(* Reconcile: every sequence of three reports over two findings, one of    *)
(* them migrated.                                                          *)
(*                                                                         *)
(* Triage: findings 1, 2 and 4 share an asset and come from different      *)
(* sources; finding 3 is of the source of finding 1 and of another asset.  *)
(* Two requests and an import meet, from nothing or from a group of three. *)
(***************************************************************************)
EXTENDS Reconcile, Triage

VARIABLE part

MCSourceOf == <<"s1", "s2", "s1", "s3">>
MCAssetOf == <<"a1", "a1", "a2", "a1">>
MCReports == {<<3, 1>>, <<2>>}

Field(work, disp, risk, scope, supp) ==
  [work |-> work, disp |-> disp, risk |-> risk, scope |-> scope, supp |-> supp]

MCPatches ==
  {Field({"resolved"}, {}, {}, {}, {}),
   Field({}, {"suppressed"}, {}, {"asset"}, {1})}

Risk == [work |-> "open", disp |-> "accepted-risk", risk |-> 2, scope |-> "finding", supp |-> 0]

MCSelections == {Risk}

\* Finding 4 was merged into finding 2, with a key that is not of Keys, and then
\* finding 1, with k1.
Open == [work |-> "open", disp |-> "none", risk |-> 0, scope |-> "", supp |-> 0]
Earlier ==
  [op |-> "merge", primary |-> 2, other |-> 1, key |-> "k1", decision |-> Risk, group |-> 1,
   saw |-> [f \in {1, 2} |-> [rev |-> f, ev |-> 1, notes |-> 0,
                              decision |-> IF f = 2 THEN Risk ELSE Open]]]

Grouped ==
  /\ triaged = [f \in Findings |->
       [work |-> "open", disp |-> IF f = 2 THEN Risk.disp ELSE "none",
        risk |-> IF f = 2 THEN Risk.risk ELSE 0, rev |-> IF f = 2 THEN 3 ELSE 1,
        ev |-> 1, notes |-> 0]]
  /\ approvals = [f \in Findings |->
       IF f = 2 THEN <<Approval(2, Risk), Approval(3, Risk)>> ELSE <<>>]
  /\ groups = <<[primary |-> 2, state |-> "active", rev |-> 2,
                 members |-> [i \in 1..3 |-> [id |-> <<2, 4, 1>>[i], active |-> "yes"]]]>>
  /\ correlated = [k \in Keys |->
       IF k = "k1" THEN <<[req |-> Earlier, group |-> 1, sequence |-> 2]>> ELSE <<>>]
  /\ txn = [a \in Clients \cup Workers |-> Idle(NoRequest)]
  /\ writers = Clients
  /\ holding = {}
  /\ begun = [requests |-> 0, imports |-> 0, holds |-> 0]

MCInit ==
  /\ SourceInit
  /\ \/ part = "source" /\ TriageInit
     \/ part = "review" /\ (TriageInit \/ Grouped)

\* Clients are alike, and so are unused keys: the first request is of c1, and
\* with k1 if no key was used before.  Findings 3 and 4 are like finding 1 for a
\* patch or a note of one finding.  Reports change the digest of findings that
\* were not migrated.  A role change or a preview meets a merge or a split, and no
\* import, which needs neither the workspace nor a role.
Canonical ==
  /\ \A r \in history, f \in Migrated : r.content[f] \in {NoDigest, OldReport.content[f]}
  /\ begun.requests = 1 =>
       /\ txn["c2"].phase = "idle"
       /\ txn["c1"].req.op = "merge" /\ groups = <<>> => txn["c1"].req.key = "k1"
  /\ \A c \in Clients : txn[c].req.op \in {"patch", "note"} => txn[c].req.ids \subseteq {1, 2}
  /\ begun.holds > 0 =>
       /\ begun.imports = 0
       /\ \E c \in Clients : txn[c].req.op \in {"merge", "split"}

MCNext ==
  /\ \/ part = "source" /\ SourceNext /\ UNCHANGED triageVars
     \/ part = "review" /\ TriageNext /\ UNCHANGED reconcileVars
  /\ UNCHANGED part
  /\ Canonical'

MCSpec == MCInit /\ [][MCNext]_<<reconcileVars, triageVars, part>>

\* A role change or a preview that is over and has left the roles as they were
\* has only used up its bound.
Matters == begun.holds > 0 => holding # {} \/ writers # Clients
=============================================================================
