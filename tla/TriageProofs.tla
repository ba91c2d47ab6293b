---------------------------- MODULE TriageProofs ----------------------------
EXTENDS Triage, TLAPS

-----------------------------------------------------------------------------
(* The inductive invariant of Triage *)

Correlating == {"merge", "split"}
Operations == Edits \cup Correlating \cup {"none", "note", "import"}

IsList(s) == s \in Seq({s[i] : i \in DOMAIN s})

\* The rows a request is about.
Wanted(req) == IF req.op \in Correlating THEN {req.primary, req.other} ELSE req.ids

\* Rows and transactions are records.
RowShape(r) ==
    /\ r = [work |-> r.work, disp |-> r.disp, risk |-> r.risk, rev |-> r.rev, ev |-> r.ev,
            notes |-> r.notes]
    /\ r.rev \in Nat

TxnShape(t) ==
    /\ t = [phase |-> t.phase, req |-> t.req, todo |-> t.todo, held |-> t.held, seen |-> t.seen,
            writes |-> t.writes]
    /\ t.phase \in {"idle", "key", "ask", "wait"}
    /\ t.req.op \in Operations
    /\ t.todo \in Seq(Findings)
    /\ t.held \in SUBSET Findings
    /\ IsList(t.writes)
    /\ t.phase = "idle" => t.req.op \in Correlating \cup {"none"}
    /\ t.req.op \in Correlating => t.req.primary \in Findings /\ t.req.other \in Findings

\* A transaction waits for, or holds, the rows of its request; before its first
\* wait it holds none.
Locking(t) ==
    /\ t.phase \in {"idle", "key"} => t.held = {}
    /\ t.phase # "idle" => ToSet(t.todo) \cup t.held = Wanted(t.req)
    /\ t.phase = "ask" => t.todo # <<>>
    /\ t.phase = "key" => t.req.op \in Correlating

\* It takes them in ascending order.
Ascending(t) ==
    /\ \A i, j \in 1..Len(t.todo) : i < j => t.todo[i] < t.todo[j]
    /\ \A f \in t.held, i \in 1..Len(t.todo) : f < t.todo[i]

\* What a patch has written but not committed is of rows it holds; if it leaves
\* the disposition alone, it keeps that of the row.
WriteInv(x, t, rows) ==
    /\ x.id \in t.held
    /\ ~Touched(t.req.patch) =>
         x.decision.disp = rows[x.id].disp /\ x.decision.risk = rows[x.id].risk

Writing(t, rows) ==
    t.phase # "idle" /\ t.req.op \in Edits =>
        \A i \in DOMAIN t.writes : WriteInv(t.writes[i], t, rows)

\* What a reviewer saw is what there is, unless the revision tells.
SawInv(saw, row, approved) ==
    /\ saw.rev \in Nat /\ saw.rev <= row.rev
    /\ saw.rev = row.rev =>
         saw = [rev |-> row.rev, ev |-> saw.ev,
                decision |-> DecisionOf(row, LatestOf(row.disp, approved)), notes |-> row.notes]

Reviewing(t, rows, approved) ==
    t.req.op \in Correlating =>
        \A f \in {t.req.primary, t.req.other} : SawInv(t.req.saw[f], rows[f], approved[f])

TxnInv(a, t, rows, approved) ==
    /\ TxnShape(t) /\ Locking(t) /\ Writing(t, rows) /\ Reviewing(t, rows, approved)
    /\ a \in Clients => Ascending(t)

Exclusive == \A a, b \in Actors : a # b => txn[a].held \cap txn[b].held = {}

Tables ==
    /\ triaged = [f \in Findings |-> triaged[f]]
    /\ \A f \in Findings : RowShape(triaged[f]) /\ IsList(approvals[f])
    /\ approvals = [f \in Findings |-> approvals[f]]
    /\ txn = [a \in Actors |-> txn[a]]

TInv == Tables /\ Exclusive /\ \A a \in Actors : TxnInv(a, txn[a], triaged, approvals)

-----------------------------------------------------------------------------
\* A list with one more entry.
LEMMA ListAppend ==
  ASSUME NEW s, IsList(s), NEW e
  PROVE  /\ IsList(Append(s, e)) /\ Append(s, e) # <<>> /\ Last(Append(s, e)) = e
         /\ Len(s) \in Nat /\ DOMAIN s = 1..Len(s) /\ DOMAIN Append(s, e) = 1..(Len(s) + 1)
         /\ \A i \in 1..Len(s) : Append(s, e)[i] = s[i]
         /\ Append(s, e)[Len(s) + 1] = e
<1> DEFINE S == {s[i] : i \in DOMAIN s} \cup {e}
           t == Append(s, e)
<1>1. s \in Seq(S)
  BY DEF IsList
<1>2. /\ t \in Seq(S) /\ Len(s) \in Nat /\ Len(t) = Len(s) + 1 /\ DOMAIN s = 1..Len(s)
      /\ DOMAIN t = 1..(Len(s) + 1) /\ t # <<>>
      /\ \A i \in 1..Len(s) : t[i] = s[i]
      /\ t[Len(s) + 1] = e
  BY <1>1
<1>3. t \in Seq({t[i] : i \in DOMAIN t})
  BY <1>2
<1>4. Last(t) = e
  BY Zenon, <1>2 DEF Last
<1> QED
  BY Zenon, <1>2, <1>3, <1>4 DEF IsList

LEMMA EmptyList == IsList(<<>>) /\ DOMAIN <<>> = {} /\ <<>> \in Seq(Findings) /\ ToSet(<<>>) = {}
BY DEF IsList, ToSet

\* A step of one transaction: rows that others look at stay, or tell that they
\* changed.
RowKept(f) == triaged'[f] = triaged[f] /\ approvals'[f] = approvals[f]

RowMoved(f) ==
    LET row == triaged[f]
        new == triaged'[f]
    IN  /\ RowShape(new) /\ IsList(approvals'[f])
        /\ \/ new.rev = row.rev + 1
           \/ /\ approvals'[f] = approvals[f]
              /\ new = [row EXCEPT !.ev = new.ev]

Moved(a) ==
    /\ \A f \in Findings : RowKept(f) \/ (f \in txn[a].held /\ RowMoved(f))
    /\ triaged' = [f \in Findings |-> triaged'[f]]
    /\ approvals' = [f \in Findings |-> approvals'[f]]

LEMMA NothingMoved ==
  ASSUME TInv, UNCHANGED tables, NEW a
  PROVE  Moved(a)
<1>1. triaged' = triaged /\ approvals' = approvals
  BY Zenon DEF tables
<1> QED
  BY Zenon, <1>1 DEF Moved, RowKept, TInv, Tables

\* What was seen of a row that moved.
LEMMA SawMoved ==
  ASSUME NEW f \in Findings, RowShape(triaged[f]), RowMoved(f) \/ RowKept(f), NEW saw,
         SawInv(saw, triaged[f], approvals[f])
  PROVE  SawInv(saw, triaged'[f], approvals'[f])
<1>1. CASE RowKept(f)
  BY Zenon, <1>1 DEF RowKept
<1>2. CASE RowMoved(f)
  <2> PICK row : row = triaged[f]
    BY Zenon
  <2> PICK new : new = triaged'[f]
    BY Zenon
  <2>1. RowShape(row) /\ RowShape(new) /\ saw.rev \in Nat /\ saw.rev <= row.rev
    BY Zenon, <1>2 DEF RowMoved, SawInv
  <2>2. CASE new.rev = row.rev + 1
    BY <2>1, <2>2 DEF SawInv, RowShape
  <2>3. CASE /\ approvals'[f] = approvals[f]
             /\ new = [row EXCEPT !.ev = new.ev]
    <3>1. /\ new.rev = row.rev /\ new.work = row.work /\ new.disp = row.disp /\ new.risk = row.risk
          /\ new.notes = row.notes
      BY Zenon, <2>1, <2>3 DEF RowShape
    <3>2. DecisionOf(new, LatestOf(new.disp, approvals'[f])) = DecisionOf(row, LatestOf(row.disp, approvals[f]))
      BY Zenon, <2>3, <3>1 DEF DecisionOf
    <3> QED
      BY Zenon, <3>1, <3>2 DEF SawInv
  <2> QED
    BY Zenon, <1>2, <2>2, <2>3 DEF RowMoved
<1> QED
  BY Zenon, <1>1, <1>2
\* A transaction keeps what is known of it while another one steps.
LEMMA OthersKept ==
  ASSUME TInv, NEW a \in Actors, NEW b \in Actors, b # a, Moved(a), txn'[b] = txn[b]
  PROVE  TxnInv(b, txn'[b], triaged', approvals')
<1> PICK t : t = txn[b]
  BY Zenon
<1>1. TxnInv(b, t, triaged, approvals) /\ t.held \cap txn[a].held = {}
  BY Zenon DEF TInv, Exclusive
<1>2. TxnShape(t) /\ \A f \in Findings : RowShape(triaged[f])
  BY Zenon, <1>1 DEF TxnInv, TInv, Tables
<1>3. Reviewing(t, triaged', approvals')
  <2> SUFFICES ASSUME t.req.op \in Correlating, NEW f \in {t.req.primary, t.req.other}
               PROVE  SawInv(t.req.saw[f], triaged'[f], approvals'[f])
    BY Zenon DEF Reviewing
  <2>1. f \in Findings
    BY Zenon, <1>2 DEF TxnShape
  <2>2. SawInv(t.req.saw[f], triaged[f], approvals[f])
    BY Zenon, <1>1 DEF TxnInv, Reviewing
  <2> QED
    BY Zenon, <1>2, <2>1, <2>2, SawMoved DEF Moved
<1>4. Writing(t, triaged')
  <2> SUFFICES ASSUME t.phase # "idle", t.req.op \in Edits, NEW i \in DOMAIN t.writes
               PROVE  WriteInv(t.writes[i], t, triaged')
    BY Zenon DEF Writing
  <2> PICK x : x = t.writes[i]
    BY Zenon
  <2>1. WriteInv(x, t, triaged)
    BY Zenon, <1>1 DEF TxnInv, Writing
  <2>2. x.id \in Findings /\ x.id \notin txn[a].held
    BY Zenon, <1>1, <1>2, <2>1 DEF WriteInv, TxnShape
  <2>3. triaged'[x.id] = triaged[x.id]
    BY Zenon, <2>2 DEF Moved, RowKept
  <2> QED
    BY Zenon, <2>1, <2>3 DEF WriteInv
<1> QED
  BY Zenon, <1>1, <1>3, <1>4 DEF TxnInv

\* A step of transaction a to t.
Goes(a, t) ==
    /\ txn' = [txn EXCEPT ![a] = t]
    /\ TxnInv(a, t, triaged', approvals')
    /\ \A b \in Actors : b # a => t.held \cap txn[b].held = {}

LEMMA GoesInv ==
  ASSUME TInv, NEW a \in Actors, NEW t, Goes(a, t), Moved(a)
  PROVE  TInv'
<1>1. txn = [b \in Actors |-> txn[b]] /\ txn' = [txn EXCEPT ![a] = t]
  BY Zenon DEF TInv, Tables, Goes
<1>2. txn'[a] = t /\ \A b \in Actors : b # a => txn'[b] = txn[b]
  BY Zenon, <1>1
<1>3. txn' = [b \in Actors |-> txn'[b]]
  BY Zenon, <1>1
<1>4. \A f \in Findings : RowShape(triaged'[f]) /\ IsList(approvals'[f])
  BY Zenon DEF TInv, Tables, Moved, RowKept, RowMoved
<1>5. Tables'
  BY Zenon, <1>3, <1>4 DEF Tables, Moved
<1>6. Exclusive'
  <2> SUFFICES ASSUME NEW b \in Actors, NEW c \in Actors, b # c
               PROVE  txn'[b].held \cap txn'[c].held = {}
    BY Zenon DEF Exclusive
  <2>1. CASE b = a \/ c = a
    BY Zenon, <1>2, <2>1 DEF Goes
  <2>2. CASE b # a /\ c # a
    BY Zenon, <1>2, <2>2 DEF TInv, Exclusive
  <2> QED
    BY Zenon, <2>1, <2>2
<1>7. \A b \in Actors : TxnInv(b, txn'[b], triaged', approvals')
  BY Zenon, <1>2, OthersKept DEF Goes
<1> QED
  BY Zenon, <1>5, <1>6, <1>7 DEF TInv

\* The end of a transaction, with or without effect.
LEMMA EndInv ==
  ASSUME TInv, NEW a \in Actors, End(a), Moved(a)
  PROVE  TInv'
<1> PICK t : t = txn[a]
  BY Zenon
<1> PICK r : r = Kept(a)
  BY Zenon
<1>1. TxnInv(a, t, triaged, approvals) /\ \A f \in Findings : RowShape(triaged[f])
  BY Zenon DEF TInv, Tables
<1>2. (r = t.req /\ r.op \in Correlating) \/ r = NoRequest
  BY Zenon DEF Kept, Correlating
<1>3. /\ r.op \in Correlating \cup {"none"}
      /\ r.op \in Correlating => r = t.req /\ r.primary \in Findings /\ r.other \in Findings
  BY <1>1, <1>2 DEF NoRequest, Correlating, TxnInv, TxnShape
<1> DEFINE u == Idle(r)
<1>4. /\ u = [phase |-> "idle", req |-> r, todo |-> <<>>, held |-> {}, seen |-> NoApproval,
              writes |-> <<>>]
      /\ u.phase = "idle" /\ u.req = r /\ u.todo = <<>> /\ u.held = {} /\ u.seen = NoApproval
      /\ u.writes = <<>>
  BY Zenon DEF Idle, Txn
<1> HIDE DEF u
<1>5. TxnShape(u)
  BY Zenon, <1>3, <1>4, EmptyList DEF TxnShape, Operations
<1>6. Locking(u) /\ Ascending(u) /\ Writing(u, triaged')
  BY <1>4 DEF Locking, Ascending, Writing
<1>7. Reviewing(u, triaged', approvals')
  <2> SUFFICES ASSUME r.op \in Correlating, NEW f \in {r.primary, r.other}
               PROVE  SawInv(r.saw[f], triaged'[f], approvals'[f])
    BY Zenon, <1>4 DEF Reviewing
  <2>1. f \in Findings /\ r = t.req
    BY Zenon, <1>3
  <2>2. SawInv(r.saw[f], triaged[f], approvals[f])
    BY Zenon, <1>1, <2>1 DEF TxnInv, Reviewing
  <2> QED
    BY Zenon, <1>1, <2>1, <2>2, SawMoved DEF Moved
<1>8. txn' = [txn EXCEPT ![a] = u]
  BY Zenon DEF End, u
<1>9. Goes(a, u)
  BY Zenon, <1>4, <1>5, <1>6, <1>7, <1>8 DEF Goes, TxnInv
<1> QED
  BY Zenon, <1>9, GoesInv

LEMMA RollbackInv ==
  ASSUME TInv, NEW a \in Actors, Rollback(a)
  PROVE  TInv'
<1>1. End(a) /\ UNCHANGED tables
  BY Zenon DEF Rollback, tables
<1> QED
  BY Zenon, <1>1, NothingMoved, EndInv
-----------------------------------------------------------------------------
(* Requests begin *)

\* What is used of finite sets and their sizes.  The lemmas take it as a
\* hypothesis, which SizesHold discharges.
Sizes ==
  /\ \A S : IsFiniteSet(S) => Cardinality(S) \in Nat
  /\ \A S : \A T \in SUBSET S : IsFiniteSet(S) => IsFiniteSet(T)
  /\ \A n \in Nat : \A f : IsFiniteSet({f[i] : i \in 1..n})
  /\ \A e, f : e # f => Cardinality({e, f}) = 2
  /\ \A S, e : IsFiniteSet(S) =>
       /\ Cardinality(S \cup {e}) \in {Cardinality(S), Cardinality(S) + 1}
       /\ e \in S => Cardinality(S \ {e}) = Cardinality(S) - 1

\* The ids in their order.
LEMMA LockOrderFacts ==
  ASSUME Sizes, NEW ids \in SUBSET Findings, NEW first, NEW s \in LockOrder(ids, first)
  PROVE  /\ s \in Seq(Findings) /\ ToSet(s) = ids
         /\ \A i, j \in 1..Len(s) : i < j => s[i] < s[j]
<1>1. Cardinality(ids) \in Nat
  BY Zenon, TriageAssumption DEF Sizes
<1>2. s \in [1..Cardinality(ids) -> Findings] /\ ToSet(s) = ids
  BY Zenon DEF LockOrder, Lists
<1>3. s \in Seq(Findings) /\ DOMAIN s = 1..Len(s)
  BY <1>1, <1>2
<1> QED
  BY Zenon, <1>2, <1>3 DEF LockOrder

\* What a request that begins has to satisfy.
Begins(a, phase, req, orders) ==
    /\ phase \in {"key", "ask", "wait"} /\ req.op \in Operations
    /\ req.op \in Correlating => req.primary \in Findings /\ req.other \in Findings
    /\ phase = "key" => req.op \in Correlating
    /\ req.op \in Correlating =>
         \A f \in {req.primary, req.other} : SawInv(req.saw[f], triaged[f], approvals[f])
    /\ \A s \in orders :
         /\ s \in Seq(Findings) /\ ToSet(s) = Wanted(req)
         /\ phase = "ask" => s # <<>>
         /\ a \in Clients => \A i, j \in 1..Len(s) : i < j => s[i] < s[j]

LEMMA StartInv ==
  ASSUME TInv, NEW a \in Actors, NEW phase, NEW req, NEW orders, Start(a, phase, req, orders),
         Begins(a, phase, req, orders)
  PROVE  TInv'
<1>1. PICK s \in orders :
        txn' = [txn EXCEPT ![a] = Txn(phase, req, s, {}, NoApproval, <<>>)]
  BY Zenon DEF Start
<1>2. UNCHANGED tables
  BY Zenon DEF Start
<1>3. triaged' = triaged /\ approvals' = approvals
  BY Zenon, <1>2 DEF tables
<1> DEFINE t == Txn(phase, req, s, {}, NoApproval, <<>>)
<1>4. /\ t = [phase |-> t.phase, req |-> t.req, todo |-> t.todo, held |-> t.held,
              seen |-> t.seen, writes |-> t.writes]
      /\ t.phase = phase /\ t.req = req /\ t.todo = s /\ t.held = {} /\ t.writes = <<>>
      /\ txn' = [txn EXCEPT ![a] = t]
  BY Zenon, <1>1 DEF Txn
<1> HIDE DEF t
<1>5. TxnShape(t)
  BY Zenon, <1>4, EmptyList DEF TxnShape, Begins
<1>6. Locking(t) /\ Writing(t, triaged')
  BY Zenon, <1>4, EmptyList DEF Locking, Writing, Begins
<1>7. Reviewing(t, triaged', approvals')
  BY Zenon, <1>3, <1>4 DEF Reviewing, Begins
<1>8. a \in Clients => Ascending(t)
  BY Zenon, <1>4 DEF Ascending, Begins
<1>9. Goes(a, t)
  BY Zenon, <1>4, <1>5, <1>6, <1>7, <1>8 DEF Goes, TxnInv
<1> QED
  BY Zenon, <1>2, <1>9, GoesInv, NothingMoved

\* Requests on findings as they are.
LEMMA BeginPlainInv ==
  ASSUME TInv, Sizes, NEW c \in Clients, BeginPatch(c) \/ BeginNote(c) \/ BeginBulk(c) \/ BeginRisk(c)
  PROVE  TInv'
<1> USE DEF Operations, Correlating, Edits
<1>0. c \in Actors
  BY Zenon DEF Actors
<1>1. ASSUME NEW req, NEW f \in Findings, req.op \in {"patch", "note"}, req.ids = {f},
             Start(c, "ask", req, {<<f>>})
      PROVE  TInv'
  <2>1. <<f>> \in Seq(Findings) /\ ToSet(<<f>>) = {f} /\ <<f>> # <<>> /\ Len(<<f>>) = 1
    BY DEF ToSet
  <2>2. Begins(c, "ask", req, {<<f>>})
    BY <1>1, <2>1 DEF Begins, Wanted
  <2> QED
    BY Zenon, <1>0, <1>1, <2>2, StartInv
<1>2. ASSUME NEW req, NEW ids \in Bulks, NEW first, req.op \in {"bulk", "risk"}, req.ids = ids,
             Start(c, "ask", req, LockOrder(ids, first))
      PROVE  TInv'
  <2>1. ids \in SUBSET Findings /\ ids # {}
    BY Zenon, TriageAssumption
  <2>2. \A s \in LockOrder(ids, first) :
          /\ s \in Seq(Findings) /\ ToSet(s) = ids
          /\ \A i, j \in 1..Len(s) : i < j => s[i] < s[j]
    BY Zenon, <2>1, LockOrderFacts
  <2>3. \A s \in LockOrder(ids, first) : s # <<>>
    BY Zenon, <2>1, <2>2, EmptyList
  <2>4. Begins(c, "ask", req, LockOrder(ids, first))
    BY Zenon, <1>2, <2>2, <2>3 DEF Begins, Wanted
  <2> QED
    BY Zenon, <1>0, <1>2, <2>4, StartInv
<1>3. CASE BeginPatch(c)
  <2>1. PICK f \in Findings, p \in Patches :
          Start(c, "ask", [op |-> "patch", ids |-> {f}, patch |-> p], {<<f>>})
    BY Zenon, <1>3 DEF BeginPatch
  <2> DEFINE req == [op |-> "patch", ids |-> {f}, patch |-> p]
  <2>2. req.op = "patch" /\ req.ids = {f} /\ Start(c, "ask", req, {<<f>>})
    BY Zenon, <2>1
  <2> HIDE DEF req
  <2> QED
    BY Zenon, <1>1, <2>2
<1>4. CASE BeginNote(c)
  <2>1. PICK f \in Findings : Start(c, "ask", [op |-> "note", ids |-> {f}], {<<f>>})
    BY Zenon, <1>4 DEF BeginNote
  <2> DEFINE req == [op |-> "note", ids |-> {f}]
  <2>2. req.op = "note" /\ req.ids = {f} /\ Start(c, "ask", req, {<<f>>})
    BY Zenon, <2>1
  <2> HIDE DEF req
  <2> QED
    BY Zenon, <1>1, <2>2
<1>5. CASE BeginBulk(c)
  <2>1. PICK ids \in Bulks, p \in {q \in Patches : ~Touched(q)} :
          Start(c, "ask", [op |-> "bulk", ids |-> ids, patch |-> p],
                LockOrder(ids, CHOOSE f \in ids : TRUE))
    BY Zenon, <1>5 DEF BeginBulk
  <2> DEFINE req == [op |-> "bulk", ids |-> ids, patch |-> p]
  <2>2. /\ req.op = "bulk" /\ req.ids = ids
        /\ Start(c, "ask", req, LockOrder(ids, CHOOSE f \in ids : TRUE))
    BY Zenon, <2>1
  <2> HIDE DEF req
  <2> QED
    BY <1>2, <2>2
<1>6. CASE BeginRisk(c)
  <2>1. PICK ids \in Bulks, e \in Expiries :
          Start(c, "ask",
                [op |-> "risk", ids |-> ids, revs |-> [f \in ids |-> triaged[f].rev],
                 patch |-> [work |-> {}, disp |-> {"accepted-risk"}, risk |-> {e},
                            scope |-> {"finding"}, supp |-> {}]],
                LockOrder(ids, CHOOSE f \in ids : TRUE))
    BY Zenon, <1>6 DEF BeginRisk
  <2> DEFINE req == [op |-> "risk", ids |-> ids, revs |-> [f \in ids |-> triaged[f].rev],
                     patch |-> [work |-> {}, disp |-> {"accepted-risk"}, risk |-> {e},
                                scope |-> {"finding"}, supp |-> {}]]
  <2>2. /\ req.op = "risk" /\ req.ids = ids
        /\ Start(c, "ask", req, LockOrder(ids, CHOOSE f \in ids : TRUE))
    BY Zenon, <2>1
  <2> HIDE DEF req
  <2> QED
    BY <1>2, <2>2
<1> QED
  BY Zenon, <1>3, <1>4, <1>5, <1>6
\* Requests on a reviewed pair: what the reviewer saw is the current state.
LEMMA BeginPairInv ==
  ASSUME TInv, Sizes, NEW c \in Clients, BeginMerge(c) \/ BeginSplit(c) \/ Resend(c)
  PROVE  TInv'
<1>0. c \in Actors
  BY Zenon DEF Actors
<1>1. ASSUME NEW req, req.op \in Correlating, req.primary \in Findings, req.other \in Findings,
             \A f \in {req.primary, req.other} : SawInv(req.saw[f], triaged[f], approvals[f]),
             Start(c, "key", req, LockOrder({req.primary, req.other}, req.primary))
      PROVE  TInv'
  <2> DEFINE ids == {req.primary, req.other}
  <2>1. ids \in SUBSET Findings
    BY Zenon, <1>1
  <2>2. \A s \in LockOrder(ids, req.primary) :
          /\ s \in Seq(Findings) /\ ToSet(s) = ids
          /\ \A i, j \in 1..Len(s) : i < j => s[i] < s[j]
    BY Zenon, <2>1, LockOrderFacts
  <2>3. Wanted(req) = ids
    BY Zenon, <1>1 DEF Wanted
  <2> HIDE DEF ids
  <2>4. Begins(c, "key", req, LockOrder(ids, req.primary))
    <3>1. req.op \in Operations
      BY Zenon, <1>1 DEF Operations
    <3> QED
      BY Zenon, <1>1, <2>2, <2>3, <3>1 DEF Begins
  <2> QED
    BY Zenon, <1>0, <1>1, <2>4, StartInv DEF ids
<1>2. ASSUME NEW p \in Findings, NEW o \in Findings, NEW f \in {p, o}
      PROVE  SawInv(Reviewed(p, o)[f], triaged[f], approvals[f])
  <2>1. RowShape(triaged[f])
    BY Zenon, <1>2 DEF TInv, Tables
  <2> PICK saw : saw = Reviewed(p, o)[f]
    BY Zenon
  <2>2. saw = [rev |-> triaged[f].rev, ev |-> triaged[f].ev,
               decision |-> Decision(f, ApprovalOf(f)), notes |-> triaged[f].notes]
    BY Zenon DEF Reviewed
  <2>3. saw.rev = triaged[f].rev /\ saw.ev = triaged[f].ev /\ triaged[f].rev \in Nat
    BY <2>1, <2>2 DEF RowShape
  <2>4. Decision(f, ApprovalOf(f)) = DecisionOf(triaged[f], LatestOf(triaged[f].disp, approvals[f]))
    BY Zenon DEF Decision, ApprovalOf
  <2> QED
    BY <2>2, <2>3, <2>4 DEF SawInv
<1>3. CASE BeginMerge(c)
  <2>1. PICK p \in Findings, o \in Findings, k \in Keys, d \in Selections :
          Start(c, "key", [op |-> "merge", primary |-> p, other |-> o, key |-> k, decision |-> d,
                           group |-> RevisionOf(p), saw |-> Reviewed(p, o)], LockOrder({p, o}, p))
    BY Zenon, <1>3 DEF BeginMerge
  <2> DEFINE req == [op |-> "merge", primary |-> p, other |-> o, key |-> k, decision |-> d,
                     group |-> RevisionOf(p), saw |-> Reviewed(p, o)]
  <2>2. /\ req.op = "merge" /\ req.primary = p /\ req.other = o /\ req.saw = Reviewed(p, o)
        /\ Start(c, "key", req, LockOrder({p, o}, p))
    BY Zenon, <2>1
  <2> HIDE DEF req
  <2>3. req.op \in Correlating
    BY Zenon, <2>2 DEF Correlating
  <2> QED
    BY Zenon, <1>1, <1>2, <2>2, <2>3
<1>4. CASE BeginSplit(c)
  <2>1. PICK p \in Findings, o \in Findings, k \in Keys, d \in Selections, e \in Selections :
          Start(c, "key", [op |-> "split", primary |-> p, other |-> o, key |-> k, decision |-> d,
                           member |-> e, group |-> RevisionOf(p), saw |-> Reviewed(p, o)],
                LockOrder({p, o}, p))
    BY Zenon, <1>4 DEF BeginSplit
  <2> DEFINE req == [op |-> "split", primary |-> p, other |-> o, key |-> k, decision |-> d,
                     member |-> e, group |-> RevisionOf(p), saw |-> Reviewed(p, o)]
  <2>2. /\ req.op = "split" /\ req.primary = p /\ req.other = o /\ req.saw = Reviewed(p, o)
        /\ Start(c, "key", req, LockOrder({p, o}, p))
    BY Zenon, <2>1
  <2> HIDE DEF req
  <2>3. req.op \in Correlating
    BY Zenon, <2>2 DEF Correlating
  <2> QED
    BY Zenon, <1>1, <1>2, <2>2, <2>3
<1>5. CASE Resend(c)
  <2> PICK t : t = txn[c]
    BY Zenon
  <2> PICK req : req = t.req
    BY Zenon
  <2>1. /\ req.op \in Correlating
        /\ Start(c, "key", req, LockOrder({req.primary, req.other}, req.primary))
    BY Zenon, <1>5 DEF Resend, Correlating
  <2>2. TxnInv(c, t, triaged, approvals)
    BY Zenon, <1>0 DEF TInv
  <2>3. req.primary \in Findings /\ req.other \in Findings
    BY Zenon, <2>1, <2>2 DEF TxnInv, TxnShape
  <2>4. \A f \in {req.primary, req.other} : SawInv(req.saw[f], triaged[f], approvals[f])
    BY Zenon, <2>1, <2>2 DEF TxnInv, Reviewing
  <2> QED
    BY Zenon, <1>1, <2>1, <2>3, <2>4
<1> QED
  BY Zenon, <1>3, <1>4, <1>5

LEMMA BeginImportInv ==
  ASSUME TInv, NEW w \in Workers, BeginImport(w)
  PROVE  TInv'
<1>0. w \in Actors /\ w \notin Clients
  BY Zenon, TriageAssumption DEF Actors
<1>1. PICK s \in SourceReports : Start(w, "wait", [op |-> "import", ids |-> ToSet(s)], {s})
  BY Zenon DEF BeginImport
<1> DEFINE req == [op |-> "import", ids |-> ToSet(s)]
<1>2. req.op = "import" /\ req.ids = ToSet(s) /\ s \in Seq(Findings)
  BY Zenon, TriageAssumption
<1>3. Start(w, "wait", req, {s})
  BY Zenon, <1>1
<1> HIDE DEF req
<1>4. Begins(w, "wait", req, {s})
  BY Zenon, <1>0, <1>2 DEF Begins, Wanted, Operations, Correlating
<1> QED
  BY Zenon, <1>0, <1>3, <1>4, StartInv

-----------------------------------------------------------------------------
(* Locks are taken *)

LEMMA LockKeyInv ==
  ASSUME TInv, NEW c \in Clients, LockKey(c)
  PROVE  TInv'
<1>0. c \in Actors
  BY Zenon DEF Actors
<1>1. CASE Rollback(c)
  BY Zenon, <1>0, <1>1, RollbackInv
<1>2. CASE ~Rollback(c)
  <2> PICK t : t = txn[c]
    BY Zenon
  <2> DEFINE u == [t EXCEPT !.phase = "wait"]
  <2>1. t.phase = "key" /\ UNCHANGED tables /\ txn' = [txn EXCEPT ![c] = u]
    BY Zenon, <1>2 DEF LockKey, tables
  <2>2. TxnInv(c, t, triaged, approvals) /\ TxnShape(t)
    BY Zenon, <1>0 DEF TInv, TxnInv
  <2>3. /\ u.phase = "wait" /\ u.req = t.req /\ u.todo = t.todo /\ u.held = t.held
        /\ u.seen = t.seen /\ u.writes = t.writes
        /\ u = [phase |-> u.phase, req |-> u.req, todo |-> u.todo, held |-> u.held,
                seen |-> u.seen, writes |-> u.writes]
    BY <2>2 DEF TxnShape
  <2> HIDE DEF u
  <2>4. triaged' = triaged /\ approvals' = approvals
    BY Zenon, <2>1 DEF tables
  <2>5. TxnShape(u)
    BY Zenon, <2>2, <2>3 DEF TxnShape
  <2>6. Locking(u) /\ u.req.op \notin Edits
    BY Zenon, <2>1, <2>2, <2>3 DEF TxnInv, Locking, Edits, Correlating
  <2>7. Writing(u, triaged') /\ Reviewing(u, triaged', approvals') /\ Ascending(u)
    BY Zenon, <2>2, <2>3, <2>4, <2>6 DEF TxnInv, Writing, Reviewing, Ascending
  <2>8. \A b \in Actors : b # c => u.held \cap txn[b].held = {}
    BY Zenon, <1>0, <2>3 DEF TInv, Exclusive
  <2>9. Goes(c, u)
    BY Zenon, <2>1, <2>5, <2>6, <2>7, <2>8 DEF Goes, TxnInv
  <2> QED
    BY Zenon, <1>0, <2>1, <2>9, GoesInv, NothingMoved
<1> QED
  BY Zenon, <1>1, <1>2

LEMMA AskInv ==
  ASSUME TInv, NEW c \in Clients, Ask(c)
  PROVE  TInv'
<1>0. c \in Actors
  BY Zenon DEF Actors
<1>1. CASE Rollback(c)
  BY Zenon, <1>0, <1>1, RollbackInv
<1>2. CASE ~Rollback(c)
  <2> PICK t : t = txn[c]
    BY Zenon
  <2> PICK seen : seen = ApprovalOf(Head(t.todo))
    BY Zenon
  <2> DEFINE u == Txn("wait", t.req, t.todo, t.held, seen, t.writes)
  <2>1. t.phase = "ask" /\ UNCHANGED tables /\ txn' = [txn EXCEPT ![c] = u]
    BY Zenon, <1>2 DEF Ask, tables
  <2>2. TxnInv(c, t, triaged, approvals) /\ TxnShape(t)
    BY Zenon, <1>0 DEF TInv, TxnInv
  <2> HIDE DEF u
  <2>3. /\ u.phase = "wait" /\ u.req = t.req /\ u.todo = t.todo /\ u.held = t.held
        /\ u.writes = t.writes
        /\ u = [phase |-> u.phase, req |-> u.req, todo |-> u.todo, held |-> u.held,
                seen |-> u.seen, writes |-> u.writes]
    BY Zenon DEF u, Txn
  <2>4. triaged' = triaged /\ approvals' = approvals
    BY Zenon, <2>1 DEF tables
  <2>5. TxnShape(u)
    BY Zenon, <2>2, <2>3 DEF TxnShape
  <2>6. Locking(u)
    BY Zenon, <2>1, <2>2, <2>3 DEF TxnInv, Locking
  <2>7. Reviewing(u, triaged', approvals') /\ Ascending(u)
    BY Zenon, <2>2, <2>3, <2>4 DEF TxnInv, Reviewing, Ascending
  <2>8. Writing(u, triaged')
    BY <2>1, <2>2, <2>3, <2>4 DEF TxnInv, Writing, WriteInv
  <2>9. \A b \in Actors : b # c => u.held \cap txn[b].held = {}
    BY Zenon, <1>0, <2>3 DEF TInv, Exclusive
  <2>10. Goes(c, u)
    BY Zenon, <2>1, <2>5, <2>6, <2>7, <2>8, <2>9 DEF Goes, TxnInv
  <2> QED
    BY Zenon, <1>0, <2>1, <2>10, GoesInv, NothingMoved
<1> QED
  BY Zenon, <1>1, <1>2
LEMMA TodoFacts ==
  ASSUME NEW s \in Seq(Findings), s # <<>>
  PROVE  /\ Head(s) \in Findings /\ Tail(s) \in Seq(Findings)
         /\ ToSet(s) = {Head(s)} \cup ToSet(Tail(s))
         /\ Len(s) > 1 => Tail(s) # <<>>
         /\ Head(s) = s[1] /\ Len(s) \in Nat /\ Len(s) >= 1
         /\ Len(Tail(s)) \in Nat /\ Len(s) = Len(Tail(s)) + 1
         /\ \A i \in 1..Len(Tail(s)) : i + 1 \in 1..Len(s) /\ Tail(s)[i] = s[i + 1]
<1>01. /\ s = [i \in 1..Len(s) |-> s[i]] /\ Len(s) \in Nat /\ DOMAIN s = 1..Len(s)
       /\ \A i \in 1..Len(s) : s[i] \in Findings
  OBVIOUS
<1>02. Len(s) >= 1
  BY <1>01
<1>03. Head(s) = s[1]
  OBVIOUS
<1>04. /\ Tail(s) \in Seq(Findings) /\ Len(Tail(s)) \in Nat /\ Len(s) = Len(Tail(s)) + 1
       /\ DOMAIN Tail(s) = 1..Len(Tail(s))
  BY <1>01, <1>02
<1>05. \A i \in 1..Len(Tail(s)) : Tail(s)[i] = s[i + 1]
  BY <1>02
<1>06. Len(<<>>) = 0
  BY Zenon
<1>1. /\ Head(s) \in Findings /\ Tail(s) \in Seq(Findings)
      /\ Len(s) > 1 => Tail(s) # <<>>
      /\ Head(s) = s[1] /\ Len(s) \in Nat /\ Len(s) >= 1 /\ DOMAIN s = 1..Len(s)
      /\ DOMAIN Tail(s) = 1..Len(Tail(s))
      /\ Len(Tail(s)) \in Nat /\ Len(s) = Len(Tail(s)) + 1
      /\ \A i \in 1..Len(Tail(s)) : i + 1 \in 1..Len(s) /\ Tail(s)[i] = s[i + 1]
  <2> PICK n, m, r : n = Len(s) /\ m = Len(r) /\ r = Tail(s)
    BY Zenon
  <2>1. /\ n \in Nat /\ n >= 1 /\ m \in Nat /\ n = m + 1
        /\ \A i \in 1..m : r[i] = s[i + 1]
        /\ r = <<>> => m = 0
        /\ s[1] = Head(s) /\ \A i \in 1..n : s[i] \in Findings
    BY Zenon, <1>01, <1>02, <1>03, <1>04, <1>05, <1>06
  <2>2. /\ s[1] \in Findings /\ (n > 1 => r # <<>>)
        /\ \A i \in 1..m : i + 1 \in 1..n /\ r[i] = s[i + 1]
    BY <2>1
  <2> QED
    BY Zenon, <1>01, <1>03, <1>04, <2>1, <2>2
<1>2. ASSUME NEW f \in ToSet(s) PROVE f \in {Head(s)} \cup ToSet(Tail(s))
  <2>1. PICK i \in 1..Len(s) : f = s[i]
    BY Zenon, <1>1, <1>2 DEF ToSet
  <2>2. CASE i = 1
    BY Zenon, <1>1, <2>1, <2>2
  <2>3. CASE i # 1
    <3>1. i - 1 \in 1..Len(Tail(s)) /\ s[i] = Tail(s)[i - 1]
      BY <1>1, <2>3
    <3> QED
      BY Zenon, <1>1, <2>1, <3>1 DEF ToSet
  <2> QED
    BY Zenon, <2>2, <2>3
<1>3. ASSUME NEW f \in {Head(s)} \cup ToSet(Tail(s)) PROVE f \in ToSet(s)
  <2>1. CASE f = Head(s)
    <3>1. 1 \in DOMAIN s /\ f = s[1]
      BY <1>1, <2>1
    <3> QED
      BY Zenon, <3>1 DEF ToSet
  <2>2. CASE f \in ToSet(Tail(s))
    <3>1. PICK i \in 1..Len(Tail(s)) : f = Tail(s)[i]
      BY Zenon, <1>1, <2>2 DEF ToSet
    <3>2. i + 1 \in DOMAIN s /\ f = s[i + 1]
      BY Zenon, <1>1, <3>1
    <3> QED
      BY Zenon, <3>2 DEF ToSet
  <2> QED
    BY Zenon, <1>3, <2>1, <2>2
<1> QED
  BY Zenon, <1>1, <1>2, <1>3

\* A patch that leaves disposition, risk, scope and suppression alone keeps the
\* disposition and the risk.
LEMMA UntouchedKeeps ==
  ASSUME NEW d, NEW p, ~Touched(p)
  PROVE  Patched(d, p).disp = d.disp /\ Patched(d, p).risk = d.risk
<1>1. p.disp = {} /\ p.risk = {}
  BY Zenon DEF Touched
<1>2. Set(p.disp, d.disp) = d.disp /\ Set(p.risk, d.risk) = d.risk
  BY Zenon, <1>1 DEF Set
<1> QED
  BY Zenon, <1>2 DEF Patched

LEMMA GrabInv ==
  ASSUME TInv, NEW a \in Actors, Grab(a)
  PROVE  TInv'
<1>1. CASE Rollback(a)
  BY Zenon, <1>1, RollbackInv
<1>2. CASE ~Rollback(a)
  <2> PICK t : t = txn[a]
    BY Zenon
  <2> PICK f : f = Head(t.todo)
    BY Zenon
  <2> DEFINE d == Patched(Before(a, f), t.req.patch)
  <2>01. PICK p : p = (IF Len(t.todo) > 1 /\ t.req.op \in Edits THEN "ask" ELSE "wait")
    BY Zenon
  <2>02. PICK w : w = (IF t.req.op \in Edits THEN Append(t.writes, Choice(f, d)) ELSE t.writes)
    BY Zenon
  <2> DEFINE u == Txn(p, t.req, Tail(t.todo), t.held \cup {f}, NoApproval, w)
  <2>1. t.phase = "wait" /\ t.todo # <<>> /\ Free(f) /\ UNCHANGED tables
    BY Zenon, <1>2 DEF Grab, tables
  <2>2. txn' = [txn EXCEPT ![a] = u]
    BY Zenon, <1>2, <2>01, <2>02 DEF Grab
  <2>3. /\ u.phase = p /\ u.req = t.req /\ u.todo = Tail(t.todo) /\ u.held = t.held \cup {f}
        /\ u.writes = w
        /\ u = [phase |-> u.phase, req |-> u.req, todo |-> u.todo, held |-> u.held,
                seen |-> u.seen, writes |-> u.writes]
    BY Zenon DEF Txn
  <2> HIDE DEF u
  <2>4. TxnInv(a, t, triaged, approvals) /\ TxnShape(t) /\ Locking(t)
    BY Zenon DEF TInv, TxnInv
  <2>5. triaged' = triaged /\ approvals' = approvals
    BY Zenon, <2>1 DEF tables
  <2>6. t.todo \in Seq(Findings) /\ IsList(t.writes) /\ t.held \in SUBSET Findings
    BY Zenon, <2>4 DEF TxnShape
  <2>7. /\ f \in Findings /\ Tail(t.todo) \in Seq(Findings)
        /\ ToSet(t.todo) = {f} \cup ToSet(Tail(t.todo))
        /\ Len(t.todo) > 1 => Tail(t.todo) # <<>>
    BY Zenon, <2>1, <2>6, TodoFacts
  <2>8. IsList(w)
    BY Zenon, <2>02, <2>6, ListAppend
  <2>9. p \in {"ask", "wait"} /\ (p = "ask" => Len(t.todo) > 1)
    BY Zenon, <2>01
  <2>10. TxnShape(u)
    BY Zenon, <2>3, <2>4, <2>6, <2>7, <2>8, <2>9 DEF TxnShape
  <2>11. Locking(u)
    BY Zenon, <2>1, <2>3, <2>4, <2>7, <2>9 DEF Locking
  <2>12. Reviewing(u, triaged', approvals')
    BY Zenon, <2>3, <2>4, <2>5 DEF TxnInv, Reviewing
  <2>13. Writing(u, triaged')
    <3> SUFFICES ASSUME t.req.op \in Edits, NEW i \in DOMAIN w
                 PROVE  WriteInv(w[i], u, triaged)
      BY Zenon, <2>3, <2>5 DEF Writing
    <3>1. w = Append(t.writes, Choice(f, d))
      BY Zenon, <2>02
    <3> HIDE DEF d
    <3>2. /\ Len(t.writes) \in Nat /\ DOMAIN t.writes = 1..Len(t.writes)
          /\ DOMAIN w = 1..(Len(t.writes) + 1)
          /\ \A j \in 1..Len(t.writes) : w[j] = t.writes[j]
          /\ w[Len(t.writes) + 1] = Choice(f, d)
      BY <2>6, <3>1, ListAppend
    <3>3. CASE i \in DOMAIN t.writes
      <4> PICK x : x = t.writes[i]
        BY Zenon
      <4>1. WriteInv(x, t, triaged) /\ w[i] = x
        BY Zenon, <2>1, <2>4, <3>2, <3>3 DEF TxnInv, Writing
      <4> QED
        BY Zenon, <2>3, <4>1 DEF WriteInv
    <3>4. CASE i = Len(t.writes) + 1
      <4>1. w[i] = Choice(f, d)
        BY Zenon, <3>2, <3>4
      <4>2. Choice(f, d).id = f /\ Choice(f, d).decision = d
        BY Zenon DEF Choice
      <4>3. Before(a, f).disp = triaged[f].disp /\ Before(a, f).risk = triaged[f].risk
        BY Zenon DEF Before, Decision, DecisionOf
      <4>4. ~Touched(t.req.patch) => d.disp = triaged[f].disp /\ d.risk = triaged[f].risk
        BY <4>3, UntouchedKeeps DEF d
      <4> QED
        BY Zenon, <2>3, <4>1, <4>2, <4>4 DEF WriteInv
    <3> QED
      BY <3>2, <3>3, <3>4
  <2>14. a \in Clients => Ascending(u)
    <3> SUFFICES ASSUME a \in Clients PROVE Ascending(u)
      BY Zenon
    <3>1. Ascending(t)
      BY Zenon, <2>4 DEF TxnInv
    <3> PICK s, r, n, m : s = t.todo /\ r = Tail(s) /\ n = Len(s) /\ m = Len(r)
      BY Zenon
    <3>2. /\ f = s[1] /\ n \in Nat /\ n >= 1 /\ m \in Nat /\ n = m + 1
          /\ \A i \in 1..m : i + 1 \in 1..n /\ r[i] = s[i + 1]
      BY Zenon, <2>1, <2>6, TodoFacts
    <3>3. /\ \A i, j \in 1..n : i < j => s[i] < s[j]
          /\ \A e \in t.held, i \in 1..n : e < s[i]
      BY Zenon, <3>1 DEF Ascending
    <3>4. /\ 1 \in 1..n
          /\ \A i, j \in 1..m : i < j => i + 1 < j + 1
          /\ \A i \in 1..m : 1 < i + 1
      BY <3>2
    <3>5. ASSUME NEW i \in 1..m, NEW j \in 1..m, i < j PROVE r[i] < r[j]
      <4>1. i + 1 \in 1..n /\ j + 1 \in 1..n /\ i + 1 < j + 1 /\ r[i] = s[i + 1] /\ r[j] = s[j + 1]
        BY Zenon, <3>2, <3>4, <3>5
      <4> QED
        BY Zenon, <3>3, <4>1
    <3>6. ASSUME NEW e \in t.held \cup {f}, NEW i \in 1..m PROVE e < r[i]
      <4>1. i + 1 \in 1..n /\ 1 < i + 1 /\ r[i] = s[i + 1]
        BY Zenon, <3>2, <3>4
      <4>2. CASE e \in t.held
        BY Zenon, <3>3, <4>1, <4>2
      <4>3. CASE e = f
        BY Zenon, <3>2, <3>3, <3>4, <4>1, <4>3
      <4> QED
        BY Zenon, <4>2, <4>3
    <3> QED
      BY Zenon, <2>3, <3>5, <3>6 DEF Ascending
  <2>15. \A b \in Actors : b # a => u.held \cap txn[b].held = {}
    BY Zenon, <2>1, <2>3 DEF TInv, Exclusive, Free
  <2>16. Goes(a, u)
    BY Zenon, <2>2, <2>10, <2>11, <2>12, <2>13, <2>14, <2>15 DEF Goes, TxnInv
  <2> QED
    BY Zenon, <2>1, <2>16, GoesInv, NothingMoved
<1> QED
  BY Zenon, <1>1, <1>2
-----------------------------------------------------------------------------
\* A row that is stored.
LEMMA StoredRow ==
  ASSUME NEW f, RowShape(triaged[f]), NEW d
  PROVE  /\ RowShape(Stored(f, d)) /\ Stored(f, d).rev = triaged[f].rev + 1
         /\ Stored(f, d).disp = d.disp /\ Stored(f, d).risk = d.risk
<1> PICK row : row = triaged[f]
  BY Zenon
<1>1. row = [work |-> row.work, disp |-> row.disp, risk |-> row.risk, rev |-> row.rev,
             ev |-> row.ev, notes |-> row.notes] /\ row.rev \in Nat
  BY Zenon DEF RowShape
<1>2. Stored(f, d) = [work |-> d.work, disp |-> d.disp, risk |-> d.risk, rev |-> row.rev + 1,
                      ev |-> row.ev, notes |-> row.notes]
  BY Zenon, <1>1 DEF Stored
<1> QED
  BY <1>1, <1>2 DEF RowShape

\* What Write does with one row.
Writes(f, x, approve) ==
    /\ x.id = f /\ triaged'[f] = Stored(f, x.decision)
    /\ approvals'[f] = IF x.decision.disp # "none" /\ approve
                       THEN Append(approvals[f], Approval(triaged[f].rev + 1, x.decision))
                       ELSE approvals[f]

LEMMA WriteRows ==
  ASSUME NEW ws, NEW approve, Write(ws, approve), NEW f \in Findings
  PROVE  RowKept(f) \/ \E i \in DOMAIN ws : Writes(f, ws[i], approve)
<1> DEFINE new == {i \in DOMAIN ws : ws[i].id = f}
<1> PICK i : i = CHOOSE j \in new : TRUE
  BY Zenon
<1>1. triaged'[f] = IF new = {} THEN triaged[f] ELSE Stored(f, ws[i].decision)
  BY DEF Write
<1>2. approvals'[f] = IF new # {} /\ ws[i].decision.disp # "none" /\ approve
                      THEN Append(approvals[f], Approval(triaged[f].rev + 1, ws[i].decision))
                      ELSE approvals[f]
  BY DEF Write
<1>3. CASE new = {}
  BY Zenon, <1>1, <1>2, <1>3 DEF RowKept
<1>4. CASE new # {}
  <2>1. i \in new
    BY Zenon, <1>4
  <2>2. i \in DOMAIN ws /\ ws[i].id = f
    BY Zenon, <2>1
  <2> HIDE DEF new
  <2>3. Writes(f, ws[i], approve)
    BY Zenon, <1>1, <1>2, <1>4, <2>2 DEF Writes
  <2> QED
    BY Zenon, <2>2, <2>3
<1> QED
  BY Zenon, <1>3, <1>4

\* A finding that was decided on has been approved.
ApprovedRow(row, approved) ==
    row.disp # "none" =>
        /\ approved # <<>>
        /\ Last(approved).disp = row.disp
        /\ row.disp = "accepted-risk" => Last(approved).expires = row.risk

\* Decisions written to rows that are held, each approved or as before.
LEMMA WriteMoves ==
  ASSUME TInv, NEW a \in Actors, NEW ws, NEW approve \in BOOLEAN, Write(ws, approve),
         \A i \in DOMAIN ws :
            /\ ws[i].id \in txn[a].held
            /\ ~approve => /\ ws[i].decision.disp = triaged[ws[i].id].disp
                           /\ ws[i].decision.risk = triaged[ws[i].id].risk
  PROVE  /\ Moved(a)
         /\ DispositionIsApproved => DispositionIsApproved'
<1>1. ASSUME NEW f \in Findings
      PROVE  /\ RowKept(f) \/ (f \in txn[a].held /\ RowMoved(f))
             /\ ApprovedRow(triaged[f], approvals[f]) => ApprovedRow(triaged'[f], approvals'[f])
  <2>1. CASE RowKept(f)
    BY Zenon, <2>1 DEF RowKept
  <2>2. ASSUME NEW i \in DOMAIN ws, Writes(f, ws[i], approve)
        PROVE  /\ f \in txn[a].held /\ RowMoved(f)
               /\ ApprovedRow(triaged[f], approvals[f]) => ApprovedRow(triaged'[f], approvals'[f])
    <3> PICK x : x = ws[i]
      BY Zenon
    <3> PICK d : d = x.decision
      BY Zenon
    <3>1. /\ x.id = f /\ triaged'[f] = Stored(f, d)
          /\ approvals'[f] = IF d.disp # "none" /\ approve
                             THEN Append(approvals[f], Approval(triaged[f].rev + 1, d))
                             ELSE approvals[f]
      BY Zenon, <2>2 DEF Writes
    <3>2. f \in txn[a].held /\ (~approve => d.disp = triaged[f].disp /\ d.risk = triaged[f].risk)
      BY Zenon, <2>2, <3>1
    <3>3. RowShape(triaged[f]) /\ IsList(approvals[f])
      BY Zenon, <1>1 DEF TInv, Tables
    <3>4. /\ RowShape(triaged'[f]) /\ triaged'[f].rev = triaged[f].rev + 1
          /\ triaged'[f].disp = d.disp /\ triaged'[f].risk = d.risk
      BY <3>1, <3>3, StoredRow
    <3> PICK e : e = Approval(triaged[f].rev + 1, d)
      BY Zenon
    <3>5. e.disp = d.disp /\ (d.disp = "accepted-risk" => e.expires = d.risk)
      BY Zenon DEF Approval
    <3>6. IsList(Append(approvals[f], e)) /\ Append(approvals[f], e) # <<>>
          /\ Last(Append(approvals[f], e)) = e
      BY <3>3, ListAppend
    <3>7. IsList(approvals'[f])
      BY Zenon, <3>1, <3>3, <3>6
    <3>8. ApprovedRow(triaged[f], approvals[f]) => ApprovedRow(triaged'[f], approvals'[f])
      BY <3>1, <3>2, <3>4, <3>5, <3>6 DEF ApprovedRow
    <3> QED
      BY Zenon, <3>2, <3>4, <3>7, <3>8 DEF RowMoved
  <2> QED
    BY Zenon, <2>1, <2>2, WriteRows
<1>2. triaged' = [f \in Findings |-> triaged'[f]] /\ approvals' = [f \in Findings |-> approvals'[f]]
  BY DEF Write
<1>3. Moved(a)
  BY Zenon, <1>1, <1>2 DEF Moved
<1>4. DispositionIsApproved <=> \A f \in Findings : ApprovedRow(triaged[f], approvals[f])
  BY Zenon DEF DispositionIsApproved, ApprovedRow
<1>5. DispositionIsApproved' <=> \A f \in Findings : ApprovedRow(triaged'[f], approvals'[f])
  BY Zenon DEF DispositionIsApproved, ApprovedRow
<1> QED
  BY Zenon, <1>1, <1>3, <1>4, <1>5
-----------------------------------------------------------------------------
(* The commits *)

\* A transaction that commits holds the rows of its request.
LEMMA ReadyHolds ==
  ASSUME TInv, NEW a \in Actors, NEW op, Ready(a, op)
  PROVE  /\ txn[a].held = Wanted(txn[a].req) /\ txn[a].held \in SUBSET Findings
         /\ TxnInv(a, txn[a], triaged, approvals)
<1> PICK t : t = txn[a]
  BY Zenon
<1>1. t.phase = "wait" /\ t.todo = <<>>
  BY Zenon DEF Ready
<1>2. TxnInv(a, t, triaged, approvals)
  BY Zenon DEF TInv
<1> QED
  BY Zenon, <1>1, <1>2, EmptyList DEF TxnInv, Locking, TxnShape

\* A patch or bulk patch that is stored.
LEMMA EditMoves ==
  ASSUME TInv, NEW c \in Actors, NEW op \in Edits, Ready(c, op),
         Write(txn[c].writes, Touched(txn[c].req.patch))
  PROVE  Moved(c) /\ (DispositionIsApproved => DispositionIsApproved')
<1> PICK t : t = txn[c]
  BY Zenon
<1> PICK approve \in BOOLEAN : approve = Touched(t.req.patch)
  BY Zenon DEF Touched
<1>1. Writing(t, triaged) /\ t.phase = "wait" /\ t.req.op \in Edits
  BY Zenon, ReadyHolds DEF Ready, TxnInv
<1>2. \A i \in DOMAIN t.writes : WriteInv(t.writes[i], t, triaged)
  BY Zenon, <1>1 DEF Writing
<1>3. \A i \in DOMAIN t.writes :
        /\ t.writes[i].id \in txn[c].held
        /\ ~approve => /\ t.writes[i].decision.disp = triaged[t.writes[i].id].disp
                       /\ t.writes[i].decision.risk = triaged[t.writes[i].id].risk
  BY Zenon, <1>2 DEF WriteInv
<1>4. Write(t.writes, approve)
  BY Zenon
<1> QED
  BY Zenon, <1>3, <1>4, WriteMoves

\* The decisions of a merge or split.
LEMMA PairMoves ==
  ASSUME TInv, NEW c \in Actors, NEW op \in Correlating, Ready(c, op), NEW ws, Write(ws, TRUE),
         \A i \in DOMAIN ws : ws[i].id \in {txn[c].req.primary, txn[c].req.other}
  PROVE  Moved(c) /\ (DispositionIsApproved => DispositionIsApproved')
<1>1. txn[c].held = {txn[c].req.primary, txn[c].req.other}
  BY Zenon, ReadyHolds DEF Ready, Wanted
<1>2. \A i \in DOMAIN ws :
        /\ ws[i].id \in txn[c].held
        /\ ~TRUE => /\ ws[i].decision.disp = triaged[ws[i].id].disp
                    /\ ws[i].decision.risk = triaged[ws[i].id].risk
  BY Zenon, <1>1
<1> QED
  BY Zenon, <1>2, WriteMoves

\* A note, or new evidence.
LEMMA PlainMoves ==
  ASSUME TInv, NEW a \in Actors, CommitNote(a) \/ CommitImport(a)
  PROVE  Moved(a) /\ (DispositionIsApproved => DispositionIsApproved')
<1> PICK ids : ids = txn[a].req.ids
  BY Zenon
<1>1. txn[a].held = ids
  BY Zenon, ReadyHolds DEF CommitNote, CommitImport, Ready, Wanted, Correlating
<1>2. approvals' = approvals
  BY Zenon DEF CommitNote, CommitImport
<1>3. ASSUME NEW f \in Findings
      PROVE  /\ RowKept(f) \/ (f \in txn[a].held /\ RowMoved(f))
             /\ triaged'[f].disp = triaged[f].disp /\ triaged'[f].risk = triaged[f].risk
  <2> PICK row : row = triaged[f]
    BY Zenon
  <2>1. RowShape(row) /\ IsList(approvals[f])
    BY Zenon, <1>3 DEF TInv, Tables
  <2>2. CASE f \notin ids
    <3>1. triaged'[f] = row
      BY Zenon, <2>2 DEF CommitNote, CommitImport
    <3> QED
      BY Zenon, <1>2, <3>1 DEF RowKept
  <2>3. CASE f \in ids /\ CommitNote(a)
    <3>1. triaged'[f] = [row EXCEPT !.notes = @ + 1, !.rev = @ + 1]
      BY Zenon, <2>3 DEF CommitNote
    <3> PICK n, m : n = row.notes + 1 /\ m = row.rev + 1
      BY Zenon
    <3> PICK mid : mid = [work |-> row.work, disp |-> row.disp, risk |-> row.risk,
                          rev |-> row.rev, ev |-> row.ev, notes |-> n]
      BY Zenon
    <3>2. mid = [row EXCEPT !.notes = n]
      BY <2>1 DEF RowShape
    <3>3. triaged'[f] = [mid EXCEPT !.rev = m]
      <4>1. mid.rev = row.rev
        BY Zenon
      <4> QED
        BY Zenon, <3>1, <3>2, <4>1
    <3>4. triaged'[f] = [work |-> row.work, disp |-> row.disp, risk |-> row.risk,
                         rev |-> m, ev |-> row.ev, notes |-> n]
      BY Zenon, <3>3
    <3>5. /\ RowShape(triaged'[f]) /\ triaged'[f].rev = row.rev + 1
          /\ triaged'[f].disp = row.disp /\ triaged'[f].risk = row.risk
      BY <2>1, <3>4 DEF RowShape
    <3> QED
      BY Zenon, <1>1, <1>2, <2>1, <2>3, <3>5 DEF RowMoved
  <2>4. CASE f \in ids /\ CommitImport(a)
    <3>1. triaged'[f] = [row EXCEPT !.ev = @ + 1]
      BY Zenon, <2>4 DEF CommitImport
    <3> PICK n : n = row.ev + 1
      BY Zenon
    <3>2. triaged'[f] = [row EXCEPT !.ev = n]
      BY Zenon, <3>1
    <3>3. /\ RowShape(triaged'[f]) /\ triaged'[f] = [row EXCEPT !.ev = triaged'[f].ev]
          /\ triaged'[f].disp = row.disp /\ triaged'[f].risk = row.risk
      BY Zenon, <2>1, <3>2 DEF RowShape
    <3> QED
      BY Zenon, <1>1, <1>2, <2>1, <2>4, <3>3 DEF RowMoved
  <2> QED
    BY Zenon, <2>2, <2>3, <2>4
<1>4. triaged' = [f \in Findings |-> triaged'[f]] /\ approvals' = [f \in Findings |-> approvals'[f]]
  BY Zenon, <1>2 DEF CommitNote, CommitImport, TInv, Tables
<1>5. Moved(a)
  BY Zenon, <1>3, <1>4 DEF Moved
<1>6. DispositionIsApproved => DispositionIsApproved'
  BY Zenon, <1>2, <1>3 DEF DispositionIsApproved
<1> QED
  BY Zenon, <1>5, <1>6

\* Every transaction that ends.
Commits(c) ==
    \/ CommitPatch(c) \/ CommitBulk(c) \/ CommitNote(c) \/ CommitMerge(c) \/ CommitSplit(c)
    \/ CommitImport(c)

LEMMA CommitMoves ==
  ASSUME TInv, NEW c \in Actors, Commits(c)
  PROVE  End(c) /\ Moved(c) /\ (DispositionIsApproved => DispositionIsApproved')
<1>1. CASE Rollback(c)
  <2>1. End(c) /\ UNCHANGED tables
    BY Zenon, <1>1 DEF Rollback, tables
  <2>2. triaged' = triaged /\ approvals' = approvals
    BY Zenon, <2>1 DEF tables
  <2>3. DispositionIsApproved => DispositionIsApproved'
    BY Zenon, <2>2 DEF DispositionIsApproved
  <2> QED
    BY Zenon, <2>1, <2>3, NothingMoved
<1>2. CASE CommitPatch(c)
  BY Zenon, <1>2, EditMoves DEF CommitPatch, Edits
<1>3. CASE CommitBulk(c) /\ ~Rollback(c)
  <2>1. /\ Ready(c, "bulk") \/ Ready(c, "risk")
        /\ Write(txn[c].writes, Touched(txn[c].req.patch)) /\ End(c)
    BY Zenon, <1>3 DEF CommitBulk
  <2> QED
    BY Zenon, <2>1, EditMoves DEF Edits
<1>4. CASE CommitNote(c) \/ CommitImport(c)
  BY Zenon, <1>4, PlainMoves DEF CommitNote, CommitImport
<1>5. CASE CommitMerge(c) /\ ~Rollback(c)
  <2> PICK p : p = txn[c].req.primary
    BY Zenon
  <2> PICK ws : ws = <<Choice(p, txn[c].req.decision)>>
    BY Zenon
  <2>1. Ready(c, "merge") /\ End(c) /\ Write(ws, TRUE)
    BY Zenon, <1>5 DEF CommitMerge, Merge
  <2>2. \A i \in DOMAIN ws : ws[i].id = p
    BY DEF Choice
  <2> QED
    BY Zenon, <2>1, <2>2, PairMoves DEF Correlating
<1>6. CASE CommitSplit(c) /\ ~Rollback(c)
  <2>r. PICK r : r = txn[c].req
    BY Zenon
  <2>w. PICK ws : ws = <<Choice(r.primary, r.decision), Choice(r.other, r.member)>>
    BY Zenon
  <2>1. Ready(c, "split") /\ End(c) /\ Write(ws, TRUE)
    BY Zenon, <1>6, <2>r, <2>w DEF CommitSplit
  <2>2. \A i \in DOMAIN ws : ws[i].id \in {r.primary, r.other}
    BY <2>w DEF Choice
  <2>3. \A i \in DOMAIN ws : ws[i].id \in {txn[c].req.primary, txn[c].req.other}
    BY Zenon, <2>r, <2>2
  <2>4. "split" \in Correlating
    BY Zenon DEF Correlating
  <2> QED
    BY Zenon, <2>1, <2>3, <2>4, PairMoves
<1> QED
  BY Zenon, <1>1, <1>2, <1>3, <1>4, <1>5, <1>6 DEF Commits

LEMMA InitTInv ==
  ASSUME TriageInit
  PROVE  TInv /\ DispositionIsApproved
<1>1. Tables
  BY Zenon, EmptyList DEF TriageInit, Tables, RowShape
<1>2. ASSUME NEW a \in Actors PROVE txn[a].held = {} /\ TxnInv(a, txn[a], triaged, approvals)
  <2> PICK t : t = txn[a]
    BY Zenon
  <2>1. t = Idle(NoRequest)
    BY Zenon DEF TriageInit
  <2>2. /\ t = [phase |-> "idle", req |-> NoRequest, todo |-> <<>>, held |-> {},
                seen |-> NoApproval, writes |-> <<>>]
        /\ t.phase = "idle" /\ t.req.op = "none" /\ t.todo = <<>> /\ t.held = {}
        /\ t.req = NoRequest /\ t.seen = NoApproval /\ t.writes = <<>>
    BY <2>1 DEF Idle, Txn, NoRequest
  <2>3. TxnShape(t)
    BY Zenon, <2>2, EmptyList DEF TxnShape, Operations, Correlating
  <2>4. Locking(t) /\ Writing(t, triaged) /\ Reviewing(t, triaged, approvals)
    BY Zenon, <2>2 DEF Locking, Writing, Reviewing, Correlating
  <2>5. Ascending(t)
    BY <2>2 DEF Ascending
  <2> QED
    BY Zenon, <2>2, <2>3, <2>4, <2>5 DEF TxnInv
<1>3. DispositionIsApproved
  BY Zenon DEF TriageInit, DispositionIsApproved
<1> QED
  BY Zenon, <1>1, <1>2, <1>3 DEF TInv, Exclusive

Holds == BeginChange \/ BeginPreview \/ CommitHold \/ DropHold

\* The steps of Next, told apart by what they do to the tables.
LEMMA NextSteps ==
  ASSUME TriageNext
  PROVE  \/ \E c \in Clients :
              \/ BeginPatch(c) \/ BeginNote(c) \/ BeginBulk(c) \/ BeginRisk(c)
              \/ BeginMerge(c) \/ BeginSplit(c) \/ Resend(c)
              \/ LockKey(c) \/ Ask(c)
         \/ \E w \in Workers : BeginImport(w)
         \/ Holds
         \/ \E a \in Actors : Grab(a) \/ Commits(a) \/ Rollback(a)
BY Zenon DEF TriageNext, Steps, Commits, Holds, DeadlockVictim, Cancel, Actors

\* A role change or a preview leaves the findings and the transactions on them alone.
LEMMA ChangeInv ==
  ASSUME TInv, Holds
  PROVE  TInv'
<1>1. UNCHANGED tables /\ txn' = txn
  BY Zenon DEF Holds, BeginChange, BeginPreview, Hold, CommitHold, DropHold
<1>2. triaged' = triaged /\ approvals' = approvals /\ txn' = txn
  BY Zenon, <1>1 DEF tables
<1> QED
  BY Zenon, <1>2 DEF TInv, Tables, Exclusive

LEMMA NextTInv ==
  ASSUME TInv, Sizes, [TriageNext]_triageVars
  PROVE  TInv'
<1>1. CASE TriageNext
  BY Zenon, <1>1, NextSteps, BeginPlainInv, BeginPairInv, BeginImportInv, LockKeyInv, AskInv,
     ChangeInv, GrabInv, CommitMoves, EndInv, RollbackInv
<1>2. CASE UNCHANGED triageVars
  BY Zenon, <1>2 DEF triageVars, TInv, Tables, Exclusive
<1> QED
  BY Zenon, <1>1, <1>2
-----------------------------------------------------------------------------
(* Correlations *)

\* The active members of a list of members.
Act(ms) == {ms[i].id : i \in {j \in DOMAIN ms : ms[j].active = "yes"}}

\* One group by itself: its state, its primary and its active members.
Fine(state, primary, active) ==
    IF state = "split" THEN active = {}
    ELSE /\ state = "active"
         /\ Cardinality(active) >= 2
         /\ primary \in active
         /\ \A e, f \in active : e # f => SourceOf[e] # SourceOf[f]

\* A finding is active in one group at most.
Apart(gs) ==
    \A g, h \in DOMAIN gs :
        g # h /\ gs[g].state = "active" /\ gs[h].state = "active"
          => Act(gs[g].members) \cap Act(gs[h].members) = {}

GroupsInv(gs) ==
    /\ IsList(gs)
    /\ \A g \in DOMAIN gs :
         IsList(gs[g].members) /\ Fine(gs[g].state, gs[g].primary, Act(gs[g].members))
    /\ Apart(gs)

LEMMA GroupsInvSound ==
  ASSUME GroupsInv(groups)
  PROVE  GroupsAreSound
<1> SUFFICES ASSUME NEW g \in DOMAIN groups
             PROVE  IF groups[g].state = "split" THEN ActiveMembers(g) = {}
                    ELSE /\ Cardinality(ActiveMembers(g)) >= 2
                         /\ groups[g].primary \in ActiveMembers(g)
                         /\ \A f \in ActiveMembers(g) : GroupsOf(f) = {g}
                         /\ \A e, f \in ActiveMembers(g) : e # f => SourceOf[e] # SourceOf[f]
  BY Zenon DEF GroupsAreSound
<1>1. \A h : ActiveMembers(h) = Act(groups[h].members)
  BY Zenon DEF ActiveMembers, Act
<1>2. Fine(groups[g].state, groups[g].primary, ActiveMembers(g))
  BY Zenon, <1>1 DEF GroupsInv
<1>3. ASSUME groups[g].state = "active", NEW f \in ActiveMembers(g) PROVE GroupsOf(f) = {g}
  <2>1. g \in GroupsOf(f)
    BY Zenon, <1>3 DEF GroupsOf
  <2>2. ASSUME NEW h \in GroupsOf(f) PROVE h = g
    <3>1. h \in DOMAIN groups /\ groups[h].state = "active" /\ f \in ActiveMembers(h)
      BY Zenon, <2>2 DEF GroupsOf
    <3>2. f \in Act(groups[g].members) /\ f \in Act(groups[h].members)
      BY Zenon, <1>1, <1>3, <3>1
    <3> QED
      BY Zenon, <1>3, <3>1, <3>2 DEF GroupsInv, Apart
  <2> QED
    BY Zenon, <2>1, <2>2
<1> QED
  BY Zenon, <1>2, <1>3 DEF Fine

LEMMA ActAppend ==
  ASSUME NEW ms, IsList(ms), NEW o
  PROVE  /\ IsList(Append(ms, Member(o, "yes")))
         /\ Act(Append(ms, Member(o, "yes"))) = Act(ms) \cup {o}
<1> PICK m : m = Member(o, "yes")
  BY Zenon
<1>1. m.id = o /\ m.active = "yes"
  BY Zenon DEF Member
<1> PICK new : new = Append(ms, m)
  BY Zenon
<1>2. /\ IsList(new) /\ Len(ms) \in Nat /\ DOMAIN ms = 1..Len(ms)
      /\ DOMAIN new = 1..(Len(ms) + 1)
      /\ \A i \in 1..Len(ms) : new[i] = ms[i]
      /\ new[Len(ms) + 1] = m
  BY ListAppend
<1>3. ASSUME NEW f \in Act(new) PROVE f \in Act(ms) \cup {o}
  <2>1. PICK i \in DOMAIN new : new[i].active = "yes" /\ f = new[i].id
    BY Zenon, <1>3 DEF Act
  <2>2. CASE i = Len(ms) + 1
    BY Zenon, <1>1, <1>2, <2>1, <2>2
  <2>3. CASE i \in DOMAIN ms
    BY Zenon, <1>2, <2>1, <2>3 DEF Act
  <2> QED
    BY <1>2, <2>1, <2>2, <2>3
<1>4. ASSUME NEW f \in Act(ms) PROVE f \in Act(new)
  <2>1. PICK i \in DOMAIN ms : ms[i].active = "yes" /\ f = ms[i].id
    BY Zenon, <1>4 DEF Act
  <2>2. i \in DOMAIN new /\ new[i] = ms[i]
    BY <1>2, <2>1
  <2> QED
    BY Zenon, <2>1, <2>2 DEF Act
<1>5. o \in Act(new)
  <2>1. Len(ms) + 1 \in DOMAIN new
    BY <1>2
  <2> QED
    BY Zenon, <1>1, <1>2, <2>1 DEF Act
<1> QED
  BY Zenon, <1>2, <1>3, <1>4, <1>5

LEMMA ActPair ==
  ASSUME NEW p, NEW o
  PROVE  /\ IsList(<<Member(p, "yes"), Member(o, "yes")>>)
         /\ Act(<<Member(p, "yes"), Member(o, "yes")>>) = {p, o}
<1> PICK m, n : m = Member(p, "yes") /\ n = Member(o, "yes")
  BY Zenon
<1>1. m.id = p /\ m.active = "yes" /\ n.id = o /\ n.active = "yes"
  BY Zenon DEF Member
<1> PICK ms : ms = <<m, n>>
  BY Zenon
<1>2. DOMAIN ms = {1, 2} /\ ms[1] = m /\ ms[2] = n
  OBVIOUS
<1>3. IsList(ms)
  BY DEF IsList
<1>4. Act(ms) = {p, o}
  BY <1>1, <1>2 DEF Act
<1> QED
  BY Zenon, <1>3, <1>4

LEMMA ListOf ==
  ASSUME NEW n \in Nat, NEW s, s = [i \in 1..n |-> s[i]]
  PROVE  IsList(s)
<1> PICK S : S = {s[j] : j \in 1..n}
  BY Zenon
<1>1. s \in [1..n -> S]
  BY Zenon
<1>2. s \in Seq(S)
  BY <1>1
<1> QED
  BY Zenon, <1>2 DEF IsList

Freed(ms, released) ==
  [i \in DOMAIN ms |-> IF ms[i].id \in released THEN Member(ms[i].id, "no") ELSE ms[i]]

LEMMA ActRelease ==
  ASSUME NEW ms, IsList(ms), NEW released
  PROVE  IsList(Freed(ms, released)) /\ Act(Freed(ms, released)) = Act(ms) \ released
<1> PICK new : new = [i \in DOMAIN ms |->
                        IF ms[i].id \in released THEN Member(ms[i].id, "no") ELSE ms[i]]
  BY Zenon
<1>1. DOMAIN new = DOMAIN ms
  BY Zenon
<1>2. ASSUME NEW i \in DOMAIN ms, ms[i].id \in released PROVE new[i].active # "yes"
  BY Zenon, <1>2 DEF Member
<1>3. \A i \in DOMAIN ms : ms[i].id \notin released => new[i] = ms[i]
  BY Zenon
<1>4. IsList(new)
  <2>1. Len(ms) \in Nat /\ DOMAIN ms = 1..Len(ms)
    BY Zenon, ListAppend
  <2>2. new = [i \in 1..Len(ms) |-> new[i]]
    BY Zenon, <2>1
  <2> QED
    BY Zenon, <2>1, <2>2, ListOf
<1>5. ASSUME NEW f \in Act(new) PROVE f \in Act(ms) \ released
  <2>1. PICK i \in DOMAIN ms : new[i].active = "yes" /\ f = new[i].id
    BY Zenon, <1>1, <1>5 DEF Act
  <2>2. ms[i].id \notin released /\ new[i] = ms[i]
    BY Zenon, <1>2, <1>3, <2>1
  <2> QED
    BY Zenon, <2>1, <2>2 DEF Act
<1>6. ASSUME NEW f \in Act(ms) \ released PROVE f \in Act(new)
  <2>1. PICK i \in DOMAIN ms : ms[i].active = "yes" /\ f = ms[i].id
    BY Zenon, <1>6 DEF Act
  <2>2. new[i] = ms[i]
    BY Zenon, <1>3, <1>6, <2>1
  <2> QED
    BY Zenon, <1>1, <2>1, <2>2 DEF Act
<1>7. new = Freed(ms, released)
  BY Zenon DEF Freed
<1> QED
  BY Zenon, <1>4, <1>5, <1>6, <1>7

LEMMA ActFinite ==
  ASSUME Sizes, NEW ms, IsList(ms)
  PROVE  IsFiniteSet(Act(ms)) /\ Cardinality(Act(ms)) \in Nat
<1> DEFINE ids == [i \in DOMAIN ms |-> ms[i].id]
           all == {ids[i] : i \in 1..Len(ms)}
<1>1. Len(ms) \in Nat /\ DOMAIN ms = 1..Len(ms)
  BY Zenon, ListAppend
<1>2. IsFiniteSet(all)
  <2> HIDE DEF ids
  <2>1. \A f : IsFiniteSet({f[i] : i \in 1..Len(ms)})
    BY Zenon, <1>1 DEF Sizes
  <2> QED
    BY Zenon, <2>1
<1>3. Act(ms) \in SUBSET all
  BY Zenon, <1>1 DEF Act
<1> HIDE DEF all
<1> QED
  BY Zenon, <1>2, <1>3 DEF Sizes

\* Group g of the list becomes x.
Becomes(gs, g, x, new) ==
  /\ IsList(new) /\ DOMAIN new = DOMAIN gs \cup {g} /\ new[g] = x
  /\ \A h \in DOMAIN gs : h # g => new[h] = gs[h]

\* x is sound and shares no active member with the other groups.
Fits(gs, g, x) ==
  /\ IsList(x.members) /\ Fine(x.state, x.primary, Act(x.members))
  /\ \A h \in DOMAIN gs :
       h # g /\ gs[h].state = "active" => Act(x.members) \cap Act(gs[h].members) = {}

LEMMA GroupSet ==
  ASSUME NEW gs, GroupsInv(gs), NEW g, NEW x, NEW new, Becomes(gs, g, x, new), Fits(gs, g, x)
  PROVE  GroupsInv(new)
<1>1. /\ IsList(x.members) /\ Fine(x.state, x.primary, Act(x.members))
      /\ \A h \in DOMAIN gs :
           h # g /\ gs[h].state = "active" => Act(x.members) \cap Act(gs[h].members) = {}
  BY Zenon DEF Fits
<1>2. IsList(new) /\ DOMAIN new = DOMAIN gs \cup {g} /\ new[g] = x
      /\ \A h \in DOMAIN gs : h # g => new[h] = gs[h]
  BY Zenon DEF Becomes
<1>3. \A h \in DOMAIN new :
        IsList(new[h].members) /\ Fine(new[h].state, new[h].primary, Act(new[h].members))
  BY Zenon, <1>1, <1>2 DEF GroupsInv
<1>4. Apart(new)
  <2> SUFFICES ASSUME NEW h \in DOMAIN new, NEW k \in DOMAIN new, h # k,
                      new[h].state = "active", new[k].state = "active"
               PROVE  Act(new[h].members) \cap Act(new[k].members) = {}
    BY Zenon DEF Apart
  <2>1. CASE h # g /\ k # g
    <3>1. h \in DOMAIN gs /\ k \in DOMAIN gs /\ new[h] = gs[h] /\ new[k] = gs[k]
      BY Zenon, <1>2, <2>1
    <3> QED
      BY Zenon, <3>1 DEF GroupsInv, Apart
  <2>2. CASE h = g
    <3>1. new[h] = x /\ k \in DOMAIN gs /\ k # g /\ new[k] = gs[k]
      BY Zenon, <1>2, <2>2
    <3> QED
      BY Zenon, <1>1, <3>1
  <2>3. CASE k = g
    <3>1. new[k] = x /\ h \in DOMAIN gs /\ h # g /\ new[h] = gs[h]
      BY Zenon, <1>2, <2>3
    <3>2. Act(x.members) \cap Act(gs[h].members) = {}
      BY Zenon, <1>1, <3>1
    <3> QED
      BY Zenon, <3>1, <3>2
  <2> QED
    BY Zenon, <2>1, <2>2, <2>3
<1> QED
  BY Zenon, <1>2, <1>3, <1>4 DEF GroupsInv

LEMMA GroupAppended ==
  ASSUME NEW gs, GroupsInv(gs), NEW x,
         IsList(x.members), Fine(x.state, x.primary, Act(x.members)),
         \A h \in DOMAIN gs :
            gs[h].state = "active" => Act(x.members) \cap Act(gs[h].members) = {}
  PROVE  GroupsInv(Append(gs, x))
<1> PICK g, new : g = Len(gs) + 1 /\ new = Append(gs, x)
  BY Zenon
<1>1. /\ IsList(gs) /\ IsList(new) /\ Len(gs) \in Nat /\ DOMAIN gs = 1..Len(gs)
      /\ DOMAIN new = 1..(Len(gs) + 1)
      /\ \A i \in 1..Len(gs) : new[i] = gs[i]
      /\ new[Len(gs) + 1] = x
  BY ListAppend DEF GroupsInv
<1>2. DOMAIN new = DOMAIN gs \cup {g} /\ new[g] = x /\ \A h \in DOMAIN gs : new[h] = gs[h]
  BY <1>1
<1>3. Becomes(gs, g, x, new) /\ Fits(gs, g, x)
  BY Zenon, <1>1, <1>2 DEF Becomes, Fits
<1> QED
  BY Zenon, <1>3, GroupSet

LEMMA GroupChanged ==
  ASSUME NEW gs, GroupsInv(gs), NEW g \in DOMAIN gs, NEW x,
         IsList(x.members), Fine(x.state, x.primary, Act(x.members)),
         \A h \in DOMAIN gs :
            h # g /\ gs[h].state = "active" => Act(x.members) \cap Act(gs[h].members) = {}
  PROVE  GroupsInv([gs EXCEPT ![g] = x])
<1> PICK new : new = [gs EXCEPT ![g] = x]
  BY Zenon
<1>1. IsList(gs) /\ Len(gs) \in Nat /\ DOMAIN gs = 1..Len(gs)
  BY Zenon, ListAppend DEF GroupsInv
<1>2. DOMAIN new = DOMAIN gs /\ new[g] = x /\ \A h \in DOMAIN gs : h # g => new[h] = gs[h]
  BY Zenon, <1>1
<1>3. PICK n \in Nat : DOMAIN new = 1..n
  BY Zenon, <1>1, <1>2
<1>4. new = [i \in 1..n |-> new[i]]
  BY Zenon, <1>2, <1>3
<1>5. IsList(new)
  BY Zenon, <1>3, <1>4, ListOf
<1>6. DOMAIN new = DOMAIN gs \cup {g}
  BY Zenon, <1>2
<1>7. Becomes(gs, g, x, new) /\ Fits(gs, g, x)
  BY Zenon, <1>2, <1>5, <1>6 DEF Becomes, Fits
<1> QED
  BY Zenon, <1>7, GroupSet

\* A finding of another source joins a group, or a finding leaves a larger one.
LEMMA FineJoin ==
  ASSUME Sizes, NEW A, IsFiniteSet(A), NEW primary, Fine("active", primary, A), NEW o,
         \A m \in A : SourceOf[m] # SourceOf[o]
  PROVE  Fine("active", primary, A \cup {o})
<1>1. Cardinality(A) >= 2 /\ primary \in A /\ \A e, f \in A : e # f => SourceOf[e] # SourceOf[f]
  BY Zenon DEF Fine
<1>2. Cardinality(A \cup {o}) \in {Cardinality(A), Cardinality(A) + 1} /\ Cardinality(A) \in Nat
  BY Zenon DEF Sizes
<1>3. Cardinality(A \cup {o}) >= 2
  BY <1>1, <1>2
<1>4. \A e, f \in A \cup {o} : e # f => SourceOf[e] # SourceOf[f]
  BY Zenon, <1>1
<1> QED
  BY Zenon, <1>1, <1>3, <1>4 DEF Fine

\* The active groups of a finding.
LEMMA MemberOf ==
  ASSUME NEW f
  PROVE  \A h \in DOMAIN groups :
           h \in GroupsOf(f) <=> groups[h].state = "active" /\ f \in Act(groups[h].members)
BY Zenon DEF GroupsOf, ActiveMembers, Act

LEMMA MergeGroups ==
  ASSUME Sizes, GroupsInv(groups), NEW c, NEW p, NEW o, NEW g,
         g = IF GroupsOf(p) = {} THEN 0 ELSE CHOOSE x \in GroupsOf(p) : TRUE,
         Mergeable(p, o), Merge(c, p, o, g)
  PROVE  GroupsInv(groups')
<1>1. p # o /\ SourceOf[p] # SourceOf[o] /\ GroupsOf(o) = {} /\ \A h \in GroupsOf(p) : Joins(o, h)
  BY Zenon DEF Mergeable
<1>2. Len(groups) \in Nat /\ DOMAIN groups = 1..Len(groups)
  BY Zenon, ListAppend DEF GroupsInv
<1>3. CASE GroupsOf(p) = {}
  <2> PICK ms : ms = <<Member(p, "yes"), Member(o, "yes")>>
    BY Zenon
  <2> PICK x : x = Group(p, "active", 1, ms)
    BY Zenon
  <2>1. x.state = "active" /\ x.primary = p /\ x.members = ms
    BY Zenon DEF Group
  <2>2. groups' = Append(groups, x)
    BY Zenon, <1>3 DEF Merge
  <2>3. IsList(ms) /\ Act(ms) = {p, o}
    BY Zenon, ActPair
  <2>4. Cardinality({p, o}) = 2
    BY Zenon, <1>1 DEF Sizes
  <2>5. Fine(x.state, x.primary, Act(x.members))
    BY <1>1, <2>1, <2>3, <2>4 DEF Fine
  <2>6. ASSUME NEW h \in DOMAIN groups, groups[h].state = "active"
        PROVE  Act(x.members) \cap Act(groups[h].members) = {}
    BY Zenon, <1>1, <1>3, <2>1, <2>3, <2>6, MemberOf
  <2>7. IsList(x.members)
    BY Zenon, <2>1, <2>3
  <2>8. GroupsInv(Append(groups, x))
    BY Zenon, <2>5, <2>6, <2>7, GroupAppended
  <2> QED
    BY Zenon, <2>2, <2>8
<1>4. CASE GroupsOf(p) # {}
  <2>1. g \in GroupsOf(p)
    BY Zenon, <1>4
  <2>2. g \in DOMAIN groups /\ g # 0
    BY <1>2, <2>1 DEF GroupsOf
  <2> PICK y : y = groups[g]
    BY Zenon
  <2> PICK ms : ms = Append(y.members, Member(o, "yes"))
    BY Zenon
  <2> PICK x : x = Group(y.primary, y.state, y.rev + 1, ms)
    BY Zenon
  <2>3. x.state = y.state /\ x.primary = y.primary /\ x.members = ms
    BY Zenon DEF Group
  <2>4. groups' = [groups EXCEPT ![g] = x]
    BY Zenon, <2>2 DEF Merge
  <2>5. /\ IsList(y.members) /\ Fine(y.state, y.primary, Act(y.members))
        /\ y.state = "active"
    BY Zenon, <2>1, <2>2 DEF GroupsInv, GroupsOf
  <2>6. IsList(ms) /\ Act(ms) = Act(y.members) \cup {o}
    BY Zenon, <2>5, ActAppend
  <2>7. \A m \in Act(y.members) : SourceOf[m] # SourceOf[o]
    BY <1>1, <2>1 DEF Joins, ActiveMembers, Act
  <2> PICK A : A = Act(y.members)
    BY Zenon
  <2>8. IsFiniteSet(A)
    BY Zenon, <2>5, ActFinite
  <2>9. Fine("active", y.primary, A \cup {o})
    BY Zenon, <2>5, <2>7, <2>8, FineJoin
  <2>10. IsList(x.members) /\ Act(x.members) = A \cup {o} /\ x.state = "active"
    BY Zenon, <2>3, <2>5, <2>6
  <2>11. Fine(x.state, x.primary, Act(x.members))
    BY Zenon, <2>3, <2>9, <2>10
  <2>12. ASSUME NEW h \in DOMAIN groups, h # g, groups[h].state = "active"
         PROVE  Act(x.members) \cap Act(groups[h].members) = {}
    <3> PICK B : B = Act(groups[h].members)
      BY Zenon
    <3>1. o \notin B
      BY Zenon, <1>1, <2>12, MemberOf
    <3>2. A \cap B = {}
      BY Zenon, <2>2, <2>5, <2>12 DEF GroupsInv, Apart
    <3>3. (A \cup {o}) \cap B = {}
      BY Zenon, <3>1, <3>2
    <3> QED
      BY Zenon, <2>10, <3>3
  <2>13. GroupsInv([groups EXCEPT ![g] = x])
    BY Zenon, <2>2, <2>10, <2>11, <2>12, GroupChanged
  <2> QED
    BY Zenon, <2>4, <2>13
<1> QED
  BY Zenon, <1>3, <1>4

LEMMA SplitGroups ==
  ASSUME Sizes, GroupsInv(groups), NEW p, NEW m, NEW g \in Splittable(p, m), ReleaseMember(g, m)
  PROVE  GroupsInv(groups')
<1>1. g \in GroupsOf(p) /\ groups[g].primary = p /\ m # p /\ m \in ActiveMembers(g)
  BY Zenon DEF Splittable
<1>2. g \in DOMAIN groups /\ groups[g].state = "active"
  BY Zenon, <1>1 DEF GroupsOf
<1> PICK y : y = groups[g]
  BY Zenon
<1>3. ActiveMembers(g) = Act(y.members)
  BY Zenon DEF ActiveMembers, Act
<1> PICK A : A = Act(y.members)
  BY Zenon
<1> PICK out : out = IF Cardinality(A) = 2 THEN A ELSE {m}
  BY Zenon
<1> PICK state : state = IF Cardinality(A) = 2 THEN "split" ELSE y.state
  BY Zenon
<1> PICK ms : ms = Release(g, out)
  BY Zenon
<1> PICK x : x = Group(y.primary, state, y.rev + 1, ms)
  BY Zenon
<1>4. x.state = state /\ x.primary = y.primary /\ x.members = ms
  BY Zenon DEF Group
<1>5. groups' = [groups EXCEPT ![g] = x]
  BY Zenon, <1>2, <1>3 DEF ReleaseMember
<1>6. IsList(y.members) /\ Fine(y.state, y.primary, A)
  BY Zenon, <1>2 DEF GroupsInv
<1> PICK l : l = y.members
  BY Zenon
<1>7. ms = Freed(l, out)
  BY Zenon DEF Release, Freed
<1>8. IsList(ms) /\ Act(ms) = A \ out
  <2>1. IsList(l) /\ A = Act(l)
    BY Zenon, <1>6
  <2>2. IsList(Freed(l, out)) /\ Act(Freed(l, out)) = Act(l) \ out
    BY Zenon, <2>1, ActRelease
  <2> QED
    BY Zenon, <1>7, <2>1, <2>2
<1>9. Fine(x.state, x.primary, Act(x.members))
  <2>1. CASE Cardinality(A) = 2
    BY Zenon, <1>4, <1>8, <2>1 DEF Fine
  <2>2. CASE Cardinality(A) # 2
    <3>1. IsFiniteSet(A) /\ Cardinality(A) \in Nat /\ Cardinality(A) >= 2 /\ m \in A
      BY Zenon, <1>1, <1>2, <1>3, <1>6, ActFinite DEF Fine
    <3>2. Cardinality(A \ {m}) = Cardinality(A) - 1
      BY Zenon, <3>1 DEF Sizes
    <3>3. Cardinality(A \ {m}) >= 2
      BY <2>2, <3>1, <3>2
    <3> QED
      BY SMTT(20), <1>1, <1>2, <1>4, <1>6, <1>8, <2>2, <3>3 DEF Fine
  <2> QED
    BY Zenon, <2>1, <2>2
<1>10. ASSUME NEW h \in DOMAIN groups, h # g, groups[h].state = "active"
       PROVE  Act(x.members) \cap Act(groups[h].members) = {}
  <2>1. A \cap Act(groups[h].members) = {}
    BY Zenon, <1>2, <1>10 DEF GroupsInv, Apart
  <2> QED
    BY Zenon, <1>4, <1>8, <2>1
<1>11. IsList(x.members)
  BY Zenon, <1>4, <1>8
<1>12. GroupsInv([groups EXCEPT ![g] = x])
  BY Zenon, <1>2, <1>9, <1>10, <1>11, GroupChanged
<1> QED
  BY Zenon, <1>5, <1>12

-----------------------------------------------------------------------------
(* What follows *)

INSTANCE FiniteSetTheorems

LEMMA SizesHold == Sizes
<1>1. \A S : IsFiniteSet(S) => Cardinality(S) \in Nat
  BY Zenon, FS_CardinalityType
<1>2. \A S : \A T \in SUBSET S : IsFiniteSet(S) => IsFiniteSet(T)
  BY Zenon, FS_Subset
<1>3. ASSUME NEW n \in Nat, NEW f PROVE IsFiniteSet({f[i] : i \in 1..n})
  <2> DEFINE values == {f[i] : i \in 1..n}
             all == [i \in 1..n |-> f[i]]
  <2>1. all \in Surjection(1..n, values)
    BY Zenon DEF Surjection
  <2>2. IsFiniteSet(1..n)
    BY FS_Interval
  <2> QED
    BY <2>1, <2>2, FS_Surjection
<1>4. ASSUME NEW e, NEW f, e # f PROVE Cardinality({e, f}) = 2
  <2>1. {e, f} = {e} \cup {f} /\ f \notin {e}
    BY Zenon, <1>4
  <2>2. IsFiniteSet({e}) /\ Cardinality({e}) = 1
    BY Zenon, FS_Singleton
  <2> QED
    BY <2>1, <2>2, FS_AddElement
<1>5. ASSUME NEW S, NEW e, IsFiniteSet(S)
      PROVE  /\ Cardinality(S \cup {e}) \in {Cardinality(S), Cardinality(S) + 1}
             /\ e \in S => Cardinality(S \ {e}) = Cardinality(S) - 1
  BY Zenon, <1>5, FS_AddElement, FS_RemoveElement
<1> QED
  BY Zenon, <1>1, <1>2, <1>3, <1>4, <1>5 DEF Sizes

LEMMA TInvAlways == TriageSpec => []TInv
<1>1. TriageInit => TInv
  BY Zenon, InitTInv
<1>2. TInv /\ [TriageNext]_triageVars => TInv'
  BY Zenon, NextTInv, SizesHold
<1> QED
  BY <1>1, <1>2, PTL DEF TriageSpec

\* Only a commit writes the tables.
LEMMA TablesKept ==
  ASSUME [TriageNext]_triageVars
  PROVE  UNCHANGED tables \/ \E a \in Actors : Commits(a)
<1>1. ASSUME NEW a, NEW phase, NEW req, NEW orders, Start(a, phase, req, orders)
      PROVE  UNCHANGED tables
  BY Zenon, <1>1 DEF Start
<1>2. ASSUME NEW a, Rollback(a) PROVE UNCHANGED tables
  BY Zenon, <1>2 DEF Rollback, tables
<1>3. ASSUME NEW c, BeginPatch(c) \/ BeginNote(c) \/ BeginBulk(c) \/ BeginRisk(c)
      PROVE  UNCHANGED tables
  BY Zenon, <1>1, <1>3 DEF BeginPatch, BeginNote, BeginBulk, BeginRisk
<1>4. ASSUME NEW c, BeginMerge(c) \/ BeginSplit(c) \/ Resend(c) PROVE UNCHANGED tables
  BY Zenon, <1>1, <1>4 DEF BeginMerge, BeginSplit, Resend
<1>5. ASSUME NEW c, LockKey(c) \/ Ask(c) \/ Grab(c) PROVE UNCHANGED tables
  BY Zenon, <1>2, <1>5 DEF LockKey, Ask, Grab, tables
<1>6. ASSUME NEW w, BeginImport(w) PROVE UNCHANGED tables
  BY Zenon, <1>1, <1>6 DEF BeginImport
<1>7. CASE UNCHANGED triageVars
  BY Zenon, <1>7 DEF triageVars, tables
<1>8. CASE Holds
  BY Zenon, <1>8 DEF Holds, BeginChange, BeginPreview, Hold, CommitHold, DropHold
<1> QED
  BY Zenon, <1>2, <1>3, <1>4, <1>5, <1>6, <1>7, <1>8, NextSteps

\* Whatever patches, bulk patches, merges and splits cross in the tables of
\* findings and approvals, a finding that is accepted, suppressed or a false
\* positive has been approved as what it is.
THEOREM DispositionsApproved == TriageSpec => []DispositionIsApproved
<1>1. TriageInit => DispositionIsApproved
  BY Zenon, InitTInv
<1>2. TInv /\ DispositionIsApproved /\ [TriageNext]_triageVars => DispositionIsApproved'
  <2> SUFFICES ASSUME TInv, DispositionIsApproved, [TriageNext]_triageVars
               PROVE  DispositionIsApproved'
    BY Zenon
  <2>1. CASE UNCHANGED tables
    <3>1. triaged' = triaged /\ approvals' = approvals
      BY Zenon, <2>1 DEF tables
    <3> QED
      BY Zenon, <3>1 DEF DispositionIsApproved
  <2> QED
    BY Zenon, <2>1, TablesKept, CommitMoves
<1> QED
  BY <1>1, <1>2, TInvAlways, PTL DEF TriageSpec

\* Past its role check, a merge or split is of a client who may write: a role
\* change waits for the membership it shares.
MayWrite ==
    \A c \in Clients :
        txn[c].phase \notin {"idle", "key"} /\ txn[c].req.op \in Correlating =>
            txn[c].phase = "wait" /\ c \in writers

LEMMA MayWriteKept ==
  ASSUME TInv, MayWrite, [TriageNext]_triageVars
  PROVE  MayWrite'
<1> SUFFICES ASSUME NEW c \in Clients, txn'[c].phase \notin {"idle", "key"},
                    txn'[c].req.op \in Correlating
             PROVE  txn'[c].phase = "wait" /\ c \in writers'
  BY Zenon DEF MayWrite
<1>0. c \in Actors /\ txn = [a \in Actors |-> txn[a]]
  BY Zenon DEF Actors, TInv, Tables
<1>1. ASSUME NEW a \in Actors, NEW t, txn' = [txn EXCEPT ![a] = t], writers' = writers,
             \/ t.phase \in {"idle", "key"} \/ t.req.op \notin Correlating
             \/ t.phase = "wait" /\ a \in writers
             \/ t.phase = "wait" /\ txn[a].phase \notin {"idle", "key"} /\ t.req = txn[a].req
      PROVE  txn'[c].phase = "wait" /\ c \in writers'
  <2>1. CASE a = c
    BY Zenon, <1>0, <1>1, <2>1 DEF MayWrite
  <2>2. CASE a # c
    BY Zenon, <1>0, <1>1, <2>2 DEF MayWrite
  <2> QED
    BY Zenon, <2>1, <2>2
<1>2. ASSUME NEW a \in Actors, End(a), writers' = writers PROVE txn'[c].phase = "wait" /\ c \in writers'
  <2>1. Idle(Kept(a)).phase = "idle"
    BY Zenon DEF Idle, Txn
  <2> QED
    BY Zenon, <1>1, <1>2, <2>1 DEF End
<1>3. ASSUME NEW a \in Actors, Rollback(a) \/ Commits(a) PROVE txn'[c].phase = "wait" /\ c \in writers'
  <2>1. CASE Rollback(a)
    BY Zenon, <1>2, <2>1 DEF Rollback, access
  <2>2. CASE Commits(a) /\ ~Rollback(a)
    <3>1. writers' = writers
      BY Zenon, <2>2 DEF Commits, CommitPatch, CommitBulk, CommitNote, CommitImport, CommitMerge,
         CommitSplit, access
    <3> QED
      BY Zenon, <1>2, <2>2, <3>1, CommitMoves
  <2> QED
    BY Zenon, <1>3, <2>1, <2>2
<1>4. ASSUME NEW a \in Actors, NEW phase, NEW req, NEW orders, Start(a, phase, req, orders),
             phase = "key" \/ req.op \notin Correlating
      PROVE  txn'[c].phase = "wait" /\ c \in writers'
  <2>1. PICK s \in orders : txn' = [txn EXCEPT ![a] = Txn(phase, req, s, {}, NoApproval, <<>>)]
    BY Zenon, <1>4 DEF Start
  <2>2. Txn(phase, req, s, {}, NoApproval, <<>>).phase = phase
        /\ Txn(phase, req, s, {}, NoApproval, <<>>).req = req
    BY Zenon DEF Txn
  <2>3. writers' = writers
    BY Zenon, <1>4 DEF Start, access
  <2> QED
    BY Zenon, <1>1, <1>4, <2>1, <2>2, <2>3
<1>5. ASSUME NEW a \in Clients, BeginPatch(a) \/ BeginNote(a) \/ BeginBulk(a) \/ BeginRisk(a)
      PROVE  txn'[c].phase = "wait" /\ c \in writers'
  BY Zenon, <1>4, <1>5
     DEF BeginPatch, BeginNote, BeginBulk, BeginRisk, Actors, Correlating
<1>6. ASSUME NEW a \in Clients, BeginMerge(a) \/ BeginSplit(a) \/ Resend(a) PROVE txn'[c].phase = "wait" /\ c \in writers'
  BY Zenon, <1>4, <1>6 DEF BeginMerge, BeginSplit, Resend, Actors
<1>7. ASSUME NEW a \in Workers, BeginImport(a) PROVE txn'[c].phase = "wait" /\ c \in writers'
  BY Zenon, <1>4, <1>7 DEF BeginImport, Actors, Correlating
<1>8. ASSUME NEW a \in Clients, LockKey(a) PROVE txn'[c].phase = "wait" /\ c \in writers'
  <2>1. CASE ~Rollback(a)
    <3>1. /\ txn' = [txn EXCEPT ![a] = [txn[a] EXCEPT !.phase = "wait"]]
          /\ a \in writers /\ writers' = writers
      BY Zenon, <1>8, <2>1 DEF LockKey, access
    <3>2. a \in Actors /\ TxnShape(txn[a])
      BY Zenon DEF Actors, TInv, TxnInv
    <3>3. [txn[a] EXCEPT !.phase = "wait"].phase = "wait"
      BY Zenon, <3>2 DEF TxnShape
    <3> QED
      BY Zenon, <1>1, <3>1, <3>2, <3>3
  <2> QED
    BY Zenon, <1>3, <2>1 DEF Actors
<1>9. ASSUME NEW a \in Clients, Ask(a) PROVE txn'[c].phase = "wait" /\ c \in writers'
  <2>1. CASE ~Rollback(a)
    <3> PICK t, u : /\ t = txn[a]
                    /\ u = Txn("wait", t.req, t.todo, t.held, ApprovalOf(Head(t.todo)), t.writes)
      BY Zenon
    <3>1. t.phase = "ask" /\ txn' = [txn EXCEPT ![a] = u] /\ writers' = writers
      BY Zenon, <1>9, <2>1 DEF Ask, access
    <3>2. u.req = t.req /\ u.phase = "wait"
      BY Zenon DEF Txn
    <3> QED
      BY Zenon, <1>1, <3>1, <3>2 DEF Actors
  <2> QED
    BY Zenon, <1>3, <2>1 DEF Actors
<1>10. ASSUME NEW a \in Actors, Grab(a) PROVE txn'[c].phase = "wait" /\ c \in writers'
  <2>1. CASE ~Rollback(a)
    <3> PICK t, p, w :
          /\ t = txn[a]
          /\ p = IF Len(t.todo) > 1 /\ t.req.op \in Edits THEN "ask" ELSE "wait"
          /\ w = IF t.req.op \in Edits
                 THEN Append(t.writes, Choice(Head(t.todo),
                                              Patched(Before(a, Head(t.todo)), t.req.patch)))
                 ELSE t.writes
      BY Zenon
    <3> PICK u : u = Txn(p, t.req, Tail(t.todo), t.held \cup {Head(t.todo)}, NoApproval, w)
      BY Zenon
    <3>1. t.phase = "wait" /\ writers' = writers /\ txn' = [txn EXCEPT ![a] = u]
      BY Zenon, <1>10, <2>1 DEF Grab, access
    <3>2. u.req = t.req /\ u.phase = p
      BY Zenon DEF Txn
    <3>3. p = "wait" \/ t.req.op \in Edits
      BY Zenon
    <3>4. t.req.op \in Edits => t.req.op \notin Correlating
      BY Zenon DEF Edits, Correlating
    <3> QED
      BY Zenon, <1>1, <3>1, <3>2, <3>3, <3>4
  <2> QED
    BY Zenon, <1>3, <2>1
<1>11. CASE Holds
  <2>1. txn' = txn
    BY Zenon, <1>11 DEF Holds, BeginChange, BeginPreview, Hold, CommitHold, DropHold
  <2>2. txn[c].phase = "wait" /\ c \in writers
    BY Zenon, <2>1 DEF MayWrite
  <2>3. CASE writers' = writers
    BY Zenon, <2>1, <2>2, <2>3
  <2>4. CASE CommitHold /\ writers' # writers
    <3>1. PICK d \in holding :
            /\ ~HoldWaits(d, c) /\ d.op = "role"
            /\ writers' = IF d.role = "writer" THEN writers \cup {d.of} ELSE writers \ {d.of}
      BY Zenon, <2>4 DEF CommitHold
    <3>2. d.of # c
      BY Zenon, <2>1, <2>2, <3>1 DEF HoldWaits, Admitted, Correlating
    <3> QED
      BY Zenon, <2>1, <2>2, <3>1, <3>2
  <2> QED
    BY Zenon, <1>11, <2>3, <2>4 DEF Holds, BeginChange, BeginPreview, Hold, DropHold
<1>12. CASE UNCHANGED triageVars
  BY Zenon, <1>12 DEF triageVars, MayWrite
<1> QED
  BY Zenon, <1>3, <1>5, <1>6, <1>7, <1>8, <1>9, <1>10, <1>11, <1>12, NextSteps

\* What mergeFindings or splitFinding commits was reviewed, and by a client who
\* may still write: the two findings are as the reviewer saw them, however long
\* the request waited for their rows.
THEOREM ReviewsCurrent == TriageSpec => ReviewedIsCurrent
<1>0. TriageSpec => []MayWrite
  <2>1. TriageInit => MayWrite
    <3>1. Idle(NoRequest).phase = "idle"
      BY Zenon DEF Idle, Txn
    <3> QED
      BY Zenon, <3>1 DEF TriageInit, MayWrite, Actors
  <2>2. TInv /\ MayWrite /\ [TriageNext]_triageVars => MayWrite'
    BY Zenon, MayWriteKept
  <2> QED
    BY <2>1, <2>2, TInvAlways, PTL DEF TriageSpec
<1> DEFINE Step == \A c \in Clients, k \in Keys :
          correlated[k] # correlated'[k] /\ txn[c].phase # "idle" /\ txn'[c].phase = "idle"
            => /\ c \in writers
               /\ \A f \in {txn[c].req.primary, txn[c].req.other} :
                    Reviewed(f, f)[f] = txn[c].req.saw[f]
<1>1. TInv /\ MayWrite /\ [TriageNext]_triageVars => [Step]_triageVars
  <2> SUFFICES ASSUME TInv, MayWrite, [TriageNext]_triageVars, NEW c \in Clients, NEW k \in Keys,
                      correlated[k] # correlated'[k], txn[c].phase # "idle",
                      txn'[c].phase = "idle"
               PROVE  /\ c \in writers
                      /\ \A f \in {txn[c].req.primary, txn[c].req.other} :
                           Reviewed(f, f)[f] = txn[c].req.saw[f]
    BY Zenon
  <2> PICK r : r = txn[c].req
    BY Zenon
  <2>1. PICK b \in Actors : Commits(b)
    BY Zenon, TablesKept DEF tables
  <2>2. End(b) /\ c \in Actors
    BY Zenon, <2>1, CommitMoves DEF Actors
  <2>3. b = c
    BY Zenon, <2>2 DEF End, TInv, Tables
  <2>4. ~Rollback(c)
    BY Zenon DEF Rollback, tables
  <2>5. PICK op \in Correlating : Ready(c, op) /\ Current(r)
    BY Zenon, <2>1, <2>3, <2>4
       DEF Commits, CommitPatch, CommitBulk, CommitNote, CommitImport, CommitMerge, CommitSplit,
           MergeStands, Correlating
  <2>w. c \in writers
    BY Zenon, <2>5 DEF MayWrite, Ready
  <2> SUFFICES ASSUME NEW f \in {r.primary, r.other} PROVE Reviewed(f, f)[f] = r.saw[f]
    BY Zenon, <2>w
  <2>6. SawInv(r.saw[f], triaged[f], approvals[f]) /\ f \in {r.primary, r.other}
    BY Zenon, <2>2, <2>5, ReadyHolds DEF TxnInv, Reviewing, Ready
  <2>7. triaged[f].rev = r.saw[f].rev /\ triaged[f].ev = r.saw[f].ev
    BY Zenon, <2>5, <2>6 DEF Current
  <2>8. Reviewed(f, f)[f] = [rev |-> triaged[f].rev, ev |-> triaged[f].ev,
                             decision |-> DecisionOf(triaged[f], LatestOf(triaged[f].disp, approvals[f])),
                             notes |-> triaged[f].notes]
    BY Zenon DEF Reviewed, Decision, ApprovalOf
  <2> QED
    BY Zenon, <2>6, <2>7, <2>8 DEF SawInv
<1> QED
  BY <1>0, <1>1, TInvAlways, PTL DEF TriageSpec, ReviewedIsCurrent

\* bulkPatchFindings leaves the whole selection alone once a merge has hidden
\* one of it, and nobody else writes the rows it holds.
THEOREM BulkSpares == TriageSpec => BulkSparesSecondaries
<1> DEFINE Step == \A c \in Clients :
          Ready(c, "bulk") \/ Ready(c, "risk")
            => \A f \in txn[c].req.ids : ~Visible(f) =>
                 \A e \in txn[c].req.ids : triaged'[e] = triaged[e]
<1>1. TInv /\ [TriageNext]_triageVars => [Step]_triageVars
  <2> SUFFICES ASSUME TInv, [TriageNext]_triageVars, NEW c \in Clients,
                      NEW op \in {"bulk", "risk"}, Ready(c, op),
                      NEW f \in txn[c].req.ids, ~Visible(f), NEW e \in txn[c].req.ids
               PROVE  triaged'[e] = triaged[e]
    BY Zenon
  <2>1. c \in Actors
    BY Zenon DEF Actors
  <2>2. e \in Findings /\ e \in txn[c].held
    BY Zenon, <2>1, ReadyHolds DEF Ready, Wanted, Correlating
  <2>3. CASE UNCHANGED tables
    BY Zenon, <2>3 DEF tables
  <2>4. ASSUME NEW b \in Actors, Commits(b), b # c PROVE triaged'[e] = triaged[e]
    <3>1. Moved(b)
      BY Zenon, <2>4, CommitMoves
    <3>2. e \notin txn[b].held
      BY Zenon, <2>1, <2>2, <2>4 DEF TInv, Exclusive
    <3> QED
      BY Zenon, <2>2, <3>1, <3>2 DEF Moved, RowKept
  <2>5. CASE Commits(c)
    <3>1. CommitBulk(c)
      BY Zenon, <2>5 DEF Commits, Ready, CommitPatch, CommitNote, CommitImport, CommitMerge, CommitSplit
    <3>2. Rollback(c)
      BY Zenon, <3>1 DEF CommitBulk
    <3> QED
      BY Zenon, <3>2 DEF Rollback, tables
  <2> QED
    BY Zenon, <2>3, <2>4, <2>5, TablesKept
<1> QED
  BY <1>1, TInvAlways, PTL DEF TriageSpec, BulkSparesSecondaries

\* A set of finding ids has a last one.
LEMMA LastId ==
  ASSUME NEW H, H \subseteq Findings, H # {}
  PROVE  \E h \in H : \A e \in H : ~(h < e)
<1> DEFINE above(h) == {e \in Findings : h < e}
           C == {Cardinality(above(h)) : h \in H}
<1>1. \A h \in H : above(h) \in SUBSET Findings
  BY Zenon
<1>2. IsFiniteSet(Findings) /\ Findings \subseteq Nat
  BY Zenon, TriageAssumption
<1>3. \A h \in H : IsFiniteSet(above(h)) /\ Cardinality(above(h)) \in Nat
  BY Zenon, <1>1, <1>2, FS_Subset, FS_CardinalityType
<1>4. C \subseteq Nat /\ C # {}
  BY Zenon, <1>3
<1>5. \E n \in C : \A m \in C : ~(<<m, n>> \in OpToRel(<, Nat))
  BY Zenon, <1>4, WFMin, NatLessThanWellFounded
<1>6. \A m, n \in Nat : ~(<<m, n>> \in OpToRel(<, Nat)) => n =< m
  BY DEF OpToRel
<1>7. \E n \in C : \A m \in C : n =< m
  BY Zenon, <1>4, <1>5, <1>6
<1>8. PICK h \in H : \A e \in H : Cardinality(above(h)) =< Cardinality(above(e))
  BY Zenon, <1>7
<1>9. ASSUME NEW e \in H, h < e PROVE FALSE
  <2>1. h \in Nat /\ e \in Nat /\ e \in Findings
    BY Zenon, <1>2
  <2>2. above(e) \subseteq above(h)
    <3>1. ASSUME NEW x \in Findings, e < x PROVE h < x
      <4>1. x \in Nat
        BY Zenon, <1>2
      <4> QED
        BY <1>9, <2>1, <3>1, <4>1
    <3> QED
      BY Zenon, <3>1
  <2>3. e \in above(h) /\ e \notin above(e)
    BY <1>9, <2>1
  <2>4. Cardinality(above(h)) =< Cardinality(above(e))
    BY Zenon, <1>8
  <2> PICK A, B : A = above(h) /\ B = above(e)
    BY Zenon
  <2>5. IsFiniteSet(A) /\ B \in SUBSET A
    BY Zenon, <1>3, <2>2
  <2>6. Cardinality(B) <= Cardinality(A) /\ (Cardinality(A) = Cardinality(B) => A = B)
    BY Zenon, <2>5, FS_Subset
  <2>7. Cardinality(A) \in Nat /\ Cardinality(B) \in Nat
    BY Zenon, <1>3
  <2> HIDE DEF above
  <2> QED
    BY <2>3, <2>4, <2>6, <2>7
<1> QED
  BY Zenon, <1>9
\* What requests and imports wait for each other for.
LEMMA RowOrKey ==
  ASSUME NEW a \in Actors, NEW b \in Actors, Waits(a, b)
  PROVE  WaitsForRow(a, b) \/ WaitsForKey(a, b)
<1>1. a # Holder /\ b # Holder
  BY Zenon, TriageAssumption DEF Actors
<1> QED
  BY Zenon, <1>1 DEF Waits

\* These imports hold no row that comes after the one they wait for.
Climbing(s) ==
    \A w \in s \cap Workers, f \in Findings : f \in txn[w].held => f < Head(txn[w].todo)

\* Who waits for a row waits for one that precedes the row its holder waits for.
LEMMA WaitsUpwards ==
  ASSUME TInv, NEW s \in SUBSET Actors, Circular(s), Climbing(s), NEW a \in s,
         txn[a].phase = "wait" /\ txn[a].todo # <<>>
  PROVE  \E b \in s : /\ txn[b].phase = "wait" /\ txn[b].todo # <<>>
                      /\ Head(txn[a].todo) < Head(txn[b].todo)
<1>1. PICK b \in s : WaitsForRow(a, b) \/ WaitsForKey(a, b)
  BY Zenon, RowOrKey DEF Circular
<1>2. Head(txn[a].todo) \in txn[b].held
  BY Zenon, <1>1 DEF WaitsForRow, WaitsForKey
<1> PICK t : t = txn[b]
  BY Zenon
<1>3. b \in Actors
  BY Zenon
<1>4. TxnInv(b, t, triaged, approvals)
  BY Zenon, <1>3 DEF TInv
<1>5. t.phase # "key"
  BY Zenon, <1>2, <1>4 DEF TxnInv, Locking
<1>6. \E d \in s : WaitsForRow(b, d) \/ WaitsForKey(b, d)
  BY Zenon, RowOrKey DEF Circular
<1>7. t.phase = "wait" /\ t.todo # <<>>
  BY Zenon, <1>5, <1>6 DEF WaitsForRow, WaitsForKey
<1>8. t.todo \in Seq(Findings) /\ t.held \in SUBSET Findings
  BY Zenon, <1>4 DEF TxnInv, TxnShape
<1>9. Head(t.todo) = t.todo[1] /\ 1 \in 1..Len(t.todo)
  BY <1>7, <1>8, TodoFacts
<1>10. CASE b \in Clients
  <2>1. Ascending(t)
    BY Zenon, <1>4, <1>10 DEF TxnInv
  <2> QED
    BY Zenon, <1>2, <1>7, <1>9, <2>1 DEF Ascending
<1>11. CASE b \in Workers
  BY Zenon, <1>2, <1>7, <1>8, <1>11 DEF Climbing
<1> QED
  BY Zenon, <1>3, <1>10, <1>11 DEF Actors

\* A circle of them would have a last row that one of them waits for, and its
\* holder would wait for a later one.
LEMMA NoRowCircle ==
  ASSUME TInv, NEW s \in SUBSET Actors, Circular(s), Climbing(s)
  PROVE  FALSE
<1> DEFINE W == {a \in s : txn[a].phase = "wait" /\ txn[a].todo # <<>>}
           H == {Head(txn[a].todo) : a \in W}
<1>1. W # {}
  <2>1. PICK a \in s : TRUE
    BY Zenon DEF Circular
  <2>2. PICK b \in s : WaitsForRow(a, b) \/ WaitsForKey(a, b)
    BY Zenon, RowOrKey DEF Circular
  <2>3. CASE a \notin W
    <3>1. txn[b].phase = "wait"
      BY Zenon, <2>2, <2>3 DEF WaitsForRow, WaitsForKey, Admitted
    <3>2. PICK d \in s : WaitsForRow(b, d) \/ WaitsForKey(b, d)
      BY Zenon, RowOrKey DEF Circular
    <3> QED
      BY Zenon, <3>1, <3>2 DEF WaitsForRow, WaitsForKey
  <2> QED
    BY Zenon, <2>3
<1>2. \A a \in W : Head(txn[a].todo) \in Findings
  BY Zenon, TodoFacts DEF TInv, TxnInv, TxnShape
<1>3. H # {} /\ H \subseteq Findings
  BY Zenon, <1>1, <1>2
<1>4. PICK h \in H : \A e \in H : ~(h < e)
  <2> HIDE DEF H
  <2> QED
    BY Zenon, <1>3, LastId
<1>5. PICK a \in W : h = Head(txn[a].todo)
  BY Zenon
<1>6. PICK b \in W : h < Head(txn[b].todo)
  BY Zenon, <1>5, WaitsUpwards
<1> QED
  BY Zenon, <1>4, <1>6

\* The rows of patchFinding, bulkPatchFindings, mergeFindings and splitFinding
\* are locked in ascending order, so these requests never wait for each other in
\* a circle: a circle has in it changeUserRole or createAssessmentPreview, which
\* holds the workspace, and a merge that makes a group and waits for it, or a
\* reconciliation that holds a row that comes after the one it waits for.
THEOREM CirclesKnown == TriageSpec => []CirclesAreKnown
<1>1. TInv => CirclesAreKnown
  <2> SUFFICES ASSUME TInv, NEW s \in SUBSET Waiting, Circular(s),
                      ~(Holder \in s /\ \E c \in s \cap Clients : MakesGroup(c)),
                      Climbing(s)
               PROVE  FALSE
    BY Zenon DEF CirclesAreKnown, Climbing
  <2> DEFINE u == s \cap Actors
  <2>1. Holder \notin Actors /\ s \subseteq Actors \cup {Holder}
    BY Zenon, TriageAssumption DEF Actors, Waiting
  <2>2. u # {}
    <3>1. PICK a \in s, b \in s : Waits(a, b)
      BY Zenon DEF Circular
    <3>2. CASE a = Holder
      <4>1. b \in Clients
        BY Zenon, <2>1, <3>1, <3>2 DEF Waits, Actors
      <4> QED
        BY Zenon, <4>1 DEF Actors
    <3> QED
      BY Zenon, <2>1, <3>2
  <2>3. ASSUME NEW a \in u PROVE \E b \in u : Waits(a, b)
    <3>1. PICK b \in s : Waits(a, b)
      BY Zenon DEF Circular
    <3>2. CASE b = Holder
      <4>1. a # Holder
        BY Zenon, <2>1
      <4>2. a \in Clients /\ MakesGroup(a)
        BY Zenon, <2>1, <3>1, <3>2, <4>1 DEF Waits
      <4> QED
        BY Zenon, <3>2, <4>2
    <3> QED
      BY Zenon, <2>1, <3>1, <3>2
  <2>4. Circular(u) /\ u \in SUBSET Actors /\ Climbing(u)
    <3>1. Circular(u)
      BY Zenon, <2>2, <2>3 DEF Circular
    <3> QED
      BY Zenon, <3>1 DEF Climbing
  <2> HIDE DEF u
  <2> QED
    BY Zenon, <2>4, NoRowCircle
<1> QED
  BY <1>1, TInvAlways, PTL

\* mergeFindings and splitFinding keep the correlations sound, whatever requests
\* cross: only they write finding_correlations, and they check the groups again
\* once they hold the rows.
THEOREM GroupsSound == TriageSpec => []GroupsAreSound
<1>1. TriageInit => GroupsInv(groups)
  BY Zenon, EmptyList DEF TriageInit, GroupsInv, Apart
<1>2. GroupsInv(groups) /\ [TriageNext]_triageVars => GroupsInv(groups)'
  <2> SUFFICES ASSUME GroupsInv(groups), [TriageNext]_triageVars PROVE GroupsInv(groups')
    BY Zenon DEF GroupsInv, Apart, IsList, Fine, Act
  <2>1. CASE groups' = groups
    BY Zenon, <2>1
  <2>2. ASSUME NEW a \in Actors, Commits(a), groups' # groups PROVE GroupsInv(groups')
    <3>1. ~Rollback(a)
      BY Zenon, <2>2 DEF Rollback, tables
    <3>2. CASE CommitMerge(a)
      <4> PICK p, o, g : /\ p = txn[a].req.primary /\ o = txn[a].req.other
                         /\ g = IF GroupsOf(p) = {} THEN 0 ELSE CHOOSE x \in GroupsOf(p) : TRUE
        BY Zenon
      <4>1. Mergeable(p, o) /\ Merge(a, p, o, g)
        BY Zenon, <3>1, <3>2 DEF CommitMerge, MergeStands
      <4> QED
        BY Zenon, <4>1, MergeGroups, SizesHold
    <3>3. CASE CommitSplit(a)
      <4>1. \E g \in Splittable(txn[a].req.primary, txn[a].req.other) :
              ReleaseMember(g, txn[a].req.other)
        BY Zenon, <3>1, <3>3 DEF CommitSplit
      <4> QED
        BY Zenon, <4>1, SplitGroups, SizesHold
    <3> QED
      BY Zenon, <2>2, <3>1, <3>2, <3>3
         DEF Commits, CommitPatch, CommitBulk, CommitNote, CommitImport
  <2>3. UNCHANGED tables => groups' = groups
    BY Zenon DEF tables
  <2> QED
    BY Zenon, <2>1, <2>2, <2>3, TablesKept
<1>3. GroupsInv(groups) => GroupsAreSound
  BY Zenon, GroupsInvSound
<1> QED
  BY <1>1, <1>2, <1>3, PTL DEF TriageSpec
=============================================================================
