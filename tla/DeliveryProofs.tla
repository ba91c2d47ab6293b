--------------------------- MODULE DeliveryProofs ---------------------------
(***************************************************************************)
(* Proofs about Delivery and Notifications for any number of intents,        *)
(* workers, connections, users, policies and changes: at most one request    *)
(* per intent, honest outcomes, one ticket per finding, and the policy in    *)
(* force decides.                                                           *)
(*                                                                         *)
(* The argument: an intent is dispatched once, because no step leads back to *)
(* "queued"; so at most one worker ever holds it in memory (one holder).     *)
(* That worker has not sent anything before it reaches "wait", and a guarded *)
(* profile reaches "send" only with its marker committed, so recovery        *)
(* records "blocked" only for deliveries that are not and will not be sent.  *)
(***************************************************************************)
EXTENDS Notifications, TLAPS

Busy(w) == proc[w].pc # "idle"

\* What is known about a row, whoever works on it.
RowInv(d) ==
  LET r == delivery[d] IN
  /\ posts[d] \in {0, 1} /\ applied[d] \in {0, 1}
  /\ posts[d] = 0 => applied[d] = 0 /\ d \notin inflight
  /\ d \in inflight => applied[d] = 0
  /\ r.state \in {"absent", "queued"} => posts[d] = 0
  /\ Guarded(r.conn) /\ r.marked = "no" => posts[d] = 0
  /\ r.state \in Refusals => applied[d] = 0 /\ d \notin inflight
  /\ r.state \in Confirmations => applied[d] = 1

\* What is known about a worker that holds a delivery.
ProcInv(w) ==
  LET d == proc[w].intent
      r == delivery[d] IN
  Busy(w) =>
    /\ d \in Intents
    /\ r.state \notin {"absent", "queued"}
    /\ proc[w].pc \in {"preview", "mark", "send"} => posts[d] = 0
    /\ proc[w].pc \in {"send", "wait"} =>
         /\ r.state \in {"dispatching", "uncertain"}
         /\ Guarded(r.conn) => r.marked = "yes"
    /\ proc[w].pc = "finish" =>
         /\ proc[w].outcome \in Final
         /\ proc[w].outcome \in Refusals => applied[d] = 0 /\ d \notin inflight
         /\ proc[w].outcome \in Confirmations => applied[d] = 1

OneHolder ==
  \A w, v \in Workers : Busy(w) /\ Busy(v) /\ proc[w].intent = proc[v].intent => w = v

\* Each Jira delivery holds the reservation of its connection and finding.
Reserved ==
  /\ \A d \in Intents : /\ delivery[d].state # "absent"
                        /\ Profile[delivery[d].conn] = "jira"
                        => d \in ticket
  /\ \A d \in ticket : delivery[d].state # "absent"
  /\ \A d, e \in ticket : /\ delivery[d].conn = delivery[e].conn
                          /\ delivery[d].finding = delivery[e].finding
                          => d = e

DInv ==
  /\ TypeOK
  /\ \A d \in Intents : RowInv(d)
  /\ \A w \in Workers : ProcInv(w)
  /\ OneHolder
  /\ Reserved

-----------------------------------------------------------------------------
\* The empty outbox satisfies the invariant.
LEMMA InitDInv == Init => DInv
<1> SUFFICES ASSUME Init PROVE DInv
  BY Zenon
<1> USE DeliveryConstants DEF Init, RowOf, IdleProc, ProcAt
<1>1. /\ (CHOOSE f \in Findings : TRUE) \in Findings
      /\ (CHOOSE c \in Connections : TRUE) \in Connections
      /\ (CHOOSE u \in Users : TRUE) \in Users
  BY Zenon
<1>2. TypeOK
  BY Zenon, <1>1 DEF TypeOK, Row, Proc, Steps, Final, Refusals, Confirmations
<1>3. \A d \in Intents : RowInv(d)
  BY Zenon DEF RowInv, Refusals, Confirmations
<1>4. (\A w \in Workers : ProcInv(w)) /\ OneHolder /\ Reserved
  BY Zenon DEF ProcInv, OneHolder, Busy, Reserved
<1> QED
  BY Zenon, <1>2, <1>3, <1>4 DEF DInv

-----------------------------------------------------------------------------
\* The updates of a row that the actions make stay within the table's types.
LEMMA RowUpdates ==
  ASSUME NEW r \in Row, NEW s \in Final \cup {"absent", "queued", "dispatching"},
         NEW w \in Workers \cup {Nobody}, NEW n \in Nat, NEW l \in {"none", "live", "expired"}
  PROVE  [r EXCEPT !.state = s, !.worker = w, !.fence = n, !.lease = l] \in Row
BY Zenon DEF Row

LEMMA TableUpdate ==
  ASSUME delivery \in [Intents -> Row], NEW d \in Intents, NEW r \in Row
  PROVE  [delivery EXCEPT ![d] = r] \in [Intents -> Row]
BY Zenon

LEMMA MemoryUpdate ==
  ASSUME proc \in [Workers -> Proc], NEW w \in Workers, NEW p \in Proc
  PROVE  [proc EXCEPT ![w] = p] \in [Workers -> Proc]
BY Zenon

\* Every transaction, request and clock step keeps the types.
LEMMA TypeInductive ==
  ASSUME TypeOK, \A w \in Workers : ProcInv(w), [Next]_deliveryVars
  PROVE  TypeOK'
<1> USE DeliveryConstants DEF TypeOK
<1>f. Final \subseteq Final \cup {"absent", "queued", "dispatching"}
      /\ "blocked" \in Final /\ "uncertain" \in Final /\ Refusals \subseteq Final
      /\ "failed" \in Final /\ "confirmed" \in Final /\ "accepted" \in Final
  BY Zenon DEF Final, Refusals, Confirmations
<1>r. \A d \in Intents : delivery[d] \in Row /\ delivery[d].fence + 1 \in Nat
  BY DEF Row
<1>p. \A w \in Workers : proc[w] \in Proc /\ (Busy(w) => proc[w].intent \in Intents)
  BY Zenon DEF ProcInv
<1>i. IdleProc \in Proc
  BY Zenon DEF IdleProc, ProcAt, Proc, Steps
<1>1. ASSUME NEW d \in Intents, NEW f \in Findings, NEW c \in Connections, NEW u \in Users,
             EnqueueDelivery(d, f, c, u)
      PROVE  TypeOK'
  <2>1. RowOf("queued", f, c, conn[c].revision, u) \in Row
    BY Zenon DEF RowOf, Row
  <2> QED
    BY Zenon, <1>1, <2>1 DEF EnqueueDelivery, InsertDelivery
<1>2. ASSUME NEW c \in Connections, NEW enabled \in {"yes", "no"}, EditConnection(c, enabled)
      PROVE  TypeOK'
  <2>1. conn[c].revision + 1 \in Nat
    OBVIOUS
  <2>2. [enabled |-> enabled, revision |-> conn[c].revision + 1]
          \in [enabled : {"yes", "no"}, revision : Nat]
    BY Zenon, <2>1
  <2> QED
    BY Zenon, <1>2, <2>2 DEF EditConnection
<1>3. ASSUME NEW u \in Users, ChangeRole(u) PROVE TypeOK'
  BY Zenon, <1>3 DEF ChangeRole
<1>4. ASSUME NEW w \in Workers, NEW d \in Intents, NEW s \in Final, delivery' = Settled(d, w, s),
             UNCHANGED <<ticket, conn, writers, proc, posts, inflight, applied>>
      PROVE  TypeOK'
  <2> DEFINE n == delivery[d].fence + 1
             row == [delivery[d] EXCEPT !.state = s, !.worker = w, !.fence = n, !.lease = "none"]
  <2>1. n \in Nat /\ delivery[d] \in Row
    BY Zenon, <1>r
  <2>2. delivery' = [delivery EXCEPT ![d] = row]
    BY Zenon, <1>4 DEF Settled
  <2>3. row \in Row
    <3> HIDE DEF n
    <3> QED BY Zenon, <2>1, <1>f, RowUpdates
  <2> HIDE DEF row
  <2> QED
    BY <1>4, <2>2, <2>3, TableUpdate
<1>5. ASSUME NEW w \in Workers, NEW d \in Intents, ClaimExpired(w, d) PROVE TypeOK'
  BY Zenon, <1>5, <1>4, <1>f DEF ClaimExpired
<1>6. ASSUME NEW w \in Workers, NEW d \in Intents, NEW usable \in BOOLEAN,
             ClaimBlocked(w, d, usable)
      PROVE  TypeOK'
  BY Zenon, <1>6, <1>4, <1>f DEF ClaimBlocked
<1>7. ASSUME NEW w \in Workers, NEW d \in Intents, ClaimDispatch(w, d) PROVE TypeOK'
  <2> DEFINE n == delivery[d].fence + 1
             row == [delivery[d] EXCEPT !.state = "dispatching", !.worker = w, !.fence = n,
                       !.lease = "live"]
             mem == ProcAt(FirstStep(delivery[d].conn), d, n)
  <2>1. n \in Nat /\ delivery[d] \in Row
    BY Zenon, <1>r
  <2>2. FirstStep(delivery[d].conn) \in Steps
    BY Zenon DEF FirstStep, Steps
  <2>3. mem \in Proc
    BY Zenon, <2>1, <2>2 DEF ProcAt, Proc
  <2>4. row \in Row
    <3> HIDE DEF n
    <3> QED BY Zenon, <2>1, <1>f, RowUpdates
  <2>5. /\ delivery' = [delivery EXCEPT ![d] = row]
        /\ proc' = [proc EXCEPT ![w] = mem]
        /\ UNCHANGED <<ticket, conn, writers, posts, inflight, applied>>
    BY Zenon, <1>7 DEF ClaimDispatch
  <2> HIDE DEF row, mem
  <2> QED
    BY Zenon, <2>3, <2>4, <2>5, TableUpdate, MemoryUpdate
<1>8. ASSUME NEW w \in Workers, NEW pc \in Steps, NEW s \in Final \cup {"none"}, Goto(w, pc, s)
      PROVE  proc' \in [Workers -> Proc]
  <2>1. [proc[w] EXCEPT !.pc = pc, !.outcome = s] \in Proc
    BY Zenon, <1>p DEF Proc
  <2> QED
    BY Zenon, <1>8, <1>p, <2>1 DEF Goto
<1>9. ASSUME NEW w \in Workers, Cancel(w) PROVE TypeOK'
  <2>1. [proc[w] EXCEPT !.cancelled = "yes"] \in Proc
    BY Zenon, <1>p DEF Proc
  <2> QED
    BY Zenon, <1>9, <2>1, MemoryUpdate DEF Cancel
<1>10. ASSUME NEW w \in Workers, Preview(w) \/ SendRefused(w) \/ Answer(w) \/ MarkDenied(w)
       PROVE  TypeOK'
  <2>1. proc' \in [Workers -> Proc]
    BY Zenon, <1>10, <1>8, <1>f DEF Preview, SendRefused, Answer, MarkDenied, Steps, SendOutcomes
  <2> QED
    BY Zenon, <1>10, <2>1 DEF Preview, SendRefused, Answer, MarkDenied
<1>m. ASSUME NEW w \in Workers, Busy(w)
      PROVE  [delivery EXCEPT ![proc[w].intent] = [@ EXCEPT !.marked = "yes"]]
                \in [Intents -> Row]
  <2>1. proc[w].intent \in Intents /\ delivery[proc[w].intent] \in Row
    BY Zenon, <1>m, <1>p, <1>r
  <2>2. [delivery[proc[w].intent] EXCEPT !.marked = "yes"] \in Row
    BY Zenon, <2>1 DEF Row
  <2> QED
    BY Zenon, <2>1, <2>2, TableUpdate
<1>11. ASSUME NEW w \in Workers, Mark(w) PROVE TypeOK'
  <2>1. proc' \in [Workers -> Proc]
    BY Zenon, <1>11, <1>8, <1>f DEF Mark, Steps
  <2> QED
    BY Zenon, <1>11, <2>1, <1>m DEF Mark, Busy
<1>12. ASSUME NEW w \in Workers, NEW committed \in BOOLEAN, MarkUnclear(w, committed)
       PROVE  TypeOK'
  <2>1. proc' \in [Workers -> Proc]
    BY Zenon, <1>12, <1>8, <1>f DEF MarkUnclear, Steps
  <2> QED
    BY Zenon, <1>12, <2>1, <1>m DEF MarkUnclear, Busy
<1>13. ASSUME NEW w \in Workers, Post(w) PROVE TypeOK'
  <2>1. proc' \in [Workers -> Proc]
    BY Zenon, <1>13, <1>8 DEF Post, Steps
  <2>2. proc[w].intent \in Intents
    BY Zenon, <1>13, <1>p DEF Post, Busy
  <2> QED
    BY <1>13, <2>1, <2>2 DEF Post
<1>14. ASSUME NEW w \in Workers, Finish(w) PROVE TypeOK'
  <2>1. proc' \in [Workers -> Proc]
    BY Zenon, <1>14, <1>i DEF Finish
  <2>2. /\ proc[w].intent \in Intents /\ proc[w].outcome \in Final
        /\ delivery[proc[w].intent] \in Row
    BY Zenon, <1>14, <1>r DEF Finish, ProcInv, Busy
  <2>3. ASSUME NEW s \in Final
        PROVE  [delivery EXCEPT ![proc[w].intent] = [@ EXCEPT !.lease = "none", !.state = s]]
                   \in [Intents -> Row]
    <3>1. [delivery[proc[w].intent] EXCEPT !.lease = "none", !.state = s] \in Row
      BY Zenon, <2>2, <1>f DEF Row
    <3> QED
      BY Zenon, <2>2, <3>1, TableUpdate
  <2>4. delivery' \in [Intents -> Row]
    BY Zenon, <1>14, <1>f, <2>2, <2>3 DEF Finish
  <2> QED
    BY Zenon, <1>14, <2>1, <2>4 DEF Finish
<1>15. ASSUME NEW w \in Workers, Crash(w) PROVE TypeOK'
  BY Zenon, <1>15, <1>i, MemoryUpdate DEF Crash
<1>16. ASSUME NEW d \in Intents, RemoteApplies(d) \/ RemoteRefuses(d) PROVE TypeOK'
  BY <1>16 DEF RemoteApplies, RemoteRefuses
<1>17. ASSUME NEW d \in Intents, LeaseExpires(d) PROVE TypeOK'
  <2>1. [delivery[d] EXCEPT !.lease = "expired"] \in Row
    <3>1. delivery[d] \in Row
      BY Zenon, <1>r
    <3> QED
      BY Zenon, <3>1 DEF Row
  <2> QED
    BY Zenon, <1>17, <2>1, TableUpdate DEF LeaseExpires
<1>18. CASE UNCHANGED deliveryVars
  BY Zenon, <1>18 DEF deliveryVars
<1>19. ASSUME NEW w \in Workers, Worker(w) PROVE TypeOK'
  BY <1>19, <1>5, <1>6, <1>7, <1>10, <1>11, <1>12, <1>13, <1>14 DEF Worker, Work, Claim
<1> HIDE DEF TypeOK
<1> QED
  BY Zenon, <1>1, <1>2, <1>3, <1>9, <1>15, <1>16, <1>17, <1>18, <1>19 DEF Next

-----------------------------------------------------------------------------
\* The invariants read the state, the connection, the finding and the marker of
\* a row.  Moves: one row gets a new state and marker, the others keep them.
Moves(d, s, m) ==
  \A e \in Intents :
    /\ delivery'[e].state = IF e = d THEN s ELSE delivery[e].state
    /\ delivery'[e].marked = IF e = d THEN m ELSE delivery[e].marked
    /\ delivery'[e].conn = delivery[e].conn
    /\ delivery'[e].finding = delivery[e].finding

\* One worker moves to a step with an outcome; the others keep their memory.
Steers(w, pc, outcome) ==
  \A v \in Workers :
    /\ proc'[v].pc = IF v = w THEN pc ELSE proc[v].pc
    /\ proc'[v].outcome = IF v = w THEN outcome ELSE proc[v].outcome
    /\ proc'[v].intent = proc[v].intent

\* One worker forgets its delivery.
Forgets(w) ==
  \A v \in Workers : IF v = w THEN proc'[v].pc = "idle" ELSE proc'[v] = proc[v]

LEMMA SettledMoves ==
  ASSUME TypeOK, NEW w \in Workers, NEW d \in Intents, NEW s, delivery' = Settled(d, w, s)
  PROVE  Moves(d, s, delivery[d].marked)
<1>1. \A e \in Intents : delivery[e] \in Row
  BY Zenon DEF TypeOK
<1> DEFINE n == delivery[d].fence + 1
<1>2. delivery' = [delivery EXCEPT ![d] = [@ EXCEPT !.state = s, !.worker = w, !.fence = n,
                                             !.lease = "none"]]
  BY Zenon DEF Settled
<1> HIDE DEF n
<1> QED
  BY <1>1, <1>2 DEF Moves, Row, TypeOK

LEMMA DispatchMoves ==
  ASSUME TypeOK, NEW w \in Workers, NEW d \in Intents, ClaimDispatch(w, d)
  PROVE  /\ Moves(d, "dispatching", delivery[d].marked)
         /\ \A v \in Workers : v # w => proc'[v] = proc[v]
         /\ proc'[w].pc = FirstStep(delivery[d].conn) /\ proc'[w].intent = d
<1>1. \A e \in Intents : delivery[e] \in Row
  BY Zenon DEF TypeOK
<1> DEFINE n == delivery[d].fence + 1
<1>2. /\ delivery' = [delivery EXCEPT ![d] = [@ EXCEPT !.state = "dispatching", !.worker = w,
                                                !.fence = n, !.lease = "live"]]
      /\ proc' = [proc EXCEPT ![w] = ProcAt(FirstStep(delivery[d].conn), d, n)]
  BY Zenon DEF ClaimDispatch
<1> HIDE DEF n
<1>3. Moves(d, "dispatching", delivery[d].marked)
  BY <1>1, <1>2 DEF Moves, Row, TypeOK
<1> QED
  BY Zenon, <1>2, <1>3 DEF ProcAt, TypeOK

LEMMA GotoSteers ==
  ASSUME TypeOK, NEW w \in Workers, NEW pc, NEW s, Goto(w, pc, s)
  PROVE  Steers(w, pc, s)
<1>1. \A v \in Workers : proc[v] \in Proc
  BY Zenon DEF TypeOK
<1> QED
  BY Zenon, <1>1 DEF Goto, Steers, Proc, TypeOK

LEMMA MarkerMoves ==
  ASSUME TypeOK, NEW d \in Intents,
         delivery' = [delivery EXCEPT ![d] = [@ EXCEPT !.marked = "yes"]]
  PROVE  Moves(d, delivery[d].state, "yes")
<1>1. \A e \in Intents : delivery[e] \in Row
  BY Zenon DEF TypeOK
<1> QED
  BY Zenon, <1>1 DEF Moves, Row, TypeOK

LEMMA FinishMoves ==
  ASSUME TypeOK, NEW w \in Workers, Finish(w), proc[w].intent \in Intents
  PROVE  LET d == proc[w].intent IN
         /\ Forgets(w)
         /\ \/ delivery' = delivery
            \/ /\ delivery[d].state = "dispatching"
               /\ \/ Moves(d, proc[w].outcome, delivery[d].marked)
                  \/ /\ Guarded(delivery[d].conn)
                     /\ Moves(d, IF delivery[d].marked = "yes" THEN "uncertain" ELSE "blocked",
                              delivery[d].marked)
<1> DEFINE d == proc[w].intent
           s == IF Guarded(delivery[d].conn) /\ ~Authorized(d)
                THEN IF delivery[d].marked = "yes" THEN "uncertain" ELSE "blocked"
                ELSE proc[w].outcome
<1>1. \A e \in Intents : delivery[e] \in Row
  BY Zenon DEF TypeOK
<1>2. Forgets(w)
  BY Zenon DEF Finish, Forgets, IdleProc, ProcAt, TypeOK
<1>3. CASE ~Leased(w)
  BY Zenon, <1>2, <1>3 DEF Finish
<1>4. CASE Leased(w)
  <2>1. delivery' = [delivery EXCEPT ![d] = [@ EXCEPT !.lease = "none", !.state = s]]
    BY Zenon, <1>4 DEF Finish
  <2>2. Moves(d, s, delivery[d].marked)
    <3> HIDE DEF s
    <3> QED BY <1>1, <2>1 DEF Moves, Row, TypeOK
  <2> QED
    BY Zenon, <1>2, <1>4, <2>2 DEF Leased
<1> QED
  BY Zenon, <1>3, <1>4

-----------------------------------------------------------------------------
\* Frame lemmas: what is known about the rows and workers a step leaves alone.
SameRemote(d) ==
  /\ posts'[d] = posts[d]
  /\ applied'[d] = applied[d]
  /\ d \in inflight' <=> d \in inflight

LEMMA RowKept ==
  ASSUME NEW d \in Intents, RowInv(d), SameRemote(d),
         delivery'[d].state = delivery[d].state, delivery'[d].conn = delivery[d].conn,
         delivery'[d].marked = delivery[d].marked
  PROVE  RowInv(d)'
BY Zenon DEF RowInv, SameRemote, Guarded

\* What a busy worker may count on.
LEMMA ProcSays ==
  ASSUME NEW w \in Workers, ProcInv(w), Busy(w), NEW d, proc[w].intent = d
  PROVE  /\ d \in Intents /\ delivery[d].state \notin {"absent", "queued"}
         /\ proc[w].pc \in {"send", "wait"} => delivery[d].state \in {"dispatching", "uncertain"}
  BY Zenon DEF ProcInv

\* A worker that keeps its memory keeps what is known about it, if its row only
\* moves among the states that the worker does not depend on.
LEMMA ProcKept ==
  ASSUME NEW w \in Workers, ProcInv(w), proc'[w].pc = proc[w].pc,
         proc'[w].intent = proc[w].intent, proc'[w].outcome = proc[w].outcome,
         \A d \in Intents : Busy(w) /\ proc[w].intent = d =>
           /\ SameRemote(d)
           /\ delivery'[d].state \notin {"absent", "queued"}
           /\ delivery'[d].conn = delivery[d].conn
           /\ delivery[d].marked = "yes" => delivery'[d].marked = "yes"
           /\ proc[w].pc \in {"send", "wait"} =>
                delivery'[d].state \in {"dispatching", "uncertain"}
  PROVE  ProcInv(w)'
<1>1. Busy(w)' <=> Busy(w)
  BY Zenon DEF Busy
<1> QED
  BY <1>1 DEF ProcInv, SameRemote, Guarded

\* So does one whose row stands.
LEMMA ProcSame ==
  ASSUME NEW w \in Workers, ProcInv(w), proc'[w].pc = proc[w].pc,
         proc'[w].intent = proc[w].intent, proc'[w].outcome = proc[w].outcome,
         \A d \in Intents : Busy(w) /\ proc[w].intent = d =>
           /\ SameRemote(d)
           /\ delivery'[d].state = delivery[d].state
           /\ delivery'[d].conn = delivery[d].conn
           /\ delivery'[d].marked = delivery[d].marked
  PROVE  ProcInv(w)'
  BY Zenon, ProcSays, ProcKept

\* Nobody takes up a delivery in this step.
LEMMA HolderKept ==
  ASSUME OneHolder,
         \A v \in Workers : Busy(v)' => Busy(v) /\ proc'[v].intent = proc[v].intent
  PROVE  OneHolder'
BY Zenon DEF OneHolder

\* No delivery is accepted in this step.
LEMMA ReservedKept ==
  ASSUME Reserved, ticket \subseteq Intents, ticket' = ticket,
         \A d \in Intents : /\ delivery'[d].state = "absent" <=> delivery[d].state = "absent"
                            /\ delivery'[d].conn = delivery[d].conn
                            /\ delivery'[d].finding = delivery[d].finding
  PROVE  Reserved'
BY DEF Reserved

Rest == /\ \A d \in Intents : RowInv(d)
        /\ \A w \in Workers : ProcInv(w)
        /\ OneHolder
        /\ Reserved

\* An accepted intent is new: no worker holds it, and its ticket is free.
LEMMA EnqueueKeeps ==
  ASSUME DInv, NEW d \in Intents, NEW f \in Findings, NEW c \in Connections, NEW u \in Users,
         EnqueueDelivery(d, f, c, u)
  PROVE  Rest'
<1> DEFINE row == RowOf("queued", f, c, conn[c].revision, u)
<1>1. /\ delivery[d].state = "absent"
      /\ delivery' = [delivery EXCEPT ![d] = row]
      /\ Profile[c] = "jira" => ~TicketTaken(c, f)
      /\ ticket' = IF Profile[c] = "jira" THEN ticket \cup {d} ELSE ticket
      /\ proc' = proc /\ posts' = posts /\ inflight' = inflight /\ applied' = applied
  BY Zenon DEF EnqueueDelivery, InsertDelivery
<1>2. /\ row.state = "queued" /\ row.conn = c /\ row.finding = f /\ row.marked = "no"
  BY Zenon DEF RowOf
<1>3. /\ delivery'[d] = row
      /\ \A e \in Intents : e # d => delivery'[e] = delivery[e]
  BY Zenon, <1>1 DEF DInv, TypeOK
<1> HIDE DEF row
<1>4. \A e \in Intents : RowInv(e)'
  BY <1>1, <1>2, <1>3 DEF DInv, RowInv, Refusals, Confirmations, Guarded
<1>5. ASSUME NEW w \in Workers PROVE ProcInv(w)'
  <2>1. Busy(w) => proc[w].intent \in Intents /\ proc[w].intent # d
    BY Zenon, <1>1 DEF DInv, ProcInv
  <2>2. ProcInv(w)
    BY Zenon DEF DInv
  <2>3. \A e \in Intents : SameRemote(e)
    BY Zenon, <1>1 DEF SameRemote
  <2> QED
    BY Zenon, <1>1, <1>3, <2>1, <2>2, <2>3, ProcSame
<1>6. OneHolder'
  BY Zenon, <1>1, HolderKept DEF DInv, Busy
<1>7. Reserved'
  <2>1. ticket \subseteq Intents /\ Reserved
    BY Zenon DEF DInv, TypeOK
  <2>2. d \notin ticket
    BY Zenon, <1>1, <2>1 DEF Reserved
  <2>3. Profile[c] = "jira" =>
          \A e \in ticket : ~(delivery[e].conn = c /\ delivery[e].finding = f)
    BY Zenon, <1>1 DEF TicketTaken
  <2> QED
    BY <1>1, <1>2, <1>3, <2>1, <2>2, <2>3 DEF Reserved
<1> QED
  BY Zenon, <1>4, <1>5, <1>6, <1>7 DEF Rest

\* A row that is settled by a claim was queued, or had a holder that stalled:
\* the holder may be about to send only when the row becomes "uncertain".
LEMMA SettleKeeps ==
  ASSUME DInv, NEW w \in Workers, NEW d \in Intents, NEW s \in Final,
         delivery' = Settled(d, w, s),
         UNCHANGED <<ticket, conn, writers, proc, posts, inflight, applied>>,
         \/ delivery[d].state = "queued" /\ s = "blocked"
         \/ /\ delivery[d].state = "dispatching"
            /\ s = IF Guarded(delivery[d].conn) /\ delivery[d].marked = "no"
                   THEN "blocked" ELSE "uncertain"
  PROVE  Rest'
<1>1. Moves(d, s, delivery[d].marked)
  BY Zenon, SettledMoves DEF DInv
<1>2. ASSUME NEW e \in Intents PROVE RowInv(e)'
  <2>1. RowInv(e)
    BY Zenon DEF DInv
  <2> QED
    BY Zenon, <1>1, <2>1 DEF Moves, RowInv, Refusals, Confirmations, Guarded
<1>3. ASSUME NEW v \in Workers PROVE ProcInv(v)'
  <2>1. ProcInv(v)
    BY Zenon DEF DInv
  <2>2. delivery[d].marked \in {"no", "yes"} /\ s \notin {"absent", "queued"}
    BY Zenon DEF DInv, TypeOK, Row, Final, Refusals, Confirmations
  <2>3. CASE ~Busy(v)
    BY Zenon, <2>3 DEF ProcInv, Busy
  <2>4. CASE Busy(v)
    <3> DEFINE e == proc[v].intent
    <3>1. e \in Intents /\ delivery[e].state \notin {"absent", "queued"}
      BY Zenon, <2>1, <2>4 DEF ProcInv
    <3>2. /\ delivery'[e].state \notin {"absent", "queued"}
          /\ delivery'[e].conn = delivery[e].conn
          /\ delivery'[e].marked = delivery[e].marked
      BY Zenon, <1>1, <2>2, <3>1 DEF Moves
    <3>3. proc[v].pc \in {"send", "wait"} => delivery'[e].state \in {"dispatching", "uncertain"}
      BY Zenon, <1>1, <2>1, <2>4, <3>1 DEF ProcInv, Moves
    <3>4. SameRemote(e)
      BY Zenon DEF SameRemote
    <3> QED
      BY Zenon, <2>1, <3>2, <3>3, <3>4, ProcKept
  <2> QED
    BY Zenon, <2>3, <2>4
<1>4. OneHolder'
  BY Zenon, HolderKept DEF DInv, Busy
<1>5. Reserved'
  BY Zenon, <1>1, ReservedKept DEF DInv, TypeOK, Moves, Final, Refusals, Confirmations
<1> QED
  BY Zenon, <1>2, <1>3, <1>4, <1>5 DEF Rest

\* A dispatched delivery was queued, so no other worker holds it.
LEMMA DispatchKeeps ==
  ASSUME DInv, NEW w \in Workers, NEW d \in Intents, ClaimDispatch(w, d)
  PROVE  Rest'
<1>1. /\ Moves(d, "dispatching", delivery[d].marked)
      /\ \A v \in Workers : v # w => proc'[v] = proc[v]
      /\ proc'[w].pc = FirstStep(delivery[d].conn) /\ proc'[w].intent = d
  BY Zenon, DispatchMoves DEF DInv
<1>2. /\ delivery[d].state = "queued" /\ posts[d] = 0
      /\ proc[w].pc = "idle"
      /\ UNCHANGED <<ticket, conn, writers, posts, inflight, applied>>
  BY Zenon DEF ClaimDispatch, DInv, RowInv
<1>3. ASSUME NEW e \in Intents PROVE RowInv(e)'
  <2>1. RowInv(e)
    BY Zenon DEF DInv
  <2> QED
    BY Zenon, <1>1, <1>2, <2>1 DEF Moves, RowInv, Refusals, Confirmations, Guarded
<1>4. ASSUME NEW v \in Workers PROVE ProcInv(v)'
  <2>1. CASE v = w
    <3>1. /\ Profile[delivery[d].conn] = "slack" => FirstStep(delivery[d].conn) = "send"
          /\ Profile[delivery[d].conn] # "slack" =>
               FirstStep(delivery[d].conn) \in {"preview", "mark"}
      BY Zenon DEF FirstStep
    <3>2. /\ delivery'[d].state = "dispatching" /\ delivery'[d].conn = delivery[d].conn
          /\ posts'[d] = 0
      BY Zenon, <1>1, <1>2 DEF Moves
    <3> QED
      BY Zenon, <1>1, <2>1, <3>1, <3>2 DEF ProcInv, Guarded
  <2>2. CASE v # w
    <3>1. ProcInv(v)
      BY Zenon DEF DInv
    <3>2. proc'[v] = proc[v]
      BY Zenon, <1>1, <2>2
    <3>3. ASSUME Busy(v)
          PROVE  /\ proc[v].intent \in Intents /\ proc[v].intent # d
                 /\ SameRemote(proc[v].intent)
      BY Zenon, <1>2, <3>1, <3>3 DEF ProcInv, SameRemote
    <3>4. ASSUME Busy(v)
          PROVE  LET e == proc[v].intent IN
                   /\ delivery'[e].state = delivery[e].state
                   /\ delivery'[e].conn = delivery[e].conn
                   /\ delivery'[e].marked = delivery[e].marked
      BY Zenon, <1>1, <3>3, <3>4 DEF Moves
    <3> QED
      BY Zenon, <3>1, <3>2, <3>3, <3>4, ProcSame
  <2> QED
    BY Zenon, <2>1, <2>2
<1>5. OneHolder'
  <2>1. \A v \in Workers : Busy(v) => proc[v].intent # d
    BY Zenon, <1>2 DEF DInv, ProcInv
  <2> QED
    BY <1>1, <1>2, <2>1 DEF DInv, OneHolder, Busy
<1>6. Reserved'
  BY Zenon, <1>1, <1>2, ReservedKept DEF DInv, TypeOK, Moves
<1> QED
  BY Zenon, <1>3, <1>4, <1>5, <1>6 DEF Rest

\* A worker moves on, at most committing its marker or sending its request.
\* Whatever it will record at the end is already true of the remote service.
LEMMA SteerKeeps ==
  ASSUME DInv, NEW w \in Workers, NEW pc \in Steps, NEW o, Busy(w), pc # "idle",
         Steers(w, pc, o),
         UNCHANGED <<ticket, applied>>,
         LET d == proc[w].intent IN
         /\ \/ delivery' = delivery
            \/ Moves(d, delivery[d].state, "yes")
         /\ \/ UNCHANGED <<posts, inflight>>
            \/ /\ proc[w].pc = "send"
               /\ posts' = [posts EXCEPT ![d] = posts[d] + 1]
               /\ inflight' = inflight \cup {d},
         ProcInv(w)'
  PROVE  Rest'
<1> DEFINE d == proc[w].intent
<1>1. /\ d \in Intents /\ delivery[d].state \notin {"absent", "queued"}
      /\ proc[w].pc = "send" => /\ posts[d] = 0
                                /\ delivery[d].state \in {"dispatching", "uncertain"}
                                /\ Guarded(delivery[d].conn) => delivery[d].marked = "yes"
  BY Zenon DEF DInv, ProcInv
<1>2. \A e \in Intents :
        /\ delivery'[e].state = delivery[e].state
        /\ delivery'[e].conn = delivery[e].conn
        /\ delivery'[e].finding = delivery[e].finding
        /\ e # d => delivery'[e].marked = delivery[e].marked /\ SameRemote(e)
        /\ delivery'[e].marked \in {delivery[e].marked, "yes"}
  BY <1>1 DEF Moves, SameRemote, DInv, TypeOK
<1>3. ASSUME NEW e \in Intents PROVE RowInv(e)'
  <2>1. RowInv(e) /\ posts[e] \in Nat /\ applied[e] \in Nat
    BY Zenon DEF DInv, TypeOK
  <2>2. CASE e # d
    BY Zenon, <1>2, <2>1, <2>2, RowKept
  <2>3. CASE e = d /\ UNCHANGED <<posts, inflight>>
    BY Zenon, <1>2, <2>1, <2>3 DEF RowInv, Guarded
  <2>4. CASE /\ e = d /\ proc[w].pc = "send"
             /\ posts' = [posts EXCEPT ![d] = posts[d] + 1]
             /\ inflight' = inflight \cup {d}
    <3>1. posts'[d] = 1
      BY <1>1, <2>4 DEF DInv, TypeOK
    <3>2. delivery'[d].state \in {"dispatching", "uncertain"}
          /\ (Guarded(delivery'[d].conn) => delivery'[d].marked = "yes")
      BY Zenon, <1>1, <1>2, <2>4
    <3> QED
      BY <1>1, <2>1, <2>4, <3>1, <3>2 DEF RowInv, Refusals, Confirmations
  <2> QED
    BY Zenon, <2>2, <2>3, <2>4
<1>4. ASSUME NEW v \in Workers, v # w PROVE ProcInv(v)'
  <2>1. ProcInv(v) /\ (Busy(v) => proc[v].intent # d)
    BY Zenon, <1>4 DEF DInv, OneHolder
  <2>2. /\ proc'[v].pc = proc[v].pc /\ proc'[v].intent = proc[v].intent
        /\ proc'[v].outcome = proc[v].outcome
    BY Zenon, <1>4 DEF Steers
  <2> QED
    BY Zenon, <1>2, <2>1, <2>2, ProcSame
<1>5. OneHolder'
  BY Zenon, HolderKept DEF DInv, Steers, Busy
<1>6. Reserved'
  BY Zenon, <1>2, ReservedKept DEF DInv, TypeOK
<1> QED
  BY Zenon, <1>3, <1>4, <1>5, <1>6 DEF Rest

\* Each step of a worker that holds a delivery.
LEMMA WorkKeeps ==
  ASSUME DInv, NEW w \in Workers, Work(w)
  PROVE  Rest'
<1> DEFINE d == proc[w].intent
<1>t. TypeOK /\ ProcInv(w)
  BY Zenon DEF DInv
<1>0. ASSUME Busy(w)
      PROVE  /\ d \in Intents /\ delivery[d].state \notin {"absent", "queued"} /\ RowInv(d)
             /\ posts[d] = 0 => applied[d] = 0 /\ d \notin inflight
             /\ proc[w].pc \in {"preview", "mark", "send"} => posts[d] = 0
             /\ proc[w].pc \in {"send", "wait"} =>
                  /\ delivery[d].state \in {"dispatching", "uncertain"}
                  /\ Guarded(delivery[d].conn) => delivery[d].marked = "yes"
  BY Zenon, <1>0 DEF DInv, ProcInv, RowInv

\* A step to "finish" that changes neither rows nor requests.
<1>1. ASSUME NEW o \in Final, Goto(w, "finish", o), Busy(w),
             UNCHANGED <<delivery, ticket, posts, inflight, applied>>,
             o \in Refusals => applied[d] = 0 /\ d \notin inflight,
             o \in Confirmations => applied[d] = 1
      PROVE  Rest'
  <2>1. Steers(w, "finish", o)
    BY Zenon, <1>t, <1>1, GotoSteers
  <2>2. ProcInv(w)'
    BY Zenon, <1>0, <1>1, <2>1 DEF Steers, ProcInv
  <2> QED
    BY Zenon, <1>1, <2>1, <2>2, SteerKeeps DEF Steps
<1>f. Refusals \subseteq Final /\ "uncertain" \in Final /\ "blocked" \in Refusals
      /\ "failed" \in Refusals /\ Confirmations \subseteq Final
      /\ "uncertain" \notin Refusals /\ "uncertain" \notin Confirmations
      /\ (\A s \in Refusals : s \notin Confirmations)
      /\ "confirmed" \in Confirmations /\ "accepted" \in Confirmations
  BY Zenon DEF Final, Refusals, Confirmations
<1>2. CASE Preview(w)
  <2>1. Busy(w) /\ proc[w].pc = "preview"
    BY Zenon, <1>2 DEF Preview, Busy
  <2>2. CASE Goto(w, "mark", "none")
    <3>1. Steers(w, "mark", "none")
      BY Zenon, <1>t, <2>2, GotoSteers
    <3>2. UNCHANGED <<delivery, ticket, posts, inflight, applied>>
      BY Zenon, <1>2 DEF Preview
    <3>3. ProcInv(w)'
      BY Zenon, <1>0, <2>1, <3>1, <3>2 DEF Steers, ProcInv
    <3> QED
      BY Zenon, <2>1, <3>1, <3>2, <3>3, SteerKeeps DEF Steps
  <2>3. ASSUME NEW o \in Refusals, Goto(w, "finish", o) PROVE Rest'
    BY Zenon, <1>0, <1>1, <1>2, <1>f, <2>1, <2>3 DEF Preview
  <2> QED
    BY Zenon, <1>2, <1>f, <2>2, <2>3 DEF Preview
<1>3. CASE Mark(w)
  <2>1. Busy(w) /\ proc[w].pc = "mark" /\ delivery[d].state = "dispatching"
    BY Zenon, <1>3 DEF Mark, Busy, Leased
  <2>2. Steers(w, "send", "none")
    BY Zenon, <1>t, <1>3, GotoSteers DEF Mark
  <2>3. Moves(d, delivery[d].state, "yes")
    BY Zenon, <1>t, <1>0, <1>3, <2>1, MarkerMoves DEF Mark
  <2>4. UNCHANGED <<ticket, posts, inflight, applied>>
    BY Zenon, <1>3 DEF Mark
  <2>5. ProcInv(w)'
    BY <1>0, <2>1, <2>2, <2>3, <2>4 DEF Steers, Moves, ProcInv
  <2> QED
    BY Zenon, <2>1, <2>2, <2>3, <2>4, <2>5, SteerKeeps DEF Steps
<1>4. ASSUME NEW committed \in BOOLEAN, MarkUnclear(w, committed) PROVE Rest'
  <2>1. Busy(w) /\ proc[w].pc = "mark" /\ d \in Intents
    BY Zenon, <1>0, <1>4 DEF MarkUnclear, Busy
  <2>2. Steers(w, "finish", "uncertain")
    BY Zenon, <1>t, <1>4, GotoSteers DEF MarkUnclear
  <2>3. delivery' = delivery \/ Moves(d, delivery[d].state, "yes")
    BY Zenon, <1>t, <1>4, <2>1, MarkerMoves DEF MarkUnclear
  <2>4. UNCHANGED <<ticket, posts, inflight, applied>>
    BY Zenon, <1>4 DEF MarkUnclear
  <2>5. ProcInv(w)'
    BY Zenon, <1>0, <1>f, <2>1, <2>2, <2>3, <2>4 DEF Steers, Moves, ProcInv
  <2> QED
    BY Zenon, <2>1, <2>2, <2>3, <2>4, <2>5, SteerKeeps DEF Steps
<1>5. CASE MarkDenied(w)
  <2>1. Busy(w) /\ proc[w].pc = "mark"
    BY Zenon, <1>5 DEF MarkDenied, Busy
  <2> QED
    BY Zenon, <1>0, <1>1, <1>5, <1>f, <2>1 DEF MarkDenied
<1>6. CASE Post(w)
  <2>1. Busy(w) /\ proc[w].pc = "send"
    BY Zenon, <1>6 DEF Post, Busy
  <2>2. Steers(w, "wait", "none")
    BY Zenon, <1>t, <1>6, GotoSteers DEF Post
  <2>3. /\ UNCHANGED <<delivery, ticket, applied>>
        /\ posts' = [posts EXCEPT ![d] = posts[d] + 1]
        /\ inflight' = inflight \cup {d}
    BY Zenon, <1>6 DEF Post
  <2>4. ProcInv(w)'
    BY Zenon, <1>0, <2>1, <2>2, <2>3 DEF Steers, ProcInv
  <2> QED
    BY Zenon, <2>1, <2>2, <2>3, <2>4, SteerKeeps DEF Steps
<1>7. CASE SendRefused(w)
  <2>1. Busy(w) /\ proc[w].pc = "send"
    BY Zenon, <1>7 DEF SendRefused, Busy
  <2> QED
    BY Zenon, <1>0, <1>1, <1>7, <1>f, <2>1 DEF SendRefused
<1>8. CASE Answer(w)
  <2>1. Busy(w) /\ proc[w].pc = "wait"
    BY Zenon, <1>8 DEF Answer, Busy
  <2>2. applied[d] \in {0, 1}
    BY Zenon, <1>0, <2>1 DEF RowInv
  <2>3. \A s \in SendOutcomes(w) : /\ s \in Final
                                   /\ s \in Refusals => applied[d] = 0 /\ d \notin inflight
                                   /\ s \in Confirmations => applied[d] = 1
    BY <1>f, <2>2 DEF SendOutcomes
  <2> QED
    BY Zenon, <1>1, <1>8, <1>f, <2>1, <2>3 DEF Answer
<1>9. CASE Finish(w)
  <2>1. Busy(w) /\ proc[w].pc = "finish" /\ d \in Intents
    BY Zenon, <1>0, <1>9 DEF Finish, Busy
  <2>2. /\ UNCHANGED <<ticket, posts, inflight, applied>>
        /\ Forgets(w)
    BY Zenon, <1>t, <1>9, <2>1, FinishMoves DEF Finish
  <2>3. ASSUME NEW v \in Workers PROVE Busy(v)' => Busy(v) /\ v # w /\ proc'[v] = proc[v]
    BY Zenon, <2>2 DEF Forgets, Busy
  <2>4. OneHolder'
    BY Zenon, <2>3, HolderKept DEF DInv
  <2>5. CASE delivery' = delivery
    <3>1. \A e \in Intents : RowInv(e)'
      BY Zenon, <2>2, <2>5, RowKept DEF DInv, SameRemote
    <3>2. ASSUME NEW v \in Workers PROVE ProcInv(v)'
      <4>1. ProcInv(v)
        BY Zenon DEF DInv
      <4> QED
        BY Zenon, <2>2, <2>3, <2>5, <4>1 DEF ProcInv
    <3>3. Reserved'
      BY Zenon, <2>2, <2>5, ReservedKept DEF DInv, TypeOK
    <3> QED
      BY Zenon, <2>4, <3>1, <3>2, <3>3 DEF Rest
  <2>6. ASSUME NEW s \in Final, Moves(d, s, delivery[d].marked),
               s \in Refusals => applied[d] = 0 /\ d \notin inflight,
               s \in Confirmations => applied[d] = 1
        PROVE  Rest'
    <3>1. s \notin {"absent", "queued"}
      BY Zenon DEF Final, Refusals, Confirmations
    <3>2. ASSUME NEW e \in Intents PROVE RowInv(e)'
      <4>1. RowInv(e)
        BY Zenon DEF DInv
      <4> QED
        BY Zenon, <2>2, <2>6, <3>1, <4>1 DEF Moves, RowInv, Guarded
    <3>3. ASSUME NEW v \in Workers PROVE ProcInv(v)'
      <4>1. ProcInv(v) /\ (Busy(v)' => proc[v].intent # d)
        BY Zenon, <2>1, <2>3 DEF DInv, OneHolder
      <4> QED
        BY <2>2, <2>3, <2>6, <4>1 DEF ProcInv, Moves, Guarded
    <3>4. Reserved'
      BY Zenon, <1>0, <2>1, <2>2, <2>6, <3>1, ReservedKept DEF DInv, TypeOK, Moves
    <3> QED
      BY Zenon, <2>4, <3>2, <3>3, <3>4 DEF Rest
  <2>7. /\ proc[w].outcome \in Final
        /\ proc[w].outcome \in Refusals => applied[d] = 0 /\ d \notin inflight
        /\ proc[w].outcome \in Confirmations => applied[d] = 1
    BY Zenon, <1>t, <2>1 DEF ProcInv
  <2>8. Guarded(delivery[d].conn) /\ delivery[d].marked # "yes" =>
          applied[d] = 0 /\ d \notin inflight
    <3>1. delivery[d].marked \in {"no", "yes"}
      BY Zenon, <1>t, <2>1 DEF TypeOK, Row
    <3> QED
      BY Zenon, <1>0, <2>1, <3>1 DEF RowInv
  <2> QED
    BY Zenon, <1>t, <1>9, <1>f, <2>1, <2>5, <2>6, <2>7, <2>8, FinishMoves
<1> QED
  BY Zenon, <1>2, <1>3, <1>4, <1>5, <1>6, <1>7, <1>8, <1>9 DEF Work

\* What happens around a worker: cancellation, a crash, the remote service
\* deciding on a request, the clock.
LEMMA SurroundingsKeep ==
  ASSUME DInv,
         \/ \E w \in Workers : Cancel(w) \/ Crash(w)
         \/ \E d \in Intents : RemoteApplies(d) \/ RemoteRefuses(d) \/ LeaseExpires(d)
         \/ \E c \in Connections, enabled \in {"yes", "no"} : EditConnection(c, enabled)
         \/ \E u \in Users : ChangeRole(u)
         \/ UNCHANGED deliveryVars
  PROVE  Rest'
<1>t. TypeOK /\ ticket \subseteq Intents
  BY Zenon DEF DInv, TypeOK

\* The rows and the remote service are as they were; workers at most forget.
<1>1. ASSUME \A e \in Intents : /\ SameRemote(e)
                                /\ delivery'[e].state = delivery[e].state
                                /\ delivery'[e].marked = delivery[e].marked
                                /\ delivery'[e].conn = delivery[e].conn
                                /\ delivery'[e].finding = delivery[e].finding,
             \A v \in Workers : \/ /\ proc'[v].pc = proc[v].pc
                                   /\ proc'[v].intent = proc[v].intent
                                   /\ proc'[v].outcome = proc[v].outcome
                                \/ proc'[v].pc = "idle",
             ticket' = ticket
      PROVE  Rest'
  <2>1. \A e \in Intents : RowInv(e)'
    BY Zenon, <1>1, RowKept DEF DInv
  <2>2. ASSUME NEW v \in Workers PROVE ProcInv(v)'
    <3>1. ProcInv(v)
      BY Zenon DEF DInv
    <3>2. CASE proc'[v].pc = "idle"
      BY Zenon, <3>2 DEF ProcInv, Busy
    <3>3. CASE /\ proc'[v].pc = proc[v].pc
               /\ proc'[v].intent = proc[v].intent
               /\ proc'[v].outcome = proc[v].outcome
      BY Zenon, <1>1, <3>1, <3>3, ProcSame
    <3> QED
      BY Zenon, <1>1, <3>2, <3>3
  <2>3. OneHolder'
    BY Zenon, <1>1, HolderKept DEF DInv, Busy
  <2>4. Reserved'
    BY Zenon, <1>t, <1>1, ReservedKept DEF DInv
  <2> QED
    BY Zenon, <2>1, <2>2, <2>3, <2>4 DEF Rest
<1>2. ASSUME NEW w \in Workers, Cancel(w) PROVE Rest'
  <2>1. \A v \in Workers : proc[v] \in Proc
    BY Zenon, <1>t DEF TypeOK
  <2>2. \A v \in Workers : /\ proc'[v].pc = proc[v].pc
                           /\ proc'[v].intent = proc[v].intent
                           /\ proc'[v].outcome = proc[v].outcome
    BY Zenon, <1>t, <1>2, <2>1 DEF Cancel, Proc, TypeOK
  <2>3. UNCHANGED <<delivery, ticket, posts, inflight, applied>>
    BY Zenon, <1>2 DEF Cancel
  <2> QED
    BY Zenon, <1>1, <2>2, <2>3 DEF SameRemote
<1>3. ASSUME NEW w \in Workers, Crash(w) PROVE Rest'
  <2>1. \A v \in Workers : proc'[v] = proc[v] \/ proc'[v].pc = "idle"
    BY Zenon, <1>t, <1>3 DEF Crash, IdleProc, ProcAt, TypeOK
  <2>2. UNCHANGED <<delivery, ticket, posts, inflight, applied>>
    BY Zenon, <1>3 DEF Crash
  <2> QED
    BY Zenon, <1>1, <2>1, <2>2 DEF SameRemote
<1>4. ASSUME NEW d \in Intents, LeaseExpires(d) PROVE Rest'
  <2>1. \A e \in Intents : delivery[e] \in Row
    BY Zenon, <1>t DEF TypeOK
  <2>2. Moves(d, delivery[d].state, delivery[d].marked)
    BY Zenon, <1>t, <1>4, <2>1 DEF LeaseExpires, Moves, Row, TypeOK
  <2>3. UNCHANGED <<proc, ticket, posts, inflight, applied>>
    BY Zenon, <1>4 DEF LeaseExpires
  <2> QED
    BY Zenon, <1>1, <2>2, <2>3 DEF Moves, SameRemote
<1>5. CASE \/ \E c \in Connections, enabled \in {"yes", "no"} : EditConnection(c, enabled)
           \/ \E u \in Users : ChangeRole(u)
           \/ UNCHANGED deliveryVars
  <2>1. UNCHANGED <<delivery, proc, ticket, posts, inflight, applied>>
    BY Zenon, <1>5 DEF EditConnection, ChangeRole, deliveryVars
  <2> QED
    BY Zenon, <1>1, <2>1 DEF SameRemote
<1>6. ASSUME NEW d \in Intents, RemoteApplies(d) \/ RemoteRefuses(d) PROVE Rest'
  <2>1. /\ d \in inflight /\ inflight' = inflight \ {d}
        /\ UNCHANGED <<delivery, proc, ticket, posts>>
        /\ \A e \in Intents : e # d => applied'[e] = applied[e]
    BY Zenon, <1>t, <1>6 DEF RemoteApplies, RemoteRefuses, TypeOK
  <2>2. RowInv(d) /\ applied[d] = 0 /\ posts[d] # 0 /\ applied'[d] \in {0, 1}
    BY <1>t, <1>6, <2>1 DEF DInv, RowInv, TypeOK, RemoteApplies, RemoteRefuses
  <2>3. ASSUME NEW e \in Intents PROVE RowInv(e)'
    <3>1. RowInv(e)
      BY Zenon DEF DInv
    <3> QED
      BY Zenon, <2>1, <2>2, <3>1 DEF RowInv, Guarded
  <2>4. ASSUME NEW v \in Workers PROVE ProcInv(v)'
    <3>1. ProcInv(v)
      BY Zenon DEF DInv
    <3> QED
      BY Zenon, <2>1, <2>2, <3>1 DEF ProcInv, Guarded, Busy
  <2>5. OneHolder' /\ Reserved'
    BY Zenon, <1>t, <2>1, HolderKept, ReservedKept DEF DInv, Busy
  <2> QED
    BY Zenon, <2>3, <2>4, <2>5 DEF Rest
<1> QED
  BY Zenon, <1>2, <1>3, <1>4, <1>5, <1>6

\* Recovery and blocking are the two ways a claim settles a delivery.
LEMMA ClaimKeeps ==
  ASSUME DInv, NEW w \in Workers, NEW d \in Intents, Claim(w, d)
  PROVE  Rest'
<1>1. "blocked" \in Final /\ "uncertain" \in Final
  BY Zenon DEF Final, Refusals
<1>2. CASE ClaimExpired(w, d)
  BY Zenon, <1>1, <1>2, SettleKeeps DEF ClaimExpired
<1>3. ASSUME NEW usable \in BOOLEAN, ClaimBlocked(w, d, usable) PROVE Rest'
  BY Zenon, <1>1, <1>3, SettleKeeps DEF ClaimBlocked
<1>4. CASE ClaimDispatch(w, d)
  BY Zenon, <1>4, DispatchKeeps
<1> QED
  BY Zenon, <1>2, <1>3, <1>4 DEF Claim

\* The invariant is inductive.
LEMMA DInvInductive == DInv /\ [Next]_deliveryVars => DInv'
<1> SUFFICES ASSUME DInv, [Next]_deliveryVars PROVE DInv'
  BY Zenon
<1>1. TypeOK'
  BY Zenon, TypeInductive DEF DInv
<1>2. Rest'
  <2>1. ASSUME NEW w \in Workers, Worker(w) PROVE Rest'
    BY Zenon, <2>1, WorkKeeps, ClaimKeeps DEF Worker
  <2> QED
    BY Zenon, <2>1, EnqueueKeeps, SurroundingsKeep DEF Next
<1> QED
  BY Zenon, <1>1, <1>2 DEF DInv, Rest

LEMMA DInvImplies == DInv => AtMostOnePost /\ OutcomeIsHonest /\ OneTicketPerFinding
<1> SUFFICES ASSUME DInv PROVE AtMostOnePost /\ OutcomeIsHonest /\ OneTicketPerFinding
  BY Zenon
<1>1. \A d \in Intents : RowInv(d)
  BY Zenon DEF DInv
<1>2. AtMostOnePost /\ OutcomeIsHonest
  BY <1>1 DEF AtMostOnePost, OutcomeIsHonest, RowInv
<1>3. \A d \in Intents : applied[d] > 0 => delivery[d].state # "absent"
  BY <1>1 DEF RowInv
<1>4. OneTicketPerFinding
  BY Zenon, <1>3 DEF OneTicketPerFinding, DInv, Reserved
<1> QED
  BY Zenon, <1>2, <1>4

LEMMA DInvAlways == Spec => []DInv
BY InitDInv, DInvInductive, PTL DEF Spec

-----------------------------------------------------------------------------
\* The tables, the memory of the workers and the requests keep their types.
THEOREM DeliveryTypes == Spec => []TypeOK
<1>1. DInv => TypeOK
  BY Zenon DEF DInv
<1> QED
  BY <1>1, DInvAlways, PTL

\* An intent is sent at most once, its recorded outcome is true of the remote
\* service, and a finding gets at most one ticket per Jira connection, for any
\* number of users, intents and workers that stall, crash and recover.
THEOREM DeliverySafety == Spec => [](AtMostOnePost /\ OutcomeIsHonest /\ OneTicketPerFinding)
BY DInvAlways, DInvImplies, PTL

-----------------------------------------------------------------------------
\* What one step may do to one delivery, for the reader of its state: nothing,
\* accept it, dispatch it, settle it, or (for the remote service) act on it.
Approved(d) ==
  /\ delivery'[d].finding = delivery[d].finding
  /\ delivery'[d].conn = delivery[d].conn
  /\ delivery'[d].rev = delivery[d].rev
  /\ delivery'[d].actor = delivery[d].actor

Untouched(d) == delivery'[d] = delivery[d]

Accepted(d) == delivery[d].state = "absent" /\ delivery'[d].state = "queued"

Advanced(d) ==
  /\ delivery[d].state \in {"queued", "dispatching"}
  /\ delivery'[d].state \in {"queued", "dispatching"} \cup Final
  /\ Approved(d)

\* Everything but a new intent.
Service ==
  \/ \E c \in Connections, enabled \in {"yes", "no"} : EditConnection(c, enabled)
  \/ \E u \in Users : ChangeRole(u)
  \/ \E w \in Workers : Worker(w) \/ Cancel(w) \/ Crash(w)
  \/ \E d \in Intents : RemoteApplies(d) \/ RemoteRefuses(d) \/ LeaseExpires(d)

\* Every such step leaves all rows but one untouched, and advances that one; or
\* it changes no row.
LEMMA EveryServiceStep ==
  ASSUME DInv, Service
  PROVE  \/ delivery' = delivery
         \/ /\ UNCHANGED <<posts, applied, inflight>>
            /\ \E d \in Intents : Advanced(d) /\ \A e \in Intents : e # d => Untouched(e)
<1>t. TypeOK /\ (\A d \in Intents : delivery[d] \in Row) /\ (\A w \in Workers : ProcInv(w))
  BY Zenon DEF DInv, TypeOK
<1> DEFINE Goal == \/ delivery' = delivery
                   \/ /\ UNCHANGED <<posts, applied, inflight>>
                      /\ \E d \in Intents :
                           Advanced(d) /\ \A e \in Intents : e # d => Untouched(e)
<1>f. "blocked" \in Final /\ "uncertain" \in Final
  BY Zenon DEF Final, Refusals
<1>2. ASSUME NEW w \in Workers, NEW d \in Intents, NEW s \in Final, delivery' = Settled(d, w, s),
             delivery[d].state \in {"queued", "dispatching"},
             UNCHANGED <<posts, applied, inflight>>
      PROVE  Goal
  <2> DEFINE n == delivery[d].fence + 1
  <2>1. delivery' = [delivery EXCEPT ![d] = [@ EXCEPT !.state = s, !.worker = w, !.fence = n,
                                               !.lease = "none"]]
    BY Zenon, <1>2 DEF Settled
  <2> HIDE DEF n
  <2>2. Advanced(d) /\ \A e \in Intents : e # d => Untouched(e)
    BY <1>t, <1>2, <2>1 DEF Advanced, Approved, Untouched, TypeOK, Row
  <2> QED
    BY Zenon, <1>2, <2>2
<1>3. ASSUME NEW w \in Workers, NEW d \in Intents, Claim(w, d) PROVE Goal
  <2>1. CASE ClaimDispatch(w, d)
    <3> DEFINE n == delivery[d].fence + 1
    <3>1. /\ delivery' = [delivery EXCEPT ![d] = [@ EXCEPT !.state = "dispatching",
                            !.worker = w, !.fence = n, !.lease = "live"]]
          /\ delivery[d].state = "queued"
          /\ UNCHANGED <<posts, applied, inflight>>
      BY Zenon, <2>1 DEF ClaimDispatch
    <3> HIDE DEF n
    <3>2. Advanced(d) /\ \A e \in Intents : e # d => Untouched(e)
      BY <1>t, <3>1 DEF Advanced, Approved, Untouched, TypeOK, Row
    <3> QED
      BY Zenon, <3>1, <3>2
  <2> HIDE DEF Goal
  <2> QED
    BY Zenon, <1>2, <1>3, <1>f, <2>1 DEF Claim, ClaimExpired, ClaimBlocked

\* The steps of a lease holder change its own row, which is being dispatched.
<1>4. ASSUME NEW w \in Workers, Leased(w), proc[w].intent \in Intents, NEW r,
             delivery' = [delivery EXCEPT ![proc[w].intent] = r],
             r.state \in {"dispatching"} \cup Final,
             /\ r.finding = delivery[proc[w].intent].finding
             /\ r.conn = delivery[proc[w].intent].conn
             /\ r.rev = delivery[proc[w].intent].rev
             /\ r.actor = delivery[proc[w].intent].actor,
             UNCHANGED <<posts, applied, inflight>>
      PROVE  Goal
  <2>1. Advanced(proc[w].intent) /\ \A e \in Intents : e # proc[w].intent => Untouched(e)
    BY Zenon, <1>t, <1>4 DEF Advanced, Approved, Untouched, TypeOK, Leased
  <2> QED
    BY Zenon, <1>4, <2>1
<1>m. ASSUME NEW w \in Workers, Busy(w), Leased(w), UNCHANGED <<posts, applied, inflight>>,
             delivery' = [delivery EXCEPT ![proc[w].intent] = [@ EXCEPT !.marked = "yes"]]
      PROVE  Goal
  <2> DEFINE r == [delivery[proc[w].intent] EXCEPT !.marked = "yes"]
  <2>1. proc[w].intent \in Intents /\ delivery[proc[w].intent] \in Row
    BY Zenon, <1>t, <1>m DEF ProcInv
  <2>2. /\ r.state = delivery[proc[w].intent].state
        /\ r.finding = delivery[proc[w].intent].finding
        /\ r.conn = delivery[proc[w].intent].conn
        /\ r.rev = delivery[proc[w].intent].rev
        /\ r.actor = delivery[proc[w].intent].actor
    BY Zenon, <2>1 DEF Row
  <2>3. delivery' = [delivery EXCEPT ![proc[w].intent] = r]
    BY Zenon, <1>m
  <2>4. r.state = "dispatching"
    BY Zenon, <1>m, <2>2 DEF Leased
  <2> HIDE DEF r, Goal
  <2> QED
    BY Zenon, <1>4, <1>m, <2>1, <2>2, <2>3, <2>4
<1>5. ASSUME NEW w \in Workers, Finish(w) PROVE Goal
  <2> DEFINE d == proc[w].intent
             s == IF Guarded(delivery[d].conn) /\ ~Authorized(d)
                  THEN IF delivery[d].marked = "yes" THEN "uncertain" ELSE "blocked"
                  ELSE proc[w].outcome
             r == [delivery[d] EXCEPT !.lease = "none", !.state = s]
  <2>1. d \in Intents /\ delivery[d] \in Row /\ s \in Final
    BY Zenon, <1>t, <1>5, <1>f DEF Finish, ProcInv, Busy
  <2>2. CASE Leased(w)
    <3>1. /\ delivery' = [delivery EXCEPT ![d] = r]
          /\ UNCHANGED <<posts, applied, inflight>>
      BY Zenon, <1>5, <2>2 DEF Finish
    <3>2. /\ r.state = s /\ r.finding = delivery[d].finding /\ r.conn = delivery[d].conn
          /\ r.rev = delivery[d].rev /\ r.actor = delivery[d].actor
      <4> HIDE DEF s
      <4> QED BY <2>1 DEF Row
    <3> HIDE DEF r, s, Goal
    <3> QED
      BY Zenon, <1>4, <2>1, <2>2, <3>1, <3>2
  <2>3. CASE ~Leased(w)
    BY Zenon, <1>5, <2>3 DEF Finish
  <2> QED
    BY Zenon, <2>2, <2>3
<1>6. ASSUME NEW w \in Workers, Work(w) PROVE Goal
  <2>1. CASE Mark(w)
    <3> HIDE DEF Goal
    <3> QED BY Zenon, <1>m, <2>1 DEF Mark, Busy
  <2>2. ASSUME NEW committed \in BOOLEAN, MarkUnclear(w, committed) PROVE Goal
    <3>1. delivery' = delivery => Goal
      BY Zenon
    <3> HIDE DEF Goal
    <3> QED BY <1>m, <2>2, <3>1 DEF MarkUnclear, Busy
  <2>3. CASE Preview(w) \/ MarkDenied(w) \/ Post(w) \/ SendRefused(w) \/ Answer(w)
    BY Zenon, <2>3 DEF Preview, MarkDenied, Post, SendRefused, Answer
  <2> HIDE DEF Goal
  <2> QED
    BY Zenon, <1>5, <1>6, <2>1, <2>2, <2>3 DEF Work
<1>7. ASSUME NEW d \in Intents, LeaseExpires(d) PROVE Goal
  <2>1. Advanced(d) /\ \A e \in Intents : e # d => Untouched(e)
    BY Zenon, <1>t, <1>7 DEF LeaseExpires, Advanced, Approved, Untouched, TypeOK, Row
  <2> QED
    BY Zenon, <1>7, <2>1 DEF LeaseExpires
<1>8. ASSUME \/ \E w \in Workers : Cancel(w) \/ Crash(w)
             \/ \E d \in Intents : RemoteApplies(d) \/ RemoteRefuses(d)
             \/ \E c \in Connections, enabled \in {"yes", "no"} : EditConnection(c, enabled)
             \/ \E u \in Users : ChangeRole(u)
      PROVE  Goal
  BY Zenon, <1>8 DEF Cancel, Crash, RemoteApplies, RemoteRefuses, EditConnection, ChangeRole
<1> HIDE DEF Goal
<1>9. Goal
  BY Zenon, <1>3, <1>6, <1>7, <1>8 DEF Service, Worker
<1> QED
  BY Zenon, <1>9 DEF Goal

\* A step of the outbox accepts or advances one row, or changes none.
LEMMA EveryDeliveryStep ==
  ASSUME DInv, Next
  PROVE  \/ delivery' = delivery
         \/ /\ UNCHANGED <<posts, applied, inflight>>
            /\ \E d \in Intents : /\ Accepted(d) \/ Advanced(d)
                                  /\ \A e \in Intents : e # d => Untouched(e)
<1>1. ASSUME NEW d \in Intents, NEW f \in Findings, NEW c \in Connections, NEW u \in Users,
             EnqueueDelivery(d, f, c, u)
      PROVE  /\ UNCHANGED <<posts, applied, inflight>>
             /\ Accepted(d) /\ \A e \in Intents : e # d => Untouched(e)
  <2>1. RowOf("queued", f, c, conn[c].revision, u).state = "queued"
    BY Zenon DEF RowOf
  <2> QED
    BY Zenon, <1>1, <2>1 DEF EnqueueDelivery, InsertDelivery, Accepted, Untouched, DInv, TypeOK
<1>2. CASE Service
  BY Zenon, <1>2, EveryServiceStep
<1> QED
  BY Zenon, <1>1, <1>2 DEF Next, Service

\* The only step that sends is Post, by a worker whose row is being dispatched
\* or was recovered as uncertain.
LEMMA SendsOnlyUnsettled ==
  ASSUME DInv, Next, NEW d \in Intents, delivery[d].state \in Refusals \cup Confirmations
  PROVE  posts'[d] = posts[d]
<1>1. ASSUME NEW w \in Workers, Post(w) PROVE posts'[d] = posts[d]
  <2>1. delivery[proc[w].intent].state \in {"dispatching", "uncertain"}
    BY Zenon, <1>1 DEF DInv, ProcInv, Post, Busy
  <2>2. proc[w].intent # d
    BY Zenon, <2>1 DEF Refusals, Confirmations
  <2> QED
    BY Zenon, <1>1, <2>2 DEF Post, DInv, TypeOK
<1>2. ASSUME NEW w \in Workers, Worker(w), ~Post(w) PROVE posts' = posts
  BY Zenon, <1>2 DEF Worker, Work, Claim, ClaimExpired, ClaimBlocked, ClaimDispatch, Preview, Mark,
     MarkUnclear, MarkDenied, SendRefused, Answer, Finish
<1>3. ASSUME \/ \E c \in Connections, enabled \in {"yes", "no"} : EditConnection(c, enabled)
             \/ \E u \in Users : ChangeRole(u)
             \/ \E w \in Workers : Cancel(w) \/ Crash(w)
             \/ \E e \in Intents : RemoteApplies(e) \/ RemoteRefuses(e) \/ LeaseExpires(e)
             \/ \E e \in Intents, f \in Findings, c \in Connections, u \in Users :
                  EnqueueDelivery(e, f, c, u)
      PROVE  posts' = posts
  BY Zenon, <1>3 DEF EnqueueDelivery, InsertDelivery, EditConnection, ChangeRole, Cancel, Crash,
     RemoteApplies, RemoteRefuses, LeaseExpires
<1> QED
  BY Zenon, <1>1, <1>2, <1>3 DEF Next

\* A recorded outcome never changes, what was approved never changes, and
\* nothing is sent for a delivery whose outcome is known.
THEOREM DeliveryOutcomeFinal == Spec => OutcomeIsFinal
<1> DEFINE A == \A d \in Intents :
       /\ delivery[d].state \in Final => delivery'[d] = delivery[d]
       /\ delivery[d].state \in Refusals \cup Confirmations => posts'[d] = posts[d]
       /\ delivery[d].state # "absent" =>
            /\ delivery'[d].finding = delivery[d].finding
            /\ delivery'[d].conn = delivery[d].conn
            /\ delivery'[d].rev = delivery[d].rev
            /\ delivery'[d].actor = delivery[d].actor
<1>1. ASSUME DInv, [Next]_deliveryVars PROVE [A]_deliveryVars
  <2> SUFFICES ASSUME Next PROVE A
    BY Zenon, <1>1
  <2> SUFFICES ASSUME NEW d \in Intents
               PROVE  /\ delivery[d].state \in Final => delivery'[d] = delivery[d]
                      /\ delivery[d].state \in Refusals \cup Confirmations =>
                           posts'[d] = posts[d]
                      /\ delivery[d].state # "absent" => Approved(d)
    BY Zenon DEF Approved
  <2>1. Untouched(d) \/ Accepted(d) \/ Advanced(d)
    BY Zenon, <1>1, EveryDeliveryStep DEF Untouched
  <2>2. delivery[d].state \in Final => Untouched(d)
    BY Zenon, <2>1 DEF Accepted, Advanced, Final, Refusals, Confirmations
  <2>3. delivery[d].state # "absent" => Approved(d)
    BY Zenon, <2>1 DEF Accepted, Advanced, Untouched, Approved
  <2> QED
    BY Zenon, <1>1, <2>2, <2>3, SendsOnlyUnsettled DEF Untouched
<1>2. Spec => [][A]_deliveryVars
  BY <1>1, DInvAlways, PTL DEF Spec
<1> QED
  BY Zenon, <1>2 DEF OutcomeIsFinal

-----------------------------------------------------------------------------
\* The report of each recorded state.
LEMMA Reports ==
  /\ ReportOf("absent") = "none"
  /\ ReportOf("queued") = "accepted" /\ ReportOf("dispatching") = "accepted"
  /\ \A s \in Confirmations : ReportOf(s) = "delivered"
  /\ \A s \in Refusals : ReportOf(s) = "not-delivered"
  /\ ReportOf("uncertain") = "unknown"
BY Zenon DEF ReportOf, Refusals, Confirmations

\* Initially nothing is reported and nothing has an effect.
LEMMA InitContract == Init => Contract!Init
<1> SUFFICES ASSUME Init PROVE Contract!Init
  BY Zenon
<1>1. \A d \in Intents : ReportOf(delivery[d].state) = "none"
  BY Zenon, Reports DEF Init, RowOf
<1> QED
  BY Zenon, <1>1 DEF Contract!Init, Init

\* The remote service acts only on a request whose delivery is still open.
LEMMA ActStep ==
  ASSUME DInv, NEW d \in Intents, RemoteApplies(d)
  PROVE  Contract!Act(d)
<1>1. /\ d \in inflight /\ applied' = [applied EXCEPT ![d] = applied[d] + 1]
      /\ delivery' = delivery
  BY Zenon DEF RemoteApplies
<1>2. RowInv(d) /\ applied \in [Intents -> Nat] /\ delivery[d] \in Row
  BY Zenon DEF DInv, TypeOK
<1>3. applied[d] = 0 /\ delivery[d].state \in {"dispatching", "uncertain"}
  BY Zenon, <1>1, <1>2 DEF RowInv, Row, Final
<1>4. ReportOf(delivery[d].state) \in {"accepted", "unknown"}
  BY Zenon, <1>3, Reports
<1>5. applied' = [applied EXCEPT ![d] = 1]
  BY <1>1, <1>3
<1> QED
  BY Zenon, <1>1, <1>3, <1>4, <1>5 DEF Contract!Act

\* An accepted or advanced row is a step of the contract or none.
LEMMA ReportStep ==
  ASSUME DInv, DInv', NEW d \in Intents, applied' = applied, Accepted(d) \/ Advanced(d),
         \A e \in Intents : e # d => Untouched(e)
  PROVE  [Contract!Next]_(Contract!contractVars)
<1> DEFINE st == [e \in Intents |-> ReportOf(delivery[e].state)]
           new == ReportOf(delivery'[d].state)
<1>1. st' = [st EXCEPT ![d] = new]
  BY Zenon DEF Untouched
<1>2. RowInv(d)'
  BY Zenon DEF DInv
<1>3. CASE Accepted(d)
  <2>1. st[d] = "none" /\ new = "accepted"
    BY Zenon, <1>3, Reports DEF Accepted
  <2>2. {d} \in SUBSET Contract!Fresh /\ Contract!Accept({d})
    BY Zenon, <1>1, <2>1 DEF Contract!Accept, Contract!Fresh
  <2> QED
    BY Zenon, <2>2 DEF Contract!Next
<1>4. CASE Advanced(d) /\ delivery'[d].state \in {"queued", "dispatching"}
  <2>1. st[d] = "accepted" /\ new = "accepted"
    BY Zenon, <1>4, Reports DEF Advanced
  <2>2. st' = st
    BY Zenon, <1>1, <2>1
  <2> QED
    BY Zenon, <2>2 DEF Contract!contractVars
<1>5. CASE Advanced(d) /\ delivery'[d].state \in Final
  <2>1. st[d] = "accepted" /\ new \in {"delivered", "not-delivered", "unknown"}
    BY Zenon, <1>5, Reports DEF Advanced, Final
  <2>2. /\ new = "delivered" => delivery'[d].state \in Confirmations
        /\ new = "not-delivered" => delivery'[d].state \in Refusals
    BY Zenon, <1>5, Reports DEF Final
  <2>3. /\ new = "delivered" => applied[d] = 1
        /\ new = "not-delivered" => applied[d] = 0
    BY Zenon, <1>2, <2>2 DEF RowInv
  <2>4. Contract!Report(d, new)
    BY Zenon, <1>1, <2>1, <2>3 DEF Contract!Report
  <2> QED
    BY Zenon, <2>1, <2>4 DEF Contract!Next
<1> QED
  BY Zenon, <1>3, <1>4, <1>5 DEF Advanced

\* A step of the outbox is a step of the contract, or none.
LEMMA ContractStep ==
  ASSUME DInv, DInv', [Next]_deliveryVars
  PROVE  [Contract!Next]_(Contract!contractVars)
<1>1. CASE UNCHANGED deliveryVars
  BY Zenon, <1>1 DEF deliveryVars, Contract!contractVars
<1>2. ASSUME NEW d \in Intents, RemoteApplies(d)
      PROVE  [Contract!Next]_(Contract!contractVars)
  BY Zenon, <1>2, ActStep DEF Contract!Next
<1>3. CASE Next /\ ~(\E d \in Intents : RemoteApplies(d))
  <2>1. applied' = applied
    BY Zenon, <1>3 DEF Next, Worker, Work, Claim, ClaimExpired, ClaimBlocked, ClaimDispatch, Preview,
       Mark, MarkUnclear, MarkDenied, Post, SendRefused, Answer, Finish, EnqueueDelivery,
       InsertDelivery, EditConnection, ChangeRole, Cancel, Crash, RemoteRefuses, LeaseExpires
  <2>2. CASE delivery' = delivery
    BY Zenon, <2>1, <2>2 DEF Contract!contractVars
  <2>3. ASSUME NEW d \in Intents, Accepted(d) \/ Advanced(d),
               \A e \in Intents : e # d => Untouched(e)
        PROVE  [Contract!Next]_(Contract!contractVars)
    BY Zenon, <2>1, <2>3, ReportStep
  <2> QED
    BY Zenon, <1>3, <2>2, <2>3, EveryDeliveryStep
<1> QED
  BY Zenon, <1>1, <1>2, <1>3

\* The outbox implements the contract: at most one effect per intent, and
\* reports that are true when they are made and final.
THEOREM DeliveryImplementsContract == Spec => ImplementsContract
<1>1. Spec => Contract!Spec
  BY ContractStep, InitContract, DInvAlways, PTL DEF Spec, Contract!Spec
<1> QED
  BY Zenon, <1>1 DEF ImplementsContract

-----------------------------------------------------------------------------
(* Notifications: policies and their evaluation on top of the outbox.  An     *)
(* evaluation accepts the deliveries of all policies in one step, so that it   *)
(* is no step of Delivery, and the invariant is shown again for it.            *)

PolicyRevisions ==
  [policy : Policies, number : Nat \ {0}, epoch : Nat \ {0}, conn : Connections, rev : Nat,
   enabled : {"yes", "no"}, kinds : SUBSET Kinds, actor : Users]

EventStates == {"none", "open", "skipped", "pending", "processing", "evaluated"}

EventRows ==
  [state : EventStates, epoch : Nat, unfit : SUBSET Connections, fence : Nat,
   worker : Workers \cup {Nobody}, lease : {"none", "live", "expired"}]

PolicyTypes ==
  /\ epoch \in Nat
  /\ revisions \subseteq PolicyRevisions
  /\ event \in [Changes -> EventRows]
  /\ eproc \in [Workers -> SUBSET [change : Changes, fence : Nat]]

\* The revisions of a policy are numbered without a gap, in the order of their
\* epochs.
IsLast(r) == \A s \in Of(r.policy) : s.number <= r.number

Numbered ==
  /\ \A r \in revisions : r.epoch <= epoch
  /\ \A r, s \in revisions :
       r.policy = s.policy => /\ r.number = s.number => r = s
                              /\ r.number < s.number => r.epoch < s.epoch
  /\ \A r \in revisions : \A n \in 1..r.number : \E s \in Of(r.policy) : s.number = n
  /\ \A r \in revisions : \E s \in Of(r.policy) : IsLast(s)

Answered(x) == {o \in outcomes : o.change = x}

\* These outcomes are those of these revisions, one for each.
Agree(answered, matching) ==
  /\ \A o \in answered : \E r \in matching : r.policy = o.policy /\ r.number = o.number
  /\ \A r \in matching : \E o \in answered : r.policy = o.policy
  /\ \A o, q \in answered : o.policy = q.policy => o = q

\* The outcomes of a change are those of the revisions that match it.
Decided(x) ==
  /\ event[x].epoch <= epoch
  /\ event[x].state # "evaluated" => Answered(x) = {}
  /\ event[x].state = "evaluated" => Agree(Answered(x), Matching(x))

PolicyInv == PolicyTypes /\ Numbered /\ \A x \in Changes : Decided(x)

NInv == DInv /\ PolicyInv

-----------------------------------------------------------------------------
\* The key of a policy and a change names an intent of theirs alone.
LEMMA KeysApart ==
  /\ \A p \in Policies, x \in Changes : PolicyKey[p, x] \in Intents
  /\ \A p, q \in Policies, x, y \in Changes : PolicyKey[p, x] = PolicyKey[q, y] => p = q /\ x = y
BY Zenon, NotificationConstants

\* No policy, no change: the first revision is the first there is to decide.
LEMMA InitNInv == NInit => NInv
<1> SUFFICES ASSUME NInit PROVE NInv
  BY Zenon
<1>1. DInv
  BY Zenon, InitDInv DEF NInit
<1>2. PolicyTypes
  BY DEF NInit, PolicyTypes, EventRows, EventStates, EventIn
<1>3. Numbered
  BY Zenon DEF NInit, Numbered
<1>4. ASSUME NEW x \in Changes PROVE Decided(x)
  <2>1. event[x].epoch = 0 /\ event[x].state = "none" /\ epoch = 0
    BY Zenon DEF NInit, EventIn
  <2>2. Answered(x) = {}
    BY Zenon DEF NInit, Answered
  <2>3. event[x].epoch <= epoch
    BY <2>1
  <2> QED
    BY Zenon, <2>1, <2>2, <2>3 DEF Decided
<1> QED
  BY Zenon, <1>1, <1>2, <1>3, <1>4 DEF NInv, PolicyInv

\* The number and the epoch of a revision are numbers.
LEMMA RevisionTypes ==
  ASSUME PolicyTypes, NEW r \in revisions
  PROVE  r.policy \in Policies /\ r.number \in Nat \ {0} /\ r.epoch \in Nat /\ r.conn \in Connections
BY Zenon DEF PolicyTypes, PolicyRevisions

\* At most one revision of a policy is in force.
LEMMA OneInForce ==
  ASSUME PolicyTypes, Numbered, NEW e \in Nat, NEW r \in InForce(e), NEW s \in InForce(e),
         r.policy = s.policy
  PROVE  r = s
<1>1. r \in revisions /\ s \in revisions /\ r.epoch <= s.epoch /\ s.epoch <= r.epoch
  BY Zenon DEF InForce, Of
<1>2. /\ r.number \in Nat /\ r.epoch \in Nat
      /\ s.number \in Nat /\ s.epoch \in Nat
  BY Zenon, <1>1, RevisionTypes
<1>3. /\ r.number = s.number => r = s
      /\ r.number < s.number => r.epoch < s.epoch
      /\ s.number < r.number => s.epoch < r.epoch
  BY Zenon, <1>1 DEF Numbered
<1> QED
  BY <1>1, <1>2, <1>3

LEMMA Transitive ==
  ASSUME NEW a \in Nat, NEW b \in Nat, NEW c \in Nat, a <= b, b <= c
  PROVE  a <= c
OBVIOUS

\* A change is decided as long as its event and the revisions that match it stay
\* as they are.
LEMMA DecidedKept ==
  ASSUME NEW x \in Changes, Decided(x), epoch \in Nat, epoch' \in Nat, epoch <= epoch',
         event[x].epoch \in Nat, event'[x] = event[x], Answered(x)' = Answered(x),
         Matching(x)' = Matching(x)
  PROVE  Decided(x)'
<1>1. event[x].epoch <= epoch
  BY Zenon DEF Decided
<1>2. event'[x].epoch <= epoch'
  BY Zenon, <1>1, Transitive
<1>3. event'[x].state # "evaluated" => Answered(x)' = {}
  BY Zenon DEF Decided
<1>4. event'[x].state = "evaluated" => Agree(Answered(x)', Matching(x)')
  BY Zenon DEF Decided
<1> QED
  BY Zenon, <1>2, <1>3, <1>4 DEF Decided

-----------------------------------------------------------------------------
\* A new revision is newer than everything recorded, so that it decides no
\* change recorded before it.
LEMMA RevisionKeeps ==
  ASSUME PolicyInv, NEW new \in PolicyRevisions, revisions' = revisions \cup {new},
         epoch' = epoch + 1, new.epoch = epoch + 1,
         \/ Of(new.policy) = {} /\ new.number = 1
         \/ \E s \in Of(new.policy) : IsLast(s) /\ new.number = s.number + 1,
         UNCHANGED <<delivery, event, outcomes, eproc>>
  PROVE  PolicyInv'
<1>t. PolicyTypes /\ Numbered /\ \A x \in Changes : Decided(x)
  BY Zenon DEF PolicyInv
<1>n. epoch \in Nat /\ epoch' \in Nat /\ epoch <= epoch' /\ new.number \in Nat \ {0}
  BY <1>t DEF PolicyTypes, PolicyRevisions
<1>r. \A r \in revisions : r.number \in Nat \ {0} /\ r.epoch \in Nat /\ r.epoch <= epoch
  BY Zenon, <1>t, RevisionTypes DEF Numbered
<1>o. \A p : Of(p)' = IF p = new.policy THEN Of(p) \cup {new} ELSE Of(p)
  BY Zenon DEF Of
<1>1. \A r \in Of(new.policy) : r.number < new.number /\ r.epoch < new.epoch
  <2> TAKE r \in Of(new.policy)
  <2>1. PICK s \in Of(new.policy) : IsLast(s) /\ new.number = s.number + 1
    BY Zenon
  <2>2. r \in revisions /\ s \in revisions /\ s.policy = new.policy
    BY Zenon DEF Of
  <2>3. r.number <= s.number
    BY Zenon, <2>1, <2>2 DEF IsLast
  <2> QED
    BY <1>n, <1>r, <2>1, <2>2, <2>3
<1>2. PolicyTypes'
  BY Zenon, <1>t, <1>n DEF PolicyTypes
<1>3. \A r \in revisions' : r.epoch <= epoch'
  BY <1>n, <1>r
<1>4. ASSUME NEW r \in revisions', NEW s \in revisions', r.policy = s.policy
      PROVE  /\ r.number = s.number => r = s
             /\ r.number < s.number => r.epoch < s.epoch
  <2>1. CASE r = new /\ s = new
    BY <1>n, <2>1
  <2>2. CASE r = new /\ s # new
    <3>1. s \in Of(new.policy) /\ s \in revisions
      BY Zenon, <1>4, <2>2 DEF Of
    <3> QED
      BY <1>1, <1>n, <1>r, <2>2, <3>1
  <2>3. CASE r # new /\ s = new
    <3>1. r \in Of(new.policy) /\ r \in revisions
      BY Zenon, <1>4, <2>3 DEF Of
    <3> QED
      BY <1>1, <1>n, <1>r, <2>3, <3>1
  <2>4. CASE r # new /\ s # new
    BY Zenon, <1>4, <1>t, <2>4 DEF Numbered
  <2> QED
    BY Zenon, <2>1, <2>2, <2>3, <2>4
<1>5. ASSUME NEW r \in revisions', NEW n \in 1..r.number
      PROVE  \E s \in Of(r.policy)' : s.number = n
  <2>1. CASE r # new
    <3>1. \E s \in Of(r.policy) : s.number = n
      BY Zenon, <1>5, <1>t, <2>1 DEF Numbered
    <3> QED
      BY Zenon, <1>o, <3>1
  <2>2. CASE r = new /\ n = new.number
    BY Zenon, <1>o, <2>2
  <2>3. CASE r = new /\ n # new.number
    <3>0. new.number # 1
      BY <1>n, <2>3
    <3>1. PICK s \in Of(new.policy) : new.number = s.number + 1
      BY Zenon, <3>0
    <3>2. s \in revisions /\ s.policy = new.policy
      BY Zenon DEF Of
    <3>3. n \in 1..s.number
      BY <1>n, <1>r, <2>3, <3>1, <3>2
    <3>4. \E q \in Of(s.policy) : q.number = n
      BY Zenon, <1>t, <3>2, <3>3 DEF Numbered
    <3> QED
      BY Zenon, <1>o, <2>3, <3>2, <3>4
  <2> QED
    BY Zenon, <2>1, <2>2, <2>3
<1>6. ASSUME NEW r \in revisions' PROVE \E s \in Of(r.policy)' : IsLast(s)'
  <2>1. CASE r.policy = new.policy
    <3>1. new \in Of(r.policy)'
      BY Zenon, <1>o, <2>1
    <3>2. \A s \in Of(new.policy)' : s.number <= new.number
      <4> TAKE s \in Of(new.policy)'
      <4>0. Of(new.policy)' = Of(new.policy) \cup {new}
        BY Zenon, <1>o
      <4>1. s = new \/ s \in Of(new.policy)
        BY Zenon, <4>0
      <4>2. s = new \/ s \in revisions
        BY Zenon, <4>1 DEF Of
      <4> QED
        BY <1>1, <1>n, <1>r, <4>1, <4>2
    <3>3. IsLast(new)'
      BY Zenon, <3>2 DEF IsLast
    <3> QED
      BY Zenon, <3>1, <3>3
  <2>2. CASE r.policy # new.policy
    <3>1. r \in revisions
      BY Zenon, <2>2
    <3>2. PICK s \in Of(r.policy) : IsLast(s)
      BY Zenon, <1>t, <3>1 DEF Numbered
    <3>3. s.policy = r.policy /\ Of(r.policy)' = Of(r.policy)
      BY Zenon, <1>o, <2>2 DEF Of
    <3> QED
      BY Zenon, <3>2, <3>3 DEF IsLast
  <2> QED
    BY Zenon, <2>1, <2>2
<1>7. Numbered'
  BY Zenon, <1>3, <1>4, <1>5, <1>6 DEF Numbered
<1>8. ASSUME NEW x \in Changes PROVE Decided(x)'
  <2> DEFINE e == event[x].epoch
  <2>1. e \in Nat /\ e <= epoch
    BY Zenon, <1>t DEF Decided, PolicyTypes, EventRows
  <2>2. ~(new.epoch <= e)
    BY <1>n, <2>1
  <2>3. InForce(e)' = InForce(e)
    <3> HIDE DEF e
    <3>e. e' = e
      BY Zenon DEF e
    <3>1. \A r \in revisions : (\A s \in Of(r.policy)' : s.epoch <= e => s.epoch <= r.epoch)
                              <=> (\A s \in Of(r.policy) : s.epoch <= e => s.epoch <= r.epoch)
      BY Zenon, <1>o, <2>2
    <3> QED
      BY Zenon, <2>2, <3>1, <3>e DEF InForce
  <2>4. Matching(x)' = Matching(x)
    BY Zenon, <2>3 DEF Matching
  <2>5. Answered(x)' = Answered(x)
    BY Zenon DEF Answered
  <2> QED
    BY Zenon, <1>t, <1>n, <2>1, <2>4, <2>5, DecidedKept
<1> QED
  BY Zenon, <1>2, <1>7, <1>8 DEF PolicyInv

\* A policy is created once, and an update follows its last revision.
LEMMA AdministerKeeps ==
  ASSUME NInv, Administer
  PROVE  PolicyInv'
<1>t. PolicyTypes /\ Numbered /\ PolicyInv /\ TypeOK
  BY Zenon DEF NInv, PolicyInv, DInv
<1>e. epoch + 1 \in Nat \ {0} /\ epoch \in Nat
  BY <1>t DEF PolicyTypes
<1>c. \A c \in Connections : conn[c].revision \in Nat
  BY Zenon, <1>t DEF TypeOK
<1>1. PICK p \in Policies, u \in Users, enabled \in {"yes", "no"}, s \in Selections :
        \/ CreatePolicy(p, u, s[1], enabled, s[2])
        \/ \E select \in {{}, {s[1]}} : UpdatePolicy(p, u, select, enabled, s[2])
  BY Zenon DEF Administer
<1>s. s[1] \in Connections /\ s[2] \in SUBSET Kinds
  BY Zenon, NotificationConstants
<1>2. CASE CreatePolicy(p, u, s[1], enabled, s[2])
  <2> DEFINE new == Revision(p, 1, epoch + 1, s[1], conn[s[1]].revision, enabled, s[2], u)
  <2>1. /\ Of(p) = {} /\ epoch' = epoch + 1 /\ revisions' = revisions \cup {new}
        /\ UNCHANGED <<delivery, event, outcomes, eproc>>
    BY Zenon, <1>2 DEF CreatePolicy, deliveryVars
  <2>2. new \in PolicyRevisions
    <3>1. 1 \in Nat \ {0}
      OBVIOUS
    <3> QED
      BY Zenon, <1>e, <1>c, <1>s, <3>1 DEF Revision, PolicyRevisions
  <2>3. new.policy = p /\ new.number = 1 /\ new.epoch = epoch + 1
    BY Zenon DEF Revision
  <2> HIDE DEF new
  <2> QED
    BY Zenon, <1>t, <2>1, <2>2, <2>3, RevisionKeeps
<1>3. ASSUME NEW select \in {{}, {s[1]}}, UpdatePolicy(p, u, select, enabled, s[2])
      PROVE  PolicyInv'
  <2> DEFINE r == Current(p)
             c == IF select = {} THEN r.conn ELSE CHOOSE z \in select : TRUE
             n == IF select = {} THEN r.rev ELSE conn[c].revision
             new == Revision(p, r.number + 1, epoch + 1, c, n, enabled, s[2], u)
  <2>1. /\ Of(p) # {} /\ epoch' = epoch + 1 /\ revisions' = revisions \cup {new}
        /\ UNCHANGED <<delivery, event, outcomes, eproc>>
    BY Zenon, <1>3 DEF UpdatePolicy, deliveryVars
  <2>2. \E z \in Of(p) : \A q \in Of(p) : q.number <= z.number
    <3>1. PICK q \in revisions : q.policy = p
      BY Zenon, <2>1 DEF Of
    <3>2. PICK z \in Of(q.policy) : IsLast(z)
      BY Zenon, <1>t DEF Numbered
    <3>3. z.policy = p
      BY Zenon, <3>1, <3>2 DEF Of
    <3> QED
      BY Zenon, <3>1, <3>2, <3>3 DEF IsLast
  <2>3. r \in Of(p) /\ \A q \in Of(p) : q.number <= r.number
    BY Zenon, <2>2 DEF Current
  <2> HIDE DEF r
  <2>4. r \in revisions /\ r.policy = p /\ IsLast(r)
    BY Zenon, <2>3 DEF IsLast, Of
  <2>5. r \in PolicyRevisions
    BY Zenon, <1>t, <2>4 DEF PolicyTypes
  <2>6. r.number + 1 \in Nat \ {0}
    BY <2>5 DEF PolicyRevisions
  <2>7. c \in Connections
    <3>1. select = {s[1]} => (CHOOSE z \in select : TRUE) = s[1]
      BY Zenon
    <3> QED
      BY Zenon, <1>s, <2>5, <3>1 DEF PolicyRevisions
  <2> HIDE DEF c
  <2>8. n \in Nat
    BY Zenon, <1>c, <2>5, <2>7 DEF PolicyRevisions
  <2> HIDE DEF n
  <2>9. new \in PolicyRevisions
    BY Zenon, <1>e, <1>s, <2>6, <2>7, <2>8 DEF Revision, PolicyRevisions
  <2>10. new.policy = p /\ new.number = r.number + 1 /\ new.epoch = epoch + 1
    BY Zenon DEF Revision
  <2> HIDE DEF new
  <2> QED
    BY Zenon, <1>t, <2>1, <2>3, <2>4, <2>9, <2>10, RevisionKeeps
<1> QED
  BY Zenon, <1>1, <1>2, <1>3

\* The life of an event before its evaluation.
LEMMA EventKeeps ==
  ASSUME PolicyInv, NEW x \in Changes, NEW row \in EventRows,
         event' = [event EXCEPT ![x] = row],
         event[x].state # "evaluated", row.state # "evaluated", row.epoch <= epoch,
         UNCHANGED <<delivery, epoch, revisions, outcomes>>,
         eproc' \in [Workers -> SUBSET [change : Changes, fence : Nat]]
  PROVE  PolicyInv'
<1>t. PolicyTypes /\ Numbered /\ (\A y \in Changes : Decided(y)) /\ epoch \in Nat
  BY Zenon DEF PolicyInv, PolicyTypes
<1>1. PolicyTypes'
  BY Zenon, <1>t DEF PolicyTypes
<1>2. Numbered'
  BY Zenon, <1>t DEF Numbered, Of, IsLast
<1>3. \A y \in Changes : Answered(y)' = Answered(y)
  BY Zenon DEF Answered
<1>4. /\ event'[x] = row
      /\ \A y \in Changes : y # x => event'[y] = event[y]
  BY Zenon, <1>t DEF PolicyTypes
<1>5. Decided(x)'
  <2>1. Answered(x) = {}
    BY Zenon, <1>t DEF Decided
  <2> QED
    BY Zenon, <1>3, <1>4, <2>1 DEF Decided
<1>6. ASSUME NEW y \in Changes, y # x PROVE Decided(y)'
  <2>1. event[y].epoch \in Nat /\ epoch <= epoch'
    BY <1>t DEF PolicyTypes, EventRows
  <2>2. Matching(y)' = Matching(y)
    <3>1. event'[y].epoch = event[y].epoch
      BY Zenon, <1>4, <1>6
    <3>2. InForce(event[y].epoch)' = InForce(event[y].epoch)
      BY Zenon, <3>1 DEF InForce, Of
    <3> QED
      BY Zenon, <3>1, <3>2 DEF Matching
  <2> QED
    BY Zenon, <1>t, <1>3, <1>4, <1>6, <2>1, <2>2, DecidedKept
<1> QED
  BY Zenon, <1>1, <1>2, <1>5, <1>6 DEF PolicyInv

\* Reconciliation, claims of an event and the loss of a claim evaluate nothing.
LEMMA PendingKeeps ==
  ASSUME NInv, NEW x \in Changes,
         Reconcile(x) \/ EventLeaseExpires(x) \/ \E w \in Workers : ClaimEvent(w, x)
  PROVE  PolicyInv'
<1>t. PolicyInv /\ PolicyTypes /\ epoch \in Nat /\ event[x] \in EventRows /\ Decided(x)
  BY Zenon DEF NInv, PolicyInv, PolicyTypes
<1>n. 0 \in Nat /\ 0 <= epoch /\ epoch <= epoch /\ event[x].fence + 1 \in Nat
  BY <1>t DEF EventRows
<1>e. /\ event[x].epoch \in Nat /\ event[x].epoch <= epoch
      /\ event[x].unfit \in SUBSET Connections /\ {} \in SUBSET Connections
  BY Zenon, <1>t DEF EventRows, Decided
<1>m. eproc \in [Workers -> SUBSET [change : Changes, fence : Nat]]
  BY Zenon, <1>t DEF PolicyTypes
<1>z. /\ "open" \in EventStates /\ "pending" \in EventStates /\ "skipped" \in EventStates
      /\ "none" \in EventStates
  BY Zenon DEF EventStates
<1>1. ASSUME NEW z \in EventStates \ {"evaluated"}, NEW e \in Nat,
             NEW v \in SUBSET Connections, e <= epoch,
             event' = [event EXCEPT ![x] = EventIn(z, e, v)], event[x].state # "evaluated",
             UNCHANGED <<deliveryVars, epoch, revisions, outcomes, eproc>>
      PROVE  PolicyInv'
  <2>0. /\ EventIn(z, e, v) \in EventRows
        /\ EventIn(z, e, v).state = z /\ EventIn(z, e, v).epoch = e
    BY Zenon, <1>n DEF EventIn, EventRows
  <2>1. /\ EventIn(z, e, v) \in EventRows /\ EventIn(z, e, v).state # "evaluated"
        /\ EventIn(z, e, v).epoch <= epoch
    BY Zenon, <1>1, <2>0
  <2>2. UNCHANGED <<delivery, epoch, revisions, outcomes>>
    BY Zenon, <1>1 DEF deliveryVars
  <2>3. eproc' \in [Workers -> SUBSET [change : Changes, fence : Nat]]
    BY Zenon, <1>1, <1>m
  <2> QED
    BY Zenon, <1>t, <1>1, <2>1, <2>2, <2>3, EventKeeps
<1>2. CASE BeginReconcile(x)
  BY Zenon, <1>1, <1>2, <1>n, <1>t, <1>z DEF BeginReconcile
<1>3. CASE CommitReconcile(x)
  <2>1. PICK z \in {"pending", "skipped"} :
          event' = [event EXCEPT ![x] = EventIn(z, event[x].epoch, event[x].unfit)]
    BY Zenon, <1>3 DEF CommitReconcile
  <2>2. z \in EventStates \ {"evaluated"}
    BY Zenon, <1>z
  <2> QED
    BY Zenon, <1>1, <1>3, <1>e, <2>1, <2>2 DEF CommitReconcile
<1>4. CASE AbortReconcile(x)
  BY Zenon, <1>1, <1>4, <1>e, <1>n, <1>z DEF AbortReconcile
<1>5. CASE EventLeaseExpires(x)
  <2> DEFINE row == [event[x] EXCEPT !.lease = "expired"]
  <2>1. row \in EventRows /\ row.state = event[x].state /\ row.epoch = event[x].epoch
    BY Zenon, <1>t DEF EventRows
  <2>2. /\ event' = [event EXCEPT ![x] = row] /\ event[x].state = "processing"
        /\ UNCHANGED <<delivery, epoch, revisions, outcomes, eproc>>
    BY Zenon, <1>5 DEF EventLeaseExpires, deliveryVars
  <2>3. eproc' \in [Workers -> SUBSET [change : Changes, fence : Nat]]
    BY Zenon, <1>m, <2>2
  <2> HIDE DEF row
  <2> QED
    BY Zenon, <1>t, <1>e, <2>1, <2>2, <2>3, EventKeeps
<1>6. ASSUME NEW w \in Workers, ClaimEvent(w, x) PROVE PolicyInv'
  <2> DEFINE n == event[x].fence + 1
             row == [event[x] EXCEPT !.state = "processing", !.worker = w, !.fence = n,
                       !.lease = "live"]
  <2>0. n \in Nat
    BY Zenon, <1>n
  <2>1. /\ event' = [event EXCEPT ![x] = row]
        /\ event[x].state # "evaluated"
        /\ eproc' = [eproc EXCEPT ![w] = {[change |-> x, fence |-> n]}]
        /\ UNCHANGED <<delivery, epoch, revisions, outcomes>>
    BY Zenon, <1>6 DEF ClaimEvent, deliveryVars
  <2> HIDE DEF n
  <2>2. row \in EventRows /\ row.state = "processing" /\ row.epoch = event[x].epoch
    BY Zenon, <1>t, <2>0 DEF EventRows, EventStates
  <2>c. {[change |-> x, fence |-> n]} \in SUBSET [change : Changes, fence : Nat]
    <3>1. [change |-> x, fence |-> n] \in [change : Changes, fence : Nat]
      BY Zenon, <2>0
    <3> QED
      BY Zenon, <3>1
  <2>3. eproc' \in [Workers -> SUBSET [change : Changes, fence : Nat]]
    BY Zenon, <1>m, <2>c, <2>1
  <2> HIDE DEF row
  <2> QED
    BY Zenon, <1>t, <1>e, <2>1, <2>2, <2>3, EventKeeps
<1> QED
  BY Zenon, <1>2, <1>3, <1>4, <1>5, <1>6 DEF Reconcile

-----------------------------------------------------------------------------
\* The decided changes stay decided while the outbox works.
LEMMA OutboxKeeps ==
  ASSUME NInv, UNCHANGED policyVars
  PROVE  PolicyInv'
<1>t. PolicyTypes /\ Numbered /\ (\A y \in Changes : Decided(y)) /\ epoch \in Nat
  BY Zenon DEF NInv, PolicyInv, PolicyTypes
<1>u. UNCHANGED <<epoch, revisions, event, outcomes, eproc>>
  BY Zenon DEF policyVars
<1>1. PolicyTypes' /\ Numbered'
  BY Zenon, <1>t, <1>u DEF PolicyTypes, Numbered, Of, IsLast
<1>2. ASSUME NEW x \in Changes PROVE Decided(x)'
  BY Zenon, <1>t, <1>u DEF Decided, Answered, Matching, InForce, Of
<1> QED
  BY Zenon, <1>1, <1>2 DEF PolicyInv

\* The steps of users and of the dispatch are steps of the outbox.
LEMMA ManualAndDispatch ==
  ASSUME NInv, Manual \/ Dispatch
  PROVE  NInv' /\ Next
<1>1. UNCHANGED policyVars
  BY Zenon DEF Manual, Dispatch
<1>2. Next
  BY Zenon DEF Manual, Dispatch, Next
<1>3. DInv'
  BY Zenon, <1>2, DInvInductive DEF NInv
<1>4. PolicyInv'
  BY Zenon, <1>1, OutboxKeeps
<1> QED
  BY Zenon, <1>2, <1>3, <1>4 DEF NInv

-----------------------------------------------------------------------------
\* Any number of intents is accepted at once: all are new, and those for Jira
\* are for tickets nobody has reserved, and for different ones.
LEMMA AcceptKeeps ==
  ASSUME DInv, NEW new \in SUBSET Intents,
         delivery' \in [Intents -> Row],
         \A d \in Intents \ new : delivery'[d] = delivery[d],
         \A d \in new : /\ delivery[d].state = "absent" /\ delivery'[d].state = "queued"
                        /\ delivery'[d].marked = "no",
         ticket' = ticket \cup {d \in new : Profile[delivery'[d].conn] = "jira"},
         \A d \in new : Profile[delivery'[d].conn] = "jira" =>
           /\ ~TicketTaken(delivery'[d].conn, delivery'[d].finding)
           /\ \A e \in new : /\ delivery'[e].conn = delivery'[d].conn
                             /\ delivery'[e].finding = delivery'[d].finding
                             => d = e,
         UNCHANGED <<conn, writers, proc, posts, inflight, applied>>
  PROVE  DInv'
<1>t. TypeOK /\ ticket \subseteq Intents /\ Reserved /\ OneHolder
  BY Zenon DEF DInv, TypeOK
<1>1. TypeOK'
  BY Zenon, <1>t DEF TypeOK
<1>2. ASSUME NEW d \in Intents PROVE RowInv(d)'
  <2>1. RowInv(d)
    BY Zenon DEF DInv
  <2>2. CASE d \in new
    <3>1. posts[d] = 0 /\ applied[d] = 0 /\ d \notin inflight
      BY Zenon, <2>1, <2>2 DEF RowInv
    <3> QED
      BY Zenon, <2>2, <3>1 DEF RowInv, Refusals, Confirmations, Guarded
  <2>3. CASE d \notin new
    BY Zenon, <2>1, <2>3 DEF RowInv, Guarded
  <2> QED
    BY Zenon, <2>2, <2>3
<1>3. ASSUME NEW w \in Workers PROVE ProcInv(w)'
  <2>1. ProcInv(w)
    BY Zenon DEF DInv
  <2>2. Busy(w) => /\ proc[w].intent \in Intents /\ proc[w].intent \notin new
                   /\ delivery'[proc[w].intent] = delivery[proc[w].intent]
    BY Zenon, <2>1 DEF ProcInv
  <2>3. \A e \in Intents : SameRemote(e)
    BY Zenon DEF SameRemote
  <2> QED
    BY Zenon, <2>1, <2>2, <2>3, ProcSame
<1>4. OneHolder'
  BY Zenon, <1>t, HolderKept DEF Busy
<1>5. Reserved'
  <2>1. ASSUME NEW d \in Intents, delivery'[d].state # "absent",
               Profile[delivery'[d].conn] = "jira"
        PROVE  d \in ticket'
    BY Zenon, <1>t, <2>1 DEF Reserved
  <2>2. \A d \in ticket : d \notin new /\ d \in Intents /\ delivery'[d] = delivery[d]
    BY Zenon, <1>t DEF Reserved
  <2>3. \A d \in ticket' : delivery'[d].state # "absent"
    BY Zenon, <1>t, <2>2 DEF Reserved
  <2>4. ASSUME NEW d \in ticket', NEW e \in ticket', delivery'[d].conn = delivery'[e].conn,
               delivery'[d].finding = delivery'[e].finding
        PROVE  d = e
    <3>1. CASE d \in ticket /\ e \in ticket
      <4>1. delivery'[d] = delivery[d] /\ delivery'[e] = delivery[e]
        BY Zenon, <2>2, <3>1
      <4>2. \A a, b \in ticket : /\ delivery[a].conn = delivery[b].conn
                                 /\ delivery[a].finding = delivery[b].finding
                                 => a = b
        BY Zenon, <1>t DEF Reserved
      <4>3. delivery[d].conn = delivery[e].conn /\ delivery[d].finding = delivery[e].finding
        BY Zenon, <2>4, <4>1
      <4> QED
        BY Zenon, <3>1, <4>2, <4>3
    <3>2. CASE d \in ticket /\ e \notin ticket
      BY Zenon, <2>2, <2>4, <3>2 DEF TicketTaken
    <3>3. CASE d \notin ticket /\ e \in ticket
      <4>1. d \in new /\ Profile[delivery'[d].conn] = "jira" /\ delivery'[e] = delivery[e]
        BY Zenon, <2>2, <3>3
      <4>2. ~TicketTaken(delivery'[d].conn, delivery'[d].finding)
        BY Zenon, <4>1
      <4> QED
        BY Zenon, <2>4, <3>3, <4>1, <4>2 DEF TicketTaken
    <3>4. CASE d \notin ticket /\ e \notin ticket
      BY Zenon, <2>4, <3>4
    <3> QED
      BY Zenon, <3>1, <3>2, <3>3, <3>4
  <2> QED
    BY Zenon, <2>1, <2>3, <2>4 DEF Reserved
<1> QED
  BY Zenon, <1>1, <1>2, <1>3, <1>4, <1>5 DEF DInv

\* Nothing is queued for a stale connection; a ticket is queued when nobody has
\* reserved it, and for the first policy only.
LEMMA QueuedSound ==
  ASSUME NInv, NEW x \in Changes
  PROVE  /\ \A r \in Queued(x) :
              Profile[r.conn] = "jira" => ~TicketTaken(r.conn, FindingOf[x])
         /\ \A r, s \in Queued(x) :
              Profile[r.conn] = "jira" /\ r.conn = s.conn => r = s
<1>t. /\ PolicyTypes /\ Numbered /\ event[x].epoch \in Nat /\ Policies \subseteq Nat
      /\ Matching(x) \subseteq revisions
  BY Zenon, NotificationConstants
     DEF NInv, PolicyInv, PolicyTypes, EventRows, Matching, InForce
<1>1. ASSUME NEW r \in Queued(x)
      PROVE  /\ r \in Matching(x) /\ ~Stale(r) /\ r.conn \notin event[x].unfit
             /\ Profile[r.conn] = "jira" => ~TicketTaken(r.conn, FindingOf[x])
             /\ Profile[r.conn] = "jira" =>
                  ~\E q \in Matching(x) : q.policy < r.policy /\ q.conn = r.conn /\ ~Stale(q)
  <2> DEFINE first == {q \in Matching(x) : q.policy < r.policy /\ q.conn = r.conn /\ ~Stale(q)}
             taken == /\ ~Stale(r) /\ Profile[r.conn] = "jira"
                      /\ TicketTaken(r.conn, FindingOf[x]) \/ (first # {} /\ r.conn \notin event[x].unfit)
  <2>1. r \in Matching(x) /\ OutcomeOf(r, x) = "queued"
    BY Zenon DEF Queued
  <2>2. (CASE Stale(r) -> "connection-stale" [] taken -> "duplicate-ticket"
           [] OTHER -> IF r.conn \in event[x].unfit THEN "invalid-payload" ELSE "queued") = "queued"
    BY Zenon, <2>1 DEF OutcomeOf
  <2>3. ~Stale(r)
    <3> HIDE DEF taken
    <3>1. taken => ~Stale(r)
      BY Zenon DEF taken
    <3> QED
      BY Zenon, <2>2, <3>1
  <2>4. ~taken
    <3> HIDE DEF taken
    <3> QED BY Zenon, <2>2, <2>3
  <2>5. r.conn \notin event[x].unfit
    <3> HIDE DEF taken
    <3> QED BY Zenon, <2>2, <2>3, <2>4
  <2>6. Profile[r.conn] = "jira" => ~TicketTaken(r.conn, FindingOf[x]) /\ first = {}
    BY Zenon, <2>3, <2>4, <2>5
  <2> QED
    BY Zenon, <2>1, <2>3, <2>5, <2>6
<1>2. ASSUME NEW r \in Queued(x), NEW s \in Queued(x),
             Profile[r.conn] = "jira", r.conn = s.conn
      PROVE  r = s
  <2>1. /\ r \in Matching(x) /\ s \in Matching(x)
        /\ ~(s.policy < r.policy) /\ ~(r.policy < s.policy)
    BY Zenon, <1>1, <1>2
  <2>2. r.policy \in Nat /\ s.policy \in Nat
    BY Zenon, <1>t, <2>1, RevisionTypes
  <2>3. r.policy = s.policy
    BY <2>1, <2>2
  <2>4. r \in InForce(event[x].epoch) /\ s \in InForce(event[x].epoch)
    BY Zenon, <2>1 DEF Matching
  <2> QED
    BY Zenon, <1>t, <2>3, <2>4, OneInForce
<1> QED
  BY Zenon, <1>1, <1>2

\* The intents of the revisions that queue one.
NewIntents(x) ==
  {d \in Intents : \E r \in Queued(x) : d = PolicyKey[r.policy, x]}

\* These intents and no others are accepted, with their reservations.
AcceptsAll(new) ==
  /\ delivery' \in [Intents -> Row]
  /\ \A d \in Intents \ new : delivery'[d] = delivery[d]
  /\ \A d \in new : /\ delivery[d].state = "absent" /\ delivery'[d].state = "queued"
                    /\ delivery'[d].marked = "no"
  /\ ticket' = ticket \cup {d \in new : Profile[delivery'[d].conn] = "jira"}
  /\ \A d \in new : Profile[delivery'[d].conn] = "jira" =>
       /\ ~TicketTaken(delivery'[d].conn, delivery'[d].finding)
       /\ \A e \in new : /\ delivery'[e].conn = delivery'[d].conn
                         /\ delivery'[e].finding = delivery'[d].finding
                         => d = e

\* evaluateFindingChangeEvent accepts new intents, each under the key of its
\* policy and as its revision says.
LEMMA EvaluateAccepts ==
  ASSUME NInv, NEW w \in Workers, NEW t \in eproc[w], Evaluate(w, t)
  PROVE  t.change \in Changes /\ AcceptsAll(NewIntents(t.change))
<1> DEFINE x == t.change
           queued == Queued(x)
           new == NewIntents(x)
           Chosen(d) == CHOOSE r \in queued : d = PolicyKey[r.policy, x]
<1>t. PolicyTypes /\ Numbered /\ TypeOK /\ \A y \in Changes : Decided(y)
  BY Zenon DEF NInv, PolicyInv, DInv
<1>c. t \in [change : Changes, fence : Nat]
  BY Zenon, <1>t DEF PolicyTypes
<1>x. x \in Changes
  BY Zenon, <1>c
<1>e. event[x].epoch \in Nat /\ event[x].state = "processing"
  BY Zenon, <1>t, <1>x DEF Evaluate, EventLeased, PolicyTypes, EventRows
<1>q. /\ queued = {r \in Matching(x) : OutcomeOf(r, x) = "queued"}
      /\ new = {d \in Intents : \E r \in queued : d = PolicyKey[r.policy, x]}
  BY Zenon DEF Queued, NewIntents
<1>1. /\ delivery' = [d \in Intents |->
             IF \E r \in queued : d = PolicyKey[r.policy, x] THEN IntentOf(Chosen(d), x)
             ELSE delivery[d]]
      /\ ticket' = ticket \cup
           {PolicyKey[r.policy, x] : r \in {q \in queued : Profile[q.conn] = "jira"}}
  BY Zenon DEF Evaluate, Queued
<1>o. \A r \in queued : delivery[PolicyKey[r.policy, x]].state = "absent"
  BY Zenon DEF Evaluate, Occupied
<1>s. /\ \A r \in queued : Profile[r.conn] = "jira" => ~TicketTaken(r.conn, FindingOf[x])
      /\ \A r, s \in queued : Profile[r.conn] = "jira" /\ r.conn = s.conn => r = s
  BY Zenon, <1>x, QueuedSound
<1>r. ASSUME NEW r \in queued
      PROVE  /\ r \in Matching(x) /\ r \in InForce(event[x].epoch) /\ r \in PolicyRevisions
             /\ r.policy \in Policies /\ PolicyKey[r.policy, x] \in Intents
  <2>1. r \in Matching(x) /\ r \in InForce(event[x].epoch) /\ r \in revisions
    BY Zenon, <1>q DEF Matching, InForce
  <2>2. r \in PolicyRevisions
    BY Zenon, <1>t, <2>1 DEF PolicyTypes
  <2>3. r.policy \in Policies
    BY Zenon, <2>2 DEF PolicyRevisions
  <2> QED
    BY Zenon, <1>x, <2>1, <2>2, <2>3, KeysApart
<1> HIDE DEF x, queued, new
<1>2. ASSUME NEW r \in queued, NEW s \in queued, PolicyKey[r.policy, x] = PolicyKey[s.policy, x]
      PROVE  r = s
  <2>1. r.policy = s.policy
    BY Zenon, <1>2, <1>r, <1>x, KeysApart
  <2>2. r \in InForce(event[x].epoch) /\ s \in InForce(event[x].epoch)
    BY Zenon, <1>r
  <2> QED
    BY Zenon, <1>t, <1>e, <2>1, <2>2, OneInForce
<1>3. ASSUME NEW r \in queued
      PROVE  Chosen(PolicyKey[r.policy, x]) = r
  BY Zenon, <1>2
<1> HIDE DEF Chosen
<1>4. ASSUME NEW r \in queued
      PROVE  IntentOf(r, x) \in Row
  <2>1. /\ r.conn \in Connections /\ r.rev \in Nat /\ r.actor \in Users /\ FindingOf[x] \in Findings
    <3>1. FindingOf \in [Changes -> Findings]
      BY Zenon, NotificationConstants
    <3> QED
      BY Zenon, <1>r, <1>x, <3>1 DEF PolicyRevisions
  <2>2. 0 \in Nat
    OBVIOUS
  <2> QED
    BY Zenon, <2>1, <2>2 DEF IntentOf, RowOf, Row
<1>5. ASSUME NEW d \in new
      PROVE  \E r \in queued : /\ d = PolicyKey[r.policy, x] /\ delivery'[d] = IntentOf(r, x)
                               /\ delivery'[d].state = "queued" /\ delivery'[d].marked = "no"
                               /\ delivery'[d].conn = r.conn
                               /\ delivery'[d].finding = FindingOf[x]
  <2>1. PICK r \in queued : d = PolicyKey[r.policy, x]
    BY Zenon, <1>q
  <2>2. d \in Intents
    BY Zenon, <1>q
  <2>3. delivery'[d] = IntentOf(r, x)
    BY Zenon, <1>1, <1>3, <2>1, <2>2
  <2>4. LET i == IntentOf(r, x) IN
        i.state = "queued" /\ i.marked = "no" /\ i.conn = r.conn /\ i.finding = FindingOf[x]
    BY Zenon DEF IntentOf, RowOf
  <2> QED
    BY Zenon, <2>1, <2>3, <2>4
<1>6. \A d \in Intents \ new : delivery'[d] = delivery[d]
  BY Zenon, <1>1, <1>q
<1>7. \A d \in Intents : delivery'[d] \in Row
  <2>1. \A d \in Intents : delivery[d] \in Row
    BY Zenon, <1>t DEF TypeOK
  <2> QED
    BY Zenon, <1>4, <1>5, <1>6, <2>1
<1>8. delivery' \in [Intents -> Row]
  BY Zenon, <1>1, <1>7
<1>9. \A d \in new : delivery[d].state = "absent"
  BY Zenon, <1>o, <1>q
<1>10. ticket' = ticket \cup {d \in new : Profile[delivery'[d].conn] = "jira"}
  <2> DEFINE jira == {q \in queued : Profile[q.conn] = "jira"}
             keys == {PolicyKey[r.policy, x] : r \in jira}
             tickets == {d \in new : Profile[delivery'[d].conn] = "jira"}
  <2>1. ASSUME NEW d \in tickets PROVE d \in keys
    <3>1. PICK r \in queued : d = PolicyKey[r.policy, x] /\ delivery'[d].conn = r.conn
      BY Zenon, <1>5
    <3>2. r \in jira
      BY Zenon, <2>1, <3>1
    <3> QED
      BY Zenon, <3>1, <3>2
  <2>2. ASSUME NEW r \in queued, Profile[r.conn] = "jira"
        PROVE  PolicyKey[r.policy, x] \in new /\ Profile[delivery'[PolicyKey[r.policy, x]].conn] = "jira"
    <3>1. PolicyKey[r.policy, x] \in new
      BY Zenon, <1>q, <1>r
    <3> QED
      BY Zenon, <1>2, <1>5, <2>2, <3>1
  <2>3. ASSUME NEW d \in keys PROVE d \in tickets
    <3>1. PICK r \in jira : d = PolicyKey[r.policy, x]
      BY Zenon
    <3> QED
      BY Zenon, <2>2, <3>1
  <2>4. keys = tickets
    <3> HIDE DEF keys, tickets
    <3> QED
      BY Zenon, <2>1, <2>3
  <2> QED
    BY Zenon, <1>1, <2>4
<1>11. ASSUME NEW d \in new, Profile[delivery'[d].conn] = "jira"
       PROVE  /\ ~TicketTaken(delivery'[d].conn, delivery'[d].finding)
              /\ \A e \in new : /\ delivery'[e].conn = delivery'[d].conn
                                /\ delivery'[e].finding = delivery'[d].finding
                                => d = e
  <2>1. PICK r \in queued : /\ d = PolicyKey[r.policy, x] /\ delivery'[d].conn = r.conn
                            /\ delivery'[d].finding = FindingOf[x]
    BY Zenon, <1>5
  <2>2. ~TicketTaken(r.conn, FindingOf[x]) /\ Profile[r.conn] = "jira"
    BY Zenon, <1>11, <1>s, <2>1
  <2>3. ASSUME NEW e \in new, delivery'[e].conn = delivery'[d].conn PROVE d = e
    <3>1. PICK s \in queued : e = PolicyKey[s.policy, x] /\ delivery'[e].conn = s.conn
      BY Zenon, <1>5
    <3> QED
      BY Zenon, <1>s, <2>1, <2>2, <2>3, <3>1
  <2> QED
    BY Zenon, <2>1, <2>2, <2>3
<1>12. \A d \in new : delivery'[d].state = "queued" /\ delivery'[d].marked = "no"
  BY Zenon, <1>5
<1> QED
  BY Zenon, <1>x, <1>6, <1>8, <1>9, <1>10, <1>11, <1>12 DEF x, new, AcceptsAll

\* An evaluation records one outcome for each revision that matches the change,
\* and nothing about any other change.
LEMMA EvaluateKeeps ==
  ASSUME NInv, NEW w \in Workers, NEW t \in eproc[w], Evaluate(w, t)
  PROVE  NInv'
<1> DEFINE x == t.change
           new == NewIntents(x)
           Answer1(r) == [policy |-> r.policy, number |-> r.number, change |-> x,
                          outcome |-> OutcomeOf(r, x)]
           row == [event[x] EXCEPT !.state = "evaluated", !.worker = Nobody, !.lease = "none"]
<1>t. PolicyTypes /\ Numbered /\ DInv /\ epoch \in Nat /\ \A y \in Changes : Decided(y)
  BY Zenon DEF NInv, PolicyInv, PolicyTypes
<1>x. x \in Changes /\ event[x] \in EventRows
  BY Zenon, <1>t, EvaluateAccepts DEF PolicyTypes
<1>1. /\ outcomes' = outcomes \cup {Answer1(r) : r \in Matching(x)}
      /\ event' = [event EXCEPT ![x] = row]
      /\ eproc' = [eproc EXCEPT ![w] = {}]
      /\ UNCHANGED <<epoch, revisions>>
      /\ UNCHANGED <<conn, writers, proc, posts, inflight, applied>>
      /\ event[x].state = "processing"
  BY Zenon DEF Evaluate, EventLeased
<1>a. AcceptsAll(new)
  BY Zenon, EvaluateAccepts
<1>2. DInv'
  <2>1. new \in SUBSET Intents
    BY Zenon DEF NewIntents
  <2> HIDE DEF new
  <2> QED
    BY Zenon, <1>t, <1>1, <1>a, <2>1, AcceptKeeps DEF AcceptsAll
<1>3. row \in EventRows /\ row.state = "evaluated" /\ row.epoch = event[x].epoch
  BY Zenon, <1>x DEF EventRows, EventStates
<1>4. /\ event'[x] = row /\ (\A y \in Changes : y # x => event'[y] = event[y])
      /\ event' \in [Changes -> EventRows]
  BY Zenon, <1>t, <1>1, <1>3, <1>x DEF PolicyTypes
<1>5. PolicyTypes'
  BY Zenon, <1>t, <1>1, <1>4 DEF PolicyTypes
<1>6. Numbered'
  BY Zenon, <1>t, <1>1 DEF Numbered, Of, IsLast
<1> HIDE DEF row
<1>m. ASSUME NEW y \in Changes PROVE Matching(y)' = Matching(y)
  <2>1. event'[y].epoch = event[y].epoch
    BY Zenon, <1>3, <1>4
  <2>2. InForce(event[y].epoch)' = InForce(event[y].epoch)
    BY Zenon, <1>1, <2>1 DEF InForce, Of
  <2> QED
    BY Zenon, <2>1, <2>2 DEF Matching
<1>7. ASSUME NEW y \in Changes, y # x PROVE Decided(y)'
  <2>1. event[y].epoch \in Nat /\ epoch <= epoch'
    BY <1>t, <1>1 DEF PolicyTypes, EventRows
  <2>2. Answered(y)' = Answered(y)
    <3>1. \A r : Answer1(r).change = x
      BY Zenon
    <3> HIDE DEF Answer1, x
    <3> QED
      BY Zenon, <1>1, <1>7, <3>1 DEF Answered
  <2>3. epoch' \in Nat /\ event'[y] = event[y] /\ Decided(y) /\ Matching(y)' = Matching(y)
    BY Zenon, <1>t, <1>1, <1>4, <1>7, <1>m
  <2> QED
    BY Zenon, <1>t, <2>1, <2>2, <2>3, DecidedKept
<1>8. Decided(x)'
  <2>1. Answered(x) = {} /\ event[x].epoch <= epoch
    BY Zenon, <1>t, <1>x, <1>1 DEF Decided
  <2>2. Answered(x)' = {Answer1(r) : r \in Matching(x)}
    <3>1. \A r : Answer1(r).change = x
      BY Zenon
    <3>2. \A o \in outcomes : o.change # x
      BY Zenon, <2>1 DEF Answered
    <3> HIDE DEF Answer1, x
    <3> QED
      BY Zenon, <1>1, <3>1, <3>2 DEF Answered
  <2>3. \A r : Answer1(r).policy = r.policy /\ Answer1(r).number = r.number
    BY Zenon
  <2>4. ASSUME NEW r \in Matching(x), NEW s \in Matching(x), r.policy = s.policy PROVE r = s
    <3>1. r \in InForce(event[x].epoch) /\ s \in InForce(event[x].epoch) /\ event[x].epoch \in Nat
      BY Zenon, <1>x DEF Matching, EventRows
    <3> QED
      BY Zenon, <1>t, <2>4, <3>1, OneInForce
  <2> HIDE DEF Answer1, x
  <2>5. Agree({Answer1(r) : r \in Matching(x)}, Matching(x))
    <3> DEFINE given == {Answer1(r) : r \in Matching(x)}
    <3>1. \A o \in given : \E r \in Matching(x) : o = Answer1(r)
      BY Zenon
    <3>2. \A r \in Matching(x) : Answer1(r) \in given
      BY Zenon
    <3> HIDE DEF given
    <3>3. ASSUME NEW o \in given
          PROVE  \E r \in Matching(x) : r.policy = o.policy /\ r.number = o.number
      <4>1. PICK r \in Matching(x) : o = Answer1(r)
        BY Zenon, <3>1
      <4>2. r.policy = o.policy /\ r.number = o.number
        BY Zenon, <2>3, <4>1
      <4> QED
        BY Zenon, <4>2
    <3>4. \A r \in Matching(x) : \E o \in given : r.policy = o.policy
      BY Zenon, <2>3, <3>2
    <3>5. ASSUME NEW o \in given, NEW q \in given, o.policy = q.policy PROVE o = q
      <4>1. PICK r \in Matching(x), s \in Matching(x) : o = Answer1(r) /\ q = Answer1(s)
        BY Zenon, <3>1
      <4> QED
        BY Zenon, <2>3, <2>4, <3>5, <4>1
    <3> QED
      BY Zenon, <3>3, <3>4, <3>5 DEF Agree, given
  <2>6. Agree(Answered(x)', Matching(x)')
    BY Zenon, <1>m, <1>x, <2>2, <2>5
  <2>7. /\ event'[x].epoch <= epoch' /\ event'[x].state = "evaluated" /\ x' = x
    BY Zenon, <1>1, <1>3, <1>4, <2>1 DEF x
  <2> QED
    BY Zenon, <2>6, <2>7 DEF Decided
<1>9. \A y \in Changes : Decided(y)'
  BY Zenon, <1>7, <1>8
<1> QED
  BY Zenon, <1>2, <1>5, <1>6, <1>9 DEF NInv, PolicyInv

\* A worker that loses its claim forgets it.
LEMMA LossKeeps ==
  ASSUME NInv, NEW w \in Workers, EvaluationLost(w)
  PROVE  NInv'
<1>1. /\ eproc' = [eproc EXCEPT ![w] = {}]
      /\ UNCHANGED <<deliveryVars, epoch, revisions, event, outcomes>>
  BY Zenon DEF EvaluationLost
<1>2. DInv' /\ delivery' = delivery
  BY Zenon, <1>1, DInvInductive DEF NInv, deliveryVars
<1>t. PolicyTypes /\ Numbered /\ \A y \in Changes : Decided(y)
  BY Zenon DEF NInv, PolicyInv
<1>3. PolicyTypes' /\ Numbered'
  BY Zenon, <1>t, <1>1 DEF PolicyTypes, Numbered, Of, IsLast
<1>4. \A y \in Changes : Decided(y)'
  BY Zenon, <1>t, <1>1, <1>2 DEF Decided, Answered, Matching, InForce, Of
<1> QED
  BY Zenon, <1>2, <1>3, <1>4 DEF NInv, PolicyInv

\* The invariant of the outbox with its policies is inductive.
LEMMA NInvInductive == NInv /\ [NNext \/ Dispatch]_notificationVars => NInv'
<1> SUFFICES ASSUME NInv, [NNext \/ Dispatch]_notificationVars PROVE NInv'
  BY Zenon
<1>u. ASSUME UNCHANGED deliveryVars, PolicyInv' PROVE NInv'
  BY Zenon, <1>u, DInvInductive DEF NInv
<1>1. CASE Administer
  <2>1. UNCHANGED deliveryVars
    BY Zenon, <1>1 DEF Administer, CreatePolicy, UpdatePolicy
  <2> QED
    BY Zenon, <1>1, <1>u, <2>1, AdministerKeeps
<1>2. CASE Manual \/ Dispatch
  BY Zenon, <1>2, ManualAndDispatch
<1>3. ASSUME NEW x \in Changes,
             Reconcile(x) \/ EventLeaseExpires(x) \/ \E w \in Workers : ClaimEvent(w, x)
      PROVE  NInv'
  <2>1. UNCHANGED deliveryVars
    BY Zenon, <1>3 DEF Reconcile, BeginReconcile, CommitReconcile, AbortReconcile,
       EventLeaseExpires, ClaimEvent
  <2> QED
    BY Zenon, <1>3, <1>u, <2>1, PendingKeeps
<1>4. ASSUME NEW w \in Workers, EvaluateAny(w) \/ EvaluationLost(w) PROVE NInv'
  BY Zenon, <1>4, EvaluateKeeps, LossKeeps DEF EvaluateAny
<1>5. CASE UNCHANGED notificationVars
  <2>1. UNCHANGED deliveryVars /\ UNCHANGED policyVars /\ delivery' = delivery
    BY Zenon, <1>5 DEF notificationVars, deliveryVars
  <2>2. PolicyInv'
    BY Zenon, <2>1, OutboxKeeps
  <2> QED
    BY Zenon, <1>u, <2>1, <2>2
<1> QED
  BY Zenon, <1>1, <1>2, <1>3, <1>4, <1>5 DEF NNext

LEMMA NInvAlways == NSpec => []NInv
BY InitNInv, NInvInductive, PTL DEF NSpec

-----------------------------------------------------------------------------
\* The revision in force at an epoch is the one whose successor is later.
LEMMA InForceIsLast ==
  ASSUME PolicyTypes, Numbered, NEW e \in Nat, NEW r \in revisions, r.epoch <= e
  PROVE  r \in InForce(e) <=> ~\E s \in Of(r.policy) : s.number = r.number + 1 /\ s.epoch <= e
<1>r. \A q \in revisions : q.number \in Nat \ {0} /\ q.epoch \in Nat
  BY Zenon, RevisionTypes
<1>o. \A s \in Of(r.policy) : s \in revisions /\ s.policy = r.policy
  BY Zenon DEF Of
<1>n. ASSUME NEW q \in Of(r.policy), NEW s \in Of(r.policy)
      PROVE  /\ q.number = s.number => q = s
             /\ q.number < s.number => q.epoch < s.epoch
  BY Zenon, <1>o DEF Numbered
<1>i. r \in Of(r.policy)
  BY Zenon DEF Of
<1>1. ASSUME r \in InForce(e), NEW s \in Of(r.policy), s.number = r.number + 1, s.epoch <= e
      PROVE  FALSE
  <2>1. s.epoch <= r.epoch
    BY Zenon, <1>1 DEF InForce
  <2>2. r.number < s.number => r.epoch < s.epoch
    BY Zenon, <1>i, <1>n
  <2>3. r.number \in Nat /\ r.epoch \in Nat /\ s.epoch \in Nat
    BY Zenon, <1>o, <1>r
  <2> QED
    BY <1>1, <2>1, <2>2, <2>3
<1>2. ASSUME ~\E s \in Of(r.policy) : s.number = r.number + 1 /\ s.epoch <= e,
             NEW q \in Of(r.policy), q.epoch <= e
      PROVE  q.epoch <= r.epoch
  <2>0. /\ r.number \in Nat \ {0} /\ r.epoch \in Nat
        /\ q.number \in Nat \ {0} /\ q.epoch \in Nat
    BY Zenon, <1>o, <1>r
  <2>1. CASE q.number <= r.number
    <3>1. /\ q.number = r.number => q = r
          /\ q.number < r.number => q.epoch < r.epoch
      BY Zenon, <1>i, <1>n
    <3> QED
      BY <2>0, <2>1, <3>1
  <2>2. CASE r.number < q.number
    <3>1. r.number + 1 \in 1..q.number
      BY <2>0, <2>2
    <3>o. q \in revisions /\ q.policy = r.policy
      BY Zenon, <1>o
    <3>g. \A n \in 1..q.number : \E z \in Of(q.policy) : z.number = n
      BY Zenon, <3>o DEF Numbered
    <3>z. PICK z \in Of(q.policy) : z.number = r.number + 1
      BY Zenon, <3>1, <3>g
    <3>2. z \in Of(r.policy) /\ z.number = r.number + 1
      BY Zenon, <3>o, <3>z DEF Of
    <3>3. /\ z.number = q.number => z = q
          /\ z.number < q.number => z.epoch < q.epoch
      BY Zenon, <1>n, <3>2
    <3>4. z.epoch \in Nat
      BY Zenon, <1>o, <1>r, <3>2
    <3>5. z.epoch <= e
      BY <1>2, <2>0, <2>2, <3>2, <3>3, <3>4
    <3> QED
      BY Zenon, <1>2, <3>2, <3>5
  <2> QED
    BY <2>0, <2>1, <2>2
<1> QED
  BY Zenon, <1>1, <1>2 DEF InForce

INSTANCE FiniteSetTheorems

\* evaluateFindingChangeEvent: whatever is approved before, during and after the
\* evaluation of a change, by however many workers it is taken up, its outcomes
\* are one for each policy whose revision at the recorded epoch matches it.
THEOREM InForceDecides == NSpec => []PolicyInForceDecides
<1>1. NInv => PolicyInForceDecides
  <2> SUFFICES ASSUME NInv PROVE PolicyInForceDecides
    BY Zenon
  <2>t. PolicyTypes /\ Numbered /\ \A y \in Changes : Decided(y)
    BY Zenon DEF NInv, PolicyInv
  <2> DEFINE Last(x, p) == {r \in Of(p) : /\ r.epoch <= event[x].epoch
                                          /\ ~\E s \in Of(p) : /\ s.number = r.number + 1
                                                               /\ s.epoch <= event[x].epoch}
             Due(x, p) == {r \in Last(x, p) : r.enabled = "yes" /\ KindOf[x] \in r.kinds}
  <2>1. ASSUME NEW x \in Changes, event[x].state = "evaluated", NEW p \in Policies
        PROVE  /\ Cardinality({o \in Answered(x) : o.policy = p}) = Cardinality(Due(x, p))
               /\ \A o \in Answered(x) : o.policy = p => \E r \in Due(x, p) : r.number = o.number
    <3>e. event[x].epoch \in Nat
      BY Zenon, <2>t DEF PolicyTypes, EventRows
    <3>1. ASSUME NEW r PROVE r \in Last(x, p) <=> r \in InForce(event[x].epoch) /\ r.policy = p
      <4>1. r \in InForce(event[x].epoch) => r \in revisions /\ r.epoch <= event[x].epoch
        BY Zenon DEF InForce
      <4>2. r \in Of(p) <=> r \in revisions /\ r.policy = p
        BY Zenon DEF Of
      <4> QED
        BY Zenon, <2>t, <3>e, <4>1, <4>2, InForceIsLast
    <3>2. \A r : r \in Due(x, p) <=> r \in Matching(x) /\ r.policy = p
      BY Zenon, <3>1 DEF Matching
    <3>3. Agree(Answered(x), Matching(x))
      BY Zenon, <2>t, <2>1 DEF Decided
    <3>4. \A r, s \in Due(x, p) : r = s
      <4>1. \A r \in Due(x, p) : r \in InForce(event[x].epoch) /\ r.policy = p
        BY Zenon, <3>1
      <4> HIDE DEF Due
      <4> QED
        BY Zenon, <2>t, <3>e, <4>1, OneInForce
    <3> DEFINE due == Due(x, p)
               given == {o \in Answered(x) : o.policy = p}
    <3>5. \A o \in Answered(x) : o.policy = p => \E r \in due : r.number = o.number
      <4> HIDE DEF Due
      <4> QED
        BY Zenon, <3>2, <3>3 DEF Agree
    <3>6. ASSUME NEW r \in due PROVE \E o \in given : TRUE
      <4>1. r \in Matching(x) /\ r.policy = p
        BY Zenon, <3>2
      <4>2. \E o \in Answered(x) : r.policy = o.policy
        BY Zenon, <3>3, <4>1 DEF Agree
      <4> QED
        BY Zenon, <4>1, <4>2
    <3>7. \A o, q \in given : o = q
      BY Zenon, <3>3 DEF Agree
    <3>8. \A r, s \in due : r = s
      BY Zenon, <3>4
    <3>9. Cardinality(given) = Cardinality(due)
      <4>1. CASE due = {}
        <5>1. given = {}
          BY Zenon, <3>5, <4>1
        <5> QED
          BY Zenon, <4>1, <5>1
      <4>2. CASE due # {}
        <5>0. PICK r \in due : TRUE
          BY Zenon, <4>2
        <5>1. due = {r}
          <6> HIDE DEF due
          <6> QED
            BY Zenon, <3>8, <5>0
        <5>2. PICK o \in given : TRUE
          BY Zenon, <3>6, <5>0
        <5>3. given = {o}
          <6> HIDE DEF given
          <6> QED
            BY Zenon, <3>7, <5>2
        <5> HIDE DEF due, given
        <5> QED
          BY Zenon, <5>1, <5>3, FS_Singleton
      <4> QED
        BY Zenon, <4>1, <4>2
    <3> QED
      BY Zenon, <3>5, <3>9
  <2>2. \A x \in Changes : event[x].state # "evaluated" => Answered(x) = {}
    BY Zenon, <2>t DEF Decided
  <2> QED
    BY Zenon, <2>1, <2>2 DEF PolicyInForceDecides, Answered
<1> QED
  BY <1>1, NInvAlways, PTL

\* With policies evaluated beside the users' requests, an intent is still sent
\* at most once, its outcome is true, and a finding gets at most one ticket per
\* Jira connection, also from two policies of one evaluation.
THEOREM NotificationSafety ==
  NSpec => [](AtMostOnePost /\ OutcomeIsHonest /\ OneTicketPerFinding)
<1>1. NInv => DInv
  BY Zenon DEF NInv
<1> QED
  BY <1>1, NInvAlways, DInvImplies, PTL

\* The whole of an evaluation is one acceptance of the contract.
LEMMA EvaluateContract ==
  ASSUME NInv, NEW w \in Workers, NEW t \in eproc[w], Evaluate(w, t)
  PROVE  Contract!Next
<1> DEFINE new == NewIntents(t.change)
           st == [d \in Intents |-> ReportOf(delivery[d].state)]
<1>a. AcceptsAll(new) /\ new \subseteq Intents /\ applied' = applied
  <2>1. AcceptsAll(new) /\ new \subseteq Intents
    BY Zenon, EvaluateAccepts DEF NewIntents
  <2>2. applied' = applied
    BY Zenon DEF Evaluate
  <2> QED
    BY Zenon, <2>1, <2>2
<1> HIDE DEF new
<1>1. /\ \A d \in Intents \ new : delivery'[d] = delivery[d]
      /\ \A d \in new : delivery[d].state = "absent" /\ delivery'[d].state = "queued"
  BY Zenon, <1>a DEF AcceptsAll
<1>3. /\ \A d \in new : st[d] = "none" /\ ReportOf(delivery'[d].state) = "accepted"
      /\ \A d \in Intents \ new : ReportOf(delivery'[d].state) = st[d]
  BY Zenon, <1>1, <1>a, Reports
<1>4. new \in SUBSET Contract!Fresh
  BY Zenon, <1>a, <1>3 DEF Contract!Fresh
<1>5. Contract!Accept(new)
  BY Zenon, <1>a, <1>3 DEF Contract!Accept
<1> QED
  BY Zenon, <1>4, <1>5 DEF Contract!Next

\* The outbox, fed by users and by policies, implements the contract.
THEOREM NotificationsImplementContract == NSpec => ImplementsContract
<1>1. ASSUME NInv, NInv', [NNext \/ Dispatch]_notificationVars
      PROVE  [Contract!Next]_(Contract!contractVars)
  <2>0. DInv /\ DInv'
    BY Zenon, <1>1 DEF NInv
  <2>1. CASE UNCHANGED deliveryVars
    BY Zenon, <2>0, <2>1, ContractStep
  <2>2. CASE Manual \/ Dispatch
    BY Zenon, <1>1, <2>0, <2>2, ManualAndDispatch, ContractStep
  <2>3. ASSUME NEW w \in Workers, EvaluateAny(w)
        PROVE  [Contract!Next]_(Contract!contractVars)
    BY Zenon, <1>1, <2>3, EvaluateContract DEF EvaluateAny
  <2>4. CASE Administer
    BY Zenon, <2>1, <2>4 DEF Administer, CreatePolicy, UpdatePolicy
  <2>5. ASSUME NEW x \in Changes,
               Reconcile(x) \/ EventLeaseExpires(x) \/ \E w \in Workers : ClaimEvent(w, x)
        PROVE  UNCHANGED deliveryVars
    BY Zenon, <2>5 DEF Reconcile, BeginReconcile, CommitReconcile, AbortReconcile,
       EventLeaseExpires, ClaimEvent
  <2>6. ASSUME NEW w \in Workers, EvaluationLost(w) PROVE UNCHANGED deliveryVars
    BY Zenon, <2>6 DEF EvaluationLost
  <2>7. CASE UNCHANGED notificationVars
    BY Zenon, <2>1, <2>7 DEF notificationVars
  <2> QED
    BY Zenon, <1>1, <2>1, <2>2, <2>3, <2>4, <2>5, <2>6, <2>7 DEF NNext
<1>2. NInit => Contract!Init
  BY Zenon, InitContract DEF NInit
<1>3. NSpec => Contract!Spec
  BY <1>1, <1>2, NInvAlways, PTL DEF NSpec, Contract!Spec
<1> QED
  BY Zenon, <1>3 DEF ImplementsContract
=============================================================================
