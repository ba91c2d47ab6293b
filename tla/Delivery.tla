------------------------------ MODULE Delivery ------------------------------
(***************************************************************************)
(* Deliveries of finding notifications to Slack, Jira, Teams and webhooks:  *)
(* the durable outbox (finding_deliveries), the reservation of one Jira     *)
(* ticket per connection and finding, the delivery worker, and the remote   *)
(* service as the worker sees it.                                           *)
(*                                                                         *)
(* Each transaction of the code is one action.  Between them a worker holds *)
(* only what is in its memory (proc); it may be cancelled, stall for longer  *)
(* than its lease, or crash.  A request that left the worker is applied or   *)
(* refused by the remote service later, or the answer never arrives.        *)
(*                                                                         *)
(* lease_until is only ever compared with the database clock, so a row       *)
(* records on which side of the clock it lies.                              *)
(***************************************************************************)
EXTENDS Naturals, FiniteSets

CONSTANTS
  Intents,      \* idempotency keys of a workspace: each names at most one delivery
  Findings,
  Connections,
  Profile,      \* the profile of a connection, which an edit cannot change
  Users,
  Workers,
  MaxRevision,  \* bound on the revision of a connection
  Nobody,       \* worker_id IS NULL
  NoIntent      \* an idle worker holds no delivery

Profiles == {"slack", "jira", "teams", "webhook"}

ASSUME DeliveryConstants ==
  /\ Profile \in [Connections -> Profiles]
  /\ MaxRevision \in Nat \ {0}
  /\ Nobody \notin Workers /\ NoIntent \notin Intents
  /\ Findings # {} /\ Connections # {} /\ Users # {}

VARIABLES
  delivery,   \* the finding_deliveries table
  ticket,     \* jira_finding_effects: the intents that reserved their ticket
  conn,       \* integration_connections: enabled and revision
  writers,    \* users whose membership lets them write
  proc,       \* what each worker has in memory
  posts,      \* how many requests left a worker for each intent
  inflight,   \* requests the remote service has not decided on
  applied     \* how many requests of an intent the remote service applied

deliveryVars == <<delivery, ticket, conn, writers, proc, posts, inflight, applied>>

-----------------------------------------------------------------------------
Refusals == {"blocked", "failed", "rate-limited"}
Confirmations == {"confirmed", "accepted"}
Final == Refusals \cup Confirmations \cup {"uncertain"}

Row == [state   : Final \cup {"absent", "queued", "dispatching"},
        finding : Findings, conn : Connections, rev : Nat, actor : Users,
        fence   : Nat, worker : Workers \cup {Nobody},
        lease   : {"none", "live", "expired"},
        marked  : {"no", "yes"}]        \* create_attempted_at IS NOT NULL

RowOf(s, f, c, r, u) ==
  [state |-> s, finding |-> f, conn |-> c, rev |-> r, actor |-> u, fence |-> 0,
   worker |-> Nobody, lease |-> "none", marked |-> "no"]

Steps == {"idle", "preview", "mark", "send", "wait", "finish"}

\* outcome is what the worker will record; "none" while it does not know.
Proc == [pc : Steps, intent : Intents \cup {NoIntent}, fence : Nat, cancelled : {"no", "yes"},
         outcome : Final \cup {"none"}]

ProcAt(pc, d, n) ==
  [pc |-> pc, intent |-> d, fence |-> n, cancelled |-> "no", outcome |-> "none"]

IdleProc == ProcAt("idle", NoIntent, 0)

Init ==
  /\ delivery = [d \in Intents |->
       RowOf("absent", CHOOSE f \in Findings : TRUE, CHOOSE c \in Connections : TRUE,
             0, CHOOSE u \in Users : TRUE)]
  /\ ticket = {}
  /\ conn = [c \in Connections |-> [enabled |-> "yes", revision |-> 1]]
  /\ writers = Users
  /\ proc = [w \in Workers |-> IdleProc]
  /\ posts = [d \in Intents |-> 0]
  /\ inflight = {}
  /\ applied = [d \in Intents |-> 0]

-----------------------------------------------------------------------------
\* Slack sends without an attempt marker; the other profiles are guarded.
Guarded(c) == Profile[c] # "slack"

\* The requester may still write and the connection is the approved one.
Authorized(d) ==
  LET r == delivery[d] IN
  /\ r.actor \in writers
  /\ conn[r.conn].enabled = "yes"
  /\ conn[r.conn].revision = r.rev

\* The row is still leased to this dispatch.
Leased(w) ==
  LET r == delivery[proc[w].intent] IN
  /\ r.state = "dispatching" /\ r.lease = "live"
  /\ r.worker = w /\ r.fence = proc[w].fence

\* Another intent of the workspace holds the ticket of this pair.
TicketTaken(c, f) ==
  \E d \in ticket : delivery[d].conn = c /\ delivery[d].finding = f

-----------------------------------------------------------------------------
\* Insert an intent bound to the current connection revision and, for Jira,
\* reserve the ticket in the same transaction.
InsertDelivery(d, f, c, u) ==
  /\ delivery[d].state = "absent"
  /\ Profile[c] = "jira" => ~TicketTaken(c, f)
  /\ delivery' = [delivery EXCEPT ![d] = RowOf("queued", f, c, conn[c].revision, u)]
  /\ ticket' = IF Profile[c] = "jira" THEN ticket \cup {d} ELSE ticket
  /\ UNCHANGED <<conn, writers, proc, posts, inflight, applied>>

\* A user queues a delivery.  A known key answers with the stored row or with
\* a conflict, and a preview digest of an older revision is a conflict: both
\* change nothing.
EnqueueDelivery(d, f, c, u) ==
  /\ u \in writers
  /\ conn[c].enabled = "yes"
  /\ InsertDelivery(d, f, c, u)

\* Every accepted edit of a connection (name, target, credential, enabled)
\* advances its revision.
EditConnection(c, enabled) ==
  /\ conn[c].revision < MaxRevision
  /\ conn' = [conn EXCEPT ![c] = [enabled |-> enabled, revision |-> conn[c].revision + 1]]
  /\ UNCHANGED <<delivery, ticket, writers, proc, posts, inflight, applied>>

ChangeRole(u) ==
  /\ writers' = IF u \in writers THEN writers \ {u} ELSE writers \cup {u}
  /\ UNCHANGED <<delivery, ticket, conn, proc, posts, inflight, applied>>

-----------------------------------------------------------------------------
Settled(d, w, s) ==
  [delivery EXCEPT ![d] = [@ EXCEPT !.state = s, !.worker = w,
                             !.fence = delivery[d].fence + 1, !.lease = "none"]]

\* Mutant: an expired dispatch is put back in the queue as if it were new.
ClaimExpiredRequeues(w, d) ==
  /\ proc[w].pc = "idle"
  /\ delivery[d].state = "dispatching" /\ delivery[d].lease = "expired"
  /\ delivery' = [delivery EXCEPT ![d] = [@ EXCEPT !.state = "queued", !.worker = Nobody,
                                            !.lease = "none", !.marked = "no"]]
  /\ UNCHANGED <<ticket, conn, writers, proc, posts, inflight, applied>>

\* Mutant: only dispatches that were never attempted are recovered.
ClaimExpiredUnmarkedOnly(w, d) ==
  /\ proc[w].pc = "idle"
  /\ delivery[d].state = "dispatching" /\ delivery[d].lease = "expired"
  /\ delivery[d].marked = "no"
  /\ delivery' = Settled(d, w, IF Guarded(delivery[d].conn) THEN "blocked" ELSE "uncertain")
  /\ UNCHANGED <<ticket, conn, writers, proc, posts, inflight, applied>>

\* A dispatch whose lease expired is over: it may have been sent unless a
\* guarded profile shows that its attempt marker was never committed.
ClaimExpired(w, d) ==
  /\ proc[w].pc = "idle"
  /\ delivery[d].state = "dispatching" /\ delivery[d].lease = "expired"
  /\ delivery' = Settled(d, w, IF Guarded(delivery[d].conn) /\ delivery[d].marked = "no"
                               THEN "blocked" ELSE "uncertain")
  /\ UNCHANGED <<ticket, conn, writers, proc, posts, inflight, applied>>

\* A queued delivery that lost its authority, or whose credential or adapter
\* cannot be opened (usable FALSE), is blocked.
ClaimBlocked(w, d, usable) ==
  /\ proc[w].pc = "idle"
  /\ delivery[d].state = "queued"
  /\ ~Authorized(d) \/ ~usable
  /\ delivery' = Settled(d, w, "blocked")
  /\ UNCHANGED <<ticket, conn, writers, proc, posts, inflight, applied>>

FirstStep(c) ==
  CASE Profile[c] = "slack" -> "send"
    [] Profile[c] = "jira" -> "preview"
    [] OTHER -> "mark"

ClaimDispatch(w, d) ==
  /\ proc[w].pc = "idle"
  /\ delivery[d].state = "queued"
  /\ Authorized(d)
  /\ delivery' = [delivery EXCEPT ![d] = [@ EXCEPT !.state = "dispatching",
                    !.worker = w, !.fence = delivery[d].fence + 1, !.lease = "live"]]
  /\ proc' = [proc EXCEPT ![w] =
       ProcAt(FirstStep(delivery[d].conn), d, delivery[d].fence + 1)]
  /\ UNCHANGED <<ticket, conn, writers, posts, inflight, applied>>

-----------------------------------------------------------------------------
Goto(w, pc, outcome) ==
  proc' = [proc EXCEPT ![w] = [@ EXCEPT !.pc = pc, !.outcome = outcome]]

\* Shutdown, a failed probe of the authority watch, or a lost lease seen by it
\* cancels the native context.
Cancel(w) ==
  /\ proc[w].pc \in {"preview", "mark", "send", "wait"}
  /\ proc[w].cancelled = "no"
  /\ proc' = [proc EXCEPT ![w] = [@ EXCEPT !.cancelled = "yes"]]
  /\ UNCHANGED <<delivery, ticket, conn, writers, posts, inflight, applied>>

\* The metadata request of Jira: accepted, or an outcome without any attempt.
Preview(w) ==
  /\ proc[w].pc = "preview"
  /\ \/ Goto(w, "mark", "none")
     \/ \E s \in Refusals :
          Goto(w, "finish", IF proc[w].cancelled = "yes" THEN "blocked" ELSE s)
  /\ UNCHANGED <<delivery, ticket, conn, writers, posts, inflight, applied>>

\* Mutant: the marker is written without the lease.
MarkWithoutLease(w) ==
  LET d == proc[w].intent IN
  /\ proc[w].pc = "mark"
  /\ Goto(w, "send", "none")
  /\ delivery' = [delivery EXCEPT ![d] = [@ EXCEPT !.marked = "yes"]]
  /\ UNCHANGED <<ticket, conn, writers, posts, inflight, applied>>

\* The marker is committed before the request leaves.
Mark(w) ==
  LET d == proc[w].intent IN
  /\ proc[w].pc = "mark" /\ proc[w].cancelled = "no"
  /\ Leased(w) /\ Authorized(d) /\ delivery[d].marked = "no"
  /\ Goto(w, "send", "none")
  /\ delivery' = [delivery EXCEPT ![d] = [@ EXCEPT !.marked = "yes"]]
  /\ UNCHANGED <<ticket, conn, writers, posts, inflight, applied>>

\* The commit of the marker fails: it may have happened (committed) or not,
\* and the worker, holding the row it wanted to write, assumes it has.
MarkUnclear(w, committed) ==
  LET d == proc[w].intent IN
  /\ proc[w].pc = "mark"
  /\ Leased(w) /\ Authorized(d) /\ delivery[d].marked = "no"
  /\ Goto(w, "finish", "uncertain")
  /\ delivery' = IF committed THEN [delivery EXCEPT ![d] = [@ EXCEPT !.marked = "yes"]] ELSE delivery
  /\ UNCHANGED <<ticket, conn, writers, posts, inflight, applied>>

\* Cancelled, lease lost, authority denied or a database error before the
\* marker was written.
MarkDenied(w) ==
  LET d == proc[w].intent IN
  /\ proc[w].pc = "mark"
  /\ Goto(w, "finish", IF Leased(w) /\ delivery[d].marked = "yes"
                       THEN "uncertain" ELSE "blocked")
  /\ UNCHANGED <<delivery, ticket, conn, writers, posts, inflight, applied>>

\* adapter.Send: the request leaves.
Post(w) ==
  LET d == proc[w].intent IN
  /\ proc[w].pc = "send" /\ proc[w].cancelled = "no"
  /\ posts' = [posts EXCEPT ![d] = posts[d] + 1]
  /\ inflight' = inflight \cup {d}
  /\ Goto(w, "wait", "none")
  /\ UNCHANGED <<delivery, ticket, conn, writers, applied>>

\* adapter.Send refuses a cancelled context or an unusable payload before any
\* request.  The worker records a cancelled send as uncertain.
SendRefused(w) ==
  /\ proc[w].pc = "send"
  /\ \E s \in {"blocked", "failed"} :
       Goto(w, "finish", IF proc[w].cancelled = "yes" THEN "uncertain" ELSE s)
  /\ UNCHANGED <<delivery, ticket, conn, writers, posts, inflight, applied>>

\* The remote service applies or refuses a request, also long after the
\* worker stopped waiting for the answer.
RemoteApplies(d) ==
  /\ d \in inflight
  /\ inflight' = inflight \ {d}
  /\ applied' = [applied EXCEPT ![d] = applied[d] + 1]
  /\ UNCHANGED <<delivery, ticket, conn, writers, proc, posts>>

RemoteRefuses(d) ==
  /\ d \in inflight
  /\ inflight' = inflight \ {d}
  /\ UNCHANGED <<delivery, ticket, conn, writers, proc, posts, applied>>

\* What Send can return.  A 5xx, an unreadable or a missing answer is
\* uncertain whatever the service did.
SendOutcomes(w) ==
  LET d == proc[w].intent IN
  {"uncertain"} \cup
  IF d \in inflight THEN {}
  ELSE IF applied[d] > 0
       THEN {IF Profile[delivery[d].conn] \in {"slack", "jira"} THEN "confirmed" ELSE "accepted"}
       ELSE Refusals

\* A cancelled wait turns every answer into uncertain, except that Slack keeps
\* a confirmation it has already read.
Answer(w) ==
  /\ proc[w].pc = "wait"
  /\ \E s \in SendOutcomes(w) :
       Goto(w, "finish",
            IF proc[w].cancelled = "yes"
               /\ (Guarded(delivery[proc[w].intent].conn) \/ s \notin Confirmations)
            THEN "uncertain" ELSE s)
  /\ UNCHANGED <<delivery, ticket, conn, writers, posts, inflight, applied>>

\* finishDelivery and finishGuardedDelivery.  Without the lease nothing is
\* written.  A guarded delivery that lost its authority meanwhile records what
\* an interrupted one would; the outcome in memory is dropped.
Finish(w) ==
  LET d == proc[w].intent IN
  /\ proc[w].pc = "finish"
  /\ proc' = [proc EXCEPT ![w] = IdleProc]
  /\ delivery' =
       IF ~Leased(w) THEN delivery
       ELSE [delivery EXCEPT ![d] = [@ EXCEPT !.lease = "none", !.state =
              IF Guarded(delivery[d].conn) /\ ~Authorized(d)
              THEN IF delivery[d].marked = "yes" THEN "uncertain" ELSE "blocked"
              ELSE proc[w].outcome]]
  /\ UNCHANGED <<ticket, conn, writers, posts, inflight, applied>>

\* The process dies, or its last transaction fails: its memory is gone.
Crash(w) ==
  /\ proc[w].pc # "idle"
  /\ proc' = [proc EXCEPT ![w] = IdleProc]
  /\ UNCHANGED <<delivery, ticket, conn, writers, posts, inflight, applied>>

\* The database clock passes lease_until.
LeaseExpires(d) ==
  /\ delivery[d].state = "dispatching" /\ delivery[d].lease = "live"
  /\ delivery' = [delivery EXCEPT ![d] = [@ EXCEPT !.lease = "expired"]]
  /\ UNCHANGED <<ticket, conn, writers, proc, posts, inflight, applied>>

-----------------------------------------------------------------------------
Claim(w, d) ==
  \/ ClaimExpired(w, d)
  \/ \E usable \in BOOLEAN : ClaimBlocked(w, d, usable)
  \/ ClaimDispatch(w, d)

Work(w) ==
  \/ Preview(w)
  \/ Mark(w)
  \/ \E committed \in BOOLEAN : MarkUnclear(w, committed)
  \/ MarkDenied(w)
  \/ Post(w)
  \/ SendRefused(w)
  \/ Answer(w)
  \/ Finish(w)

Worker(w) == Work(w) \/ \E d \in Intents : Claim(w, d)

Next ==
  \/ \E d \in Intents, f \in Findings, c \in Connections, u \in Users : EnqueueDelivery(d, f, c, u)
  \/ \E c \in Connections, enabled \in {"yes", "no"} : EditConnection(c, enabled)
  \/ \E u \in Users : ChangeRole(u)
  \/ \E w \in Workers : Worker(w) \/ Cancel(w) \/ Crash(w)
  \/ \E d \in Intents : RemoteApplies(d) \/ RemoteRefuses(d) \/ LeaseExpires(d)

Spec == Init /\ [][Next]_deliveryVars

-----------------------------------------------------------------------------
\* Types of the tables (their CHECK constraints), of the memory of the workers
\* and of the remote service.
TypeOK ==
  /\ delivery \in [Intents -> Row]
  /\ ticket \subseteq Intents
  /\ conn \in [Connections -> [enabled : {"yes", "no"}, revision : Nat]]
  /\ writers \subseteq Users
  /\ proc \in [Workers -> Proc]
  /\ posts \in [Intents -> Nat]
  /\ inflight \subseteq Intents
  /\ applied \in [Intents -> Nat]

\* An approved intent leaves the system at most once, whatever combination of
\* crashes, stalls past the lease, cancellations and recoveries it meets.
AtMostOnePost == \A d \in Intents : posts[d] <= 1

\* A recorded outcome is the truth about the remote service, also about a
\* request that is still under way: a confirmation was applied exactly once,
\* and what is recorded as not delivered was not and will not be applied.
OutcomeIsHonest ==
  \A d \in Intents :
    /\ delivery[d].state \in Confirmations => applied[d] = 1
    /\ delivery[d].state \in Refusals => applied[d] = 0 /\ d \notin inflight

\* At most one Jira issue is ever created for a connection and a finding, by
\* whatever number of intents, keys and users.
OneTicketPerFinding ==
  \A d, e \in Intents :
    /\ applied[d] > 0 /\ applied[e] > 0
    /\ delivery[d].conn = delivery[e].conn /\ Profile[delivery[d].conn] = "jira"
    /\ delivery[d].finding = delivery[e].finding
    => d = e

\* A recorded outcome is final, an intent never changes what was approved, and
\* nothing is sent for a delivery recorded as delivered or as not delivered.
\* (It may be for an uncertain one: a stalled worker does not read the row
\* again between its last check and the request.)
OutcomeIsFinal ==
  [][\A d \in Intents :
       /\ delivery[d].state \in Final => delivery'[d] = delivery[d]
       /\ delivery[d].state \in Refusals \cup Confirmations => posts'[d] = posts[d]
       /\ delivery[d].state # "absent" =>
            /\ delivery'[d].finding = delivery[d].finding
            /\ delivery'[d].conn = delivery[d].conn
            /\ delivery'[d].rev = delivery[d].rev
            /\ delivery'[d].actor = delivery[d].actor]_deliveryVars

\* Every accepted intent reaches an outcome, although workers may crash at any
\* time and the remote service may never answer.
EveryIntentSettles ==
  []<>(\A d \in Intents : delivery[d].state \notin {"queued", "dispatching"})

\* The abstract report of a recorded state.
ReportOf(s) ==
  CASE s = "absent" -> "none"
    [] s \in {"queued", "dispatching"} -> "accepted"
    [] s \in Confirmations -> "delivered"
    [] s \in Refusals -> "not-delivered"
    [] s = "uncertain" -> "unknown"

Contract == INSTANCE DeliveryContract WITH
  status <- [d \in Intents |-> ReportOf(delivery[d].state)],
  effect <- applied

\* The outbox, its workers and the remote service implement the contract: at
\* most one effect per intent, and reports that are true and final.
ImplementsContract == Contract!Spec
=============================================================================
