---------------------------- MODULE Notifications ----------------------------
(***************************************************************************)
(* Automatic notification policies.  Administrators approve revisions of a  *)
(* policy, reconciliation records finding changes under the policy epoch it  *)
(* read, and the delivery worker evaluates each recorded change once,        *)
(* atomically with the deliveries it queues.                                *)
(*                                                                         *)
(* The deliveries, tickets, connections and workers are those of Delivery.  *)
(***************************************************************************)
EXTENDS Delivery

CONSTANTS
  Policies,    \* identifiers of policies, in the order of policy_id
  Changes,     \* finding changes: a finding and its change revision
  FindingOf,
  KindOf,      \* change kind and severity, as far as policies tell them apart
  Kinds,
  Selections,  \* the connections and sets of kinds that administrators pair
  PolicyKey,   \* the idempotency key of a policy and a change
  MaxEpoch,    \* bound on the policy epoch of the workspace
  MaxClaims    \* bound on the claims of an event: the last one is not lost

ASSUME NotificationConstants ==
  /\ Policies \subseteq Nat
  /\ FindingOf \in [Changes -> Findings] /\ KindOf \in [Changes -> Kinds]
  /\ Selections \subseteq Connections \X ((SUBSET Kinds) \ {{}})
  /\ PolicyKey \in [Policies \X Changes -> Intents]
  /\ \A p, q \in Policies, x, y \in Changes :
       PolicyKey[p, x] = PolicyKey[q, y] => p = q /\ x = y
  /\ MaxEpoch \in Nat /\ MaxClaims \in Nat

VARIABLES
  epoch,      \* workspaces.notification_policy_epoch
  revisions,  \* notification_policy_revisions
  event,      \* finding_change_events; "open" and "skipped" are no rows: a reconciliation
              \* under way, and a change recorded before the first policy; unfit: the
              \* connections for which its title and asset make no acceptable payload
  outcomes,   \* notification_policy_events
  eproc       \* the change a worker has claimed, with its fence

policyVars == <<epoch, revisions, event, outcomes, eproc>>
notificationVars == <<deliveryVars, policyVars>>

-----------------------------------------------------------------------------
Revision(p, n, e, c, r, enabled, kinds, u) ==
  [policy |-> p, number |-> n, epoch |-> e, conn |-> c, rev |-> r,
   enabled |-> enabled, kinds |-> kinds, actor |-> u]

EventIn(s, e, unfit) ==
  [state |-> s, epoch |-> e, unfit |-> unfit, fence |-> 0, worker |-> Nobody, lease |-> "none"]

NInit ==
  /\ Init
  /\ epoch = 0
  /\ revisions = {}
  /\ event = [x \in Changes |-> EventIn("none", 0, {})]
  /\ outcomes = {}
  /\ eproc = [w \in Workers |-> {}]

\* The revisions of a policy; the last one is the row of notification_policies.
Of(p) == {r \in revisions : r.policy = p}
Current(p) == CHOOSE r \in Of(p) : \A s \in Of(p) : s.number <= r.number

-----------------------------------------------------------------------------
\* createNotificationPolicy: the snapshot is the connection as it is now.  The
\* role of the user was checked before the transaction and may have changed.
CreatePolicy(p, u, c, enabled, kinds) ==
  /\ epoch < MaxEpoch
  /\ Of(p) = {}
  /\ epoch' = epoch + 1
  /\ revisions' = revisions \cup
       {Revision(p, 1, epoch + 1, c, conn[c].revision, enabled, kinds, u)}
  /\ UNCHANGED <<deliveryVars, event, outcomes, eproc>>

\* updateNotificationPolicy: the snapshot is taken again only when the request
\* selects a connection.  An update that changes nothing is refused; one that
\* changes the name is not, and shows the same values here.
UpdatePolicy(p, u, select, enabled, kinds) ==
  LET r == Current(p)
      c == IF select = {} THEN r.conn ELSE CHOOSE s \in select : TRUE
  IN
  /\ epoch < MaxEpoch
  /\ Of(p) # {}
  /\ epoch' = epoch + 1
  /\ revisions' = revisions \cup
       {Revision(p, r.number + 1, epoch + 1, c,
                 IF select = {} THEN r.rev ELSE conn[c].revision, enabled, kinds, u)}
  /\ UNCHANGED <<deliveryVars, event, outcomes, eproc>>

-----------------------------------------------------------------------------
\* reconcile reads the epoch without a lock, and records the change when it
\* commits; policies may be approved in between.
BeginReconcile(x) ==
  /\ event[x].state = "none"
  /\ \E unfit \in SUBSET Connections :
       event' = [event EXCEPT ![x] = EventIn("open", epoch, unfit)]
  /\ UNCHANGED <<deliveryVars, epoch, revisions, outcomes, eproc>>

CommitReconcile(x) ==
  /\ event[x].state = "open"
  /\ event' = [event EXCEPT ![x] =
       EventIn(IF event[x].epoch > 0 THEN "pending" ELSE "skipped", event[x].epoch,
               event[x].unfit)]
  /\ UNCHANGED <<deliveryVars, epoch, revisions, outcomes, eproc>>

AbortReconcile(x) ==
  /\ event[x].state = "open"
  /\ event' = [event EXCEPT ![x] = EventIn("none", 0, {})]
  /\ UNCHANGED <<deliveryVars, epoch, revisions, outcomes, eproc>>

-----------------------------------------------------------------------------
Idle(w) == proc[w].pc = "idle" /\ eproc[w] = {}

\* Mutant: an event whose worker disappeared is never claimed again.
ClaimPendingOnly(w, x) ==
  /\ Idle(w)
  /\ event[x].state = "pending"
  /\ event' = [event EXCEPT ![x] = [@ EXCEPT !.state = "processing", !.worker = w,
                                      !.fence = event[x].fence + 1, !.lease = "live"]]
  /\ eproc' = [eproc EXCEPT ![w] = {[change |-> x, fence |-> event[x].fence + 1]}]
  /\ UNCHANGED <<deliveryVars, epoch, revisions, outcomes>>

ClaimEvent(w, x) ==
  /\ Idle(w)
  /\ \/ event[x].state = "pending"
     \/ event[x].state = "processing" /\ event[x].lease = "expired"
  /\ event' = [event EXCEPT ![x] = [@ EXCEPT !.state = "processing", !.worker = w,
                                      !.fence = event[x].fence + 1, !.lease = "live"]]
  /\ eproc' = [eproc EXCEPT ![w] = {[change |-> x, fence |-> event[x].fence + 1]}]
  /\ UNCHANGED <<deliveryVars, epoch, revisions, outcomes>>

\* Mutant: the current revision of each policy decides.
InForceNow(e) == {r \in revisions : \A s \in Of(r.policy) : s.epoch <= r.epoch}

\* The latest revision of each policy that existed at an epoch.
InForce(e) ==
  {r \in revisions : /\ r.epoch <= e
                     /\ \A s \in Of(r.policy) : s.epoch <= e => s.epoch <= r.epoch}

Matching(x) == {r \in InForce(event[x].epoch) : r.enabled = "yes" /\ KindOf[x] \in r.kinds}

Stale(r) == conn[r.conn].enabled = "no" \/ conn[r.conn].revision # r.rev

\* Mutant: tickets reserved by the same evaluation are overlooked.
OutcomeAlone(r, x) ==
  CASE Stale(r) -> "connection-stale"
    [] /\ ~Stale(r) /\ Profile[r.conn] = "jira" /\ TicketTaken(r.conn, FindingOf[x])
         -> "duplicate-ticket"
    [] OTHER -> IF r.conn \in event[x].unfit THEN "invalid-payload" ELSE "queued"

\* Policies are evaluated in the order of their identifiers, so an earlier one
\* may reserve the ticket in the same transaction.
OutcomeOf(r, x) ==
  LET first == {q \in Matching(x) : q.policy < r.policy /\ q.conn = r.conn /\ ~Stale(q)} IN
  CASE Stale(r) -> "connection-stale"
    [] /\ ~Stale(r) /\ Profile[r.conn] = "jira"
       /\ TicketTaken(r.conn, FindingOf[x]) \/ (first # {} /\ r.conn \notin event[x].unfit)
         -> "duplicate-ticket"
    [] OTHER -> IF r.conn \in event[x].unfit THEN "invalid-payload" ELSE "queued"

\* The revisions that queue a delivery for a change.
Queued(x) == {r \in Matching(x) : OutcomeOf(r, x) = "queued"}

\* The idempotency key of a delivery is unique in its workspace, and a request
\* of the API may have used the key of a policy: then the insert fails.
Occupied(x) == \E r \in Queued(x) : delivery[PolicyKey[r.policy, x]].state # "absent"

EventLeased(t, w) ==
  LET e == event[t.change] IN
  e.state = "processing" /\ e.worker = w /\ e.fence = t.fence /\ e.lease = "live"

\* The delivery of a policy is bound to the snapshot and the approver.
IntentOf(r, x) == RowOf("queued", FindingOf[x], r.conn, r.rev, r.actor)

\* evaluateFindingChangeEvent: outcomes, deliveries, reservations and the end of
\* the event in one transaction.
Evaluate(w, t) ==
  LET x == t.change
      Key(r) == PolicyKey[r.policy, x]
  IN
  /\ EventLeased(t, w)
  /\ ~Occupied(x)
  /\ outcomes' = outcomes \cup
       {[policy |-> r.policy, number |-> r.number, change |-> x,
         outcome |-> OutcomeOf(r, x)] : r \in Matching(x)}
  /\ delivery' = [d \in Intents |->
       IF \E r \in Queued(x) : d = Key(r)
       THEN IntentOf(CHOOSE r \in Queued(x) : d = Key(r), x)
       ELSE delivery[d]]
  /\ ticket' = ticket \cup {Key(r) : r \in {q \in Queued(x) : Profile[q.conn] = "jira"}}
  /\ event' = [event EXCEPT ![x] = [@ EXCEPT !.state = "evaluated", !.worker = Nobody,
                                      !.lease = "none"]]
  /\ eproc' = [eproc EXCEPT ![w] = {}]
  /\ UNCHANGED <<conn, writers, proc, posts, inflight, applied, epoch, revisions>>

\* The lease is lost, the transaction fails, or the process dies; the lease runs
\* out and the change is claimed again.  The last claim of the bound stands for
\* all later ones: while the change is occupied, its worker waits.
EvaluationLost(w) ==
  /\ \E t \in eproc[w] : t.fence < MaxClaims \/ ~EventLeased(t, w)
  /\ eproc' = [eproc EXCEPT ![w] = {}]
  /\ UNCHANGED <<deliveryVars, epoch, revisions, event, outcomes>>

EventLeaseExpires(x) ==
  /\ event[x].state = "processing" /\ event[x].lease = "live"
  /\ event[x].fence < MaxClaims
  /\ event' = [event EXCEPT ![x] = [@ EXCEPT !.lease = "expired"]]
  /\ UNCHANGED <<deliveryVars, epoch, revisions, outcomes, eproc>>

-----------------------------------------------------------------------------
Administer ==
  \E p \in Policies, u \in Users, enabled \in {"yes", "no"}, s \in Selections :
    \/ CreatePolicy(p, u, s[1], enabled, s[2])
    \/ \E select \in {{}, {s[1]}} : UpdatePolicy(p, u, select, enabled, s[2])

Reconcile(x) == BeginReconcile(x) \/ CommitReconcile(x) \/ AbortReconcile(x)

EvaluateAny(w) == \E t \in eproc[w] : Evaluate(w, t)

\* Users, connections and manual deliveries, as in Delivery; the key of a
\* delivery is the choice of the client, who may name that of a policy.
Manual ==
  /\ \/ \E d \in Intents, f \in Findings, c \in Connections, u \in Users :
          EnqueueDelivery(d, f, c, u)
     \/ \E c \in Connections, enabled \in {"yes", "no"} : EditConnection(c, enabled)
     \/ \E u \in Users : ChangeRole(u)
  /\ UNCHANGED policyVars

NNext ==
  \/ Administer
  \/ Manual
  \/ \E x \in Changes : Reconcile(x) \/ EventLeaseExpires(x)
  \/ \E w \in Workers : \/ \E x \in Changes : ClaimEvent(w, x)
                        \/ EvaluateAny(w)
                        \/ EvaluationLost(w)

\* The dispatch of deliveries: one loop dispatches, and evaluates changes when it
\* finds no delivery to claim, so a worker never does both at once.
Dispatch ==
  /\ \/ \E w \in Workers : eproc[w] = {} /\ (Worker(w) \/ Cancel(w) \/ Crash(w))
     \/ \E d \in Intents : RemoteApplies(d) \/ RemoteRefuses(d) \/ LeaseExpires(d)
  /\ UNCHANGED policyVars

ClaimDelivery(w, d) == eproc[w] = {} /\ Claim(w, d) /\ UNCHANGED policyVars

NSpec == NInit /\ [][NNext \/ Dispatch]_notificationVars

\* Some worker polls and claims what there is, every call returns, and the
\* clock runs.  Losses of an event are finitely many (MaxClaims).
ClaimAny ==
  \E w \in Workers : (\E x \in Changes : ClaimEvent(w, x)) \/ (\E d \in Intents : ClaimDelivery(w, d))

Proceed(w) == EvaluateAny(w) \/ EvaluationLost(w) \/ (Work(w) /\ UNCHANGED policyVars)

Clock ==
  \/ \E x \in Changes : EventLeaseExpires(x)
  \/ (\E d \in Intents : LeaseExpires(d)) /\ UNCHANGED policyVars

NFairSpec ==
  /\ NSpec
  /\ WF_notificationVars(ClaimAny)
  /\ \A w \in Workers : WF_notificationVars(Proceed(w))
  /\ WF_notificationVars(Clock)

-----------------------------------------------------------------------------
\* An evaluated change has exactly one outcome for each policy whose revision at
\* the recorded epoch matches it, under that revision, whatever was approved
\* later and however many workers took up the event; any other change has none.
PolicyInForceDecides ==
  \A x \in Changes :
    LET answered == {o \in outcomes : o.change = x}
        last(p) == {r \in Of(p) : /\ r.epoch <= event[x].epoch
                                  /\ ~\E s \in Of(p) : /\ s.number = r.number + 1
                                                       /\ s.epoch <= event[x].epoch}
    IN
    /\ event[x].state # "evaluated" => answered = {}
    /\ event[x].state = "evaluated" =>
         \A p \in Policies :
           LET due == {r \in last(p) : r.enabled = "yes" /\ KindOf[x] \in r.kinds} IN
           /\ Cardinality({o \in answered : o.policy = p}) = Cardinality(due)
           /\ \A o \in answered : o.policy = p => \E r \in due : r.number = o.number

\* Every recorded change is evaluated, although workers may disappear between
\* the claim and the evaluation, unless a delivery occupies the key of one of the
\* policies it would notify; and that change is evaluated too once the outcome
\* of the policy is no longer to queue (its connection has been edited).
EveryChangeEvaluated ==
  []<>(\A x \in Changes : event[x].state \in {"pending", "processing"} => Occupied(x))
=============================================================================
