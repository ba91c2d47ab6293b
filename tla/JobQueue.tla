------------------------------ MODULE JobQueue ------------------------------
(***************************************************************************)
(* The durable job queue of internal/jobs: one row per job identity, leased *)
(* to workers under a fencing number.  Every method of jobs.Store is one    *)
(* database transaction (or one statement), so one action.                  *)
(*                                                                         *)
(* The clients are as general as the Go API allows: a process may call      *)
(* Heartbeat, Complete or Fail at any time with any lease it was ever       *)
(* given, also long after that lease expired or was granted to another.     *)
(*                                                                         *)
(* Time.  The code compares expires_at and available_at with the database  *)
(* clock and with nothing else, so a row only records on which side of the  *)
(* clock each one lies: lease is "live" or "expired", wait is "due" once     *)
(* available_at has passed.  LeaseExpires and BackoffEnds are the clock.    *)
(***************************************************************************)
EXTENDS Naturals, FiniteSets

CONSTANTS
  Keys,        \* job identities (workspace, source, run, kind, idempotency key)
  Workspaces,
  Home,        \* the workspace part of an identity
  Workers,     \* processes, each with a jobs.Store and a worker id
  ConfigMax,   \* Config.MaxAttempts of a process's Store
  Envelopes,   \* envelopes that may be submitted under an identity
  Budget,      \* Envelope.MaxAttempts
  Nobody       \* worker_id IS NULL

ASSUME JobConstants ==
  /\ Home \in [Keys -> Workspaces]
  /\ ConfigMax \in [Workers -> Nat \ {0}]
  /\ Budget \in [Envelopes -> Nat \ {0}]
  /\ Envelopes # {}
  /\ Nobody \notin Workers

VARIABLES
  jobs,      \* the jobs table
  leases,    \* every lease Claim ever returned
  acked,     \* leases whose Complete returned a receipt
  refused,   \* leases whose Complete returned ErrLeaseLost
  settled    \* leases whose Fail returned nil

jobVars == <<jobs, leases, acked, refused, settled>>

-----------------------------------------------------------------------------
Waiting == {"queued", "retry-wait"}
Terminal == {"succeeded", "failed"}
Failures == {"none", "retryable", "permanent", "lease-expired", "attempt-limit"}

Lease == [job : Keys, worker : Workers, fence : Nat]

\* A row; "absent" stands for an identity that has no row yet.
Row == [state    : Waiting \cup Terminal \cup {"absent", "leased"},
        envelope : Envelopes,
        attempts : Nat,
        fence    : Nat,
        worker   : Workers \cup {Nobody},
        lease    : {"none", "live", "expired"},
        wait     : {"due", "later"},
        failure  : Failures,
        receipt  : Nat]      \* Receipt.Fence, 0 while receipt IS NULL

RowIn(s, e) ==
  [state |-> s, envelope |-> e, attempts |-> 0, fence |-> 0,
   worker |-> Nobody, lease |-> "none", wait |-> "due",
   failure |-> "none", receipt |-> 0]

AbsentRow == RowIn("absent", CHOOSE e \in Envelopes : TRUE)

Init ==
  /\ jobs = [k \in Keys |-> AbsentRow]
  /\ leases = {}
  /\ acked = {}
  /\ refused = {}
  /\ settled = {}

-----------------------------------------------------------------------------
\* LEAST(max_attempts, config.MaxAttempts), as process w evaluates it.
Limit(w, k) ==
  LET b == Budget[jobs[k].envelope] IN IF b <= ConfigMax[w] THEN b ELSE ConfigMax[w]

LeaseOver(k) == jobs[k].state = "leased" /\ jobs[k].lease = "expired"

\* Mutant: the fencing number is not compared.
OwnsByWorkerOnly(t) == jobs[t.job].worker = t.worker

\* worker_id and fence of the row are the ones the lease names.
Owns(t) == jobs[t.job].worker = t.worker /\ jobs[t.job].fence = t.fence

\* The WHERE clause of Heartbeat and Fail.
Holds(t) == Owns(t) /\ jobs[t.job].state = "leased" /\ jobs[t.job].lease = "live"

-----------------------------------------------------------------------------
\* INSERT ... ON CONFLICT DO NOTHING.  A second submission under the identity
\* is answered from the stored row (same envelope) or with ErrConflict; in
\* both cases nothing changes, so only the insert is a step.
Enqueue(w, k, e) ==
  /\ Budget[e] <= ConfigMax[w]
  /\ jobs[k].state = "absent"
  /\ jobs' = [jobs EXCEPT ![k] = RowIn("queued", e)]
  /\ UNCHANGED <<leases, acked, refused, settled>>

Exhausted(w, k) ==
  /\ jobs[k].attempts >= Limit(w, k)
  /\ jobs[k].state \in Waiting \/ LeaseOver(k)

\* The first statement of Claim fails every exhausted row of the workspace.
Swept(w, ws) ==
  [k \in Keys |->
    IF Home[k] = ws /\ Exhausted(w, k)
    THEN [jobs[k] EXCEPT !.state = "failed", !.worker = Nobody, !.lease = "none",
            !.failure = IF jobs[k].state = "leased" THEN "lease-expired"
                        ELSE IF @ = "none" THEN "attempt-limit" ELSE @]
    ELSE jobs[k]]

Claimable(w, k) ==
  /\ jobs[k].attempts < Limit(w, k)
  /\ \/ jobs[k].state \in Waiting /\ jobs[k].wait = "due"
     \/ LeaseOver(k)

\* The second statement leases one claimable row; Claim commits both.
Claim(w, k) ==
  /\ Claimable(w, k)
  /\ jobs' = [Swept(w, Home[k]) EXCEPT
       ![k] = [jobs[k] EXCEPT !.state = "leased", !.attempts = @ + 1,
                 !.fence = @ + 1, !.worker = w, !.lease = "live"]]
  /\ leases' = leases \cup {[job |-> k, worker |-> w, fence |-> jobs[k].fence + 1]}
  /\ UNCHANGED <<acked, refused, settled>>

\* ErrNoJob: no candidate row, or every candidate locked by another
\* transaction (SKIP LOCKED).  The sweep is committed all the same.
ClaimNothing(w, ws) ==
  /\ \E k \in Keys : Home[k] = ws /\ Exhausted(w, k)
  /\ jobs' = Swept(w, ws)
  /\ UNCHANGED <<leases, acked, refused, settled>>

\* Heartbeat moves expires_at of a live lease further into the future and
\* refuses every other one: on a row seen through this clock it changes
\* nothing, it only postpones LeaseExpires.
Heartbeat(t) == Holds(t) /\ UNCHANGED jobVars

\* The answer of a committed Complete may be lost on the way (answered FALSE):
\* the caller then knows nothing and may call again.
Complete(t, answered) ==
  /\ Holds(t)
  /\ jobs' = [jobs EXCEPT ![t.job].state = "succeeded", ![t.job].lease = "none",
                          ![t.job].receipt = t.fence]
  /\ acked' = IF answered THEN acked \cup {t} ELSE acked
  /\ UNCHANGED <<leases, refused, settled>>

\* Complete of a row that already succeeded under this lease: saved receipt.
CompleteReplay(t) ==
  /\ Owns(t)
  /\ jobs[t.job].state = "succeeded"
  /\ acked' = acked \cup {t}
  /\ UNCHANGED <<jobs, leases, refused, settled>>

CompleteRefused(t) ==
  /\ ~Holds(t)
  /\ ~(Owns(t) /\ jobs[t.job].state = "succeeded")
  /\ refused' = refused \cup {t}
  /\ UNCHANGED <<jobs, leases, acked, settled>>

Fail(t, retryable, answered) ==
  /\ Holds(t)
  /\ jobs' = [jobs EXCEPT ![t.job] =
       [@ EXCEPT !.state = IF retryable /\ jobs[t.job].attempts < Limit(t.worker, t.job)
                           THEN "retry-wait" ELSE "failed",
                 !.wait = "later", !.worker = Nobody, !.lease = "none",
                 !.failure = IF retryable THEN "retryable" ELSE "permanent"]]
  /\ settled' = IF answered THEN settled \cup {t} ELSE settled
  /\ UNCHANGED <<leases, acked, refused>>

-----------------------------------------------------------------------------
\* The database clock passes expires_at of a leased row.
LeaseExpires(k) ==
  /\ jobs[k].state = "leased" /\ jobs[k].lease = "live"
  /\ jobs' = [jobs EXCEPT ![k].lease = "expired"]
  /\ UNCHANGED <<leases, acked, refused, settled>>

\* The database clock passes available_at of a row that backs off.
BackoffEnds(k) ==
  /\ jobs[k].state \in Waiting /\ jobs[k].wait = "later"
  /\ jobs' = [jobs EXCEPT ![k].wait = "due"]
  /\ UNCHANGED <<leases, acked, refused, settled>>

Next ==
  \/ \E w \in Workers, k \in Keys, e \in Envelopes : Enqueue(w, k, e)
  \/ \E w \in Workers, k \in Keys : Claim(w, k)
  \/ \E w \in Workers, ws \in Workspaces : ClaimNothing(w, ws)
  \/ \E t \in leases : Heartbeat(t)
  \/ \E t \in leases, answered \in BOOLEAN : Complete(t, answered)
  \/ \E t \in leases : CompleteReplay(t)
  \/ \E t \in leases : CompleteRefused(t)
  \/ \E t \in leases, retryable, answered \in BOOLEAN : Fail(t, retryable, answered)
  \/ \E k \in Keys : LeaseExpires(k)
  \/ \E k \in Keys : BackoffEnds(k)

Spec == Init /\ [][Next]_jobVars

-----------------------------------------------------------------------------
\* Types of the jobs table (the CHECK constraints of migrate) and of the ghosts.
TypeOK ==
  /\ jobs \in [Keys -> Row]
  /\ leases \subseteq Lease
  /\ acked \subseteq leases
  /\ refused \subseteq leases
  /\ settled \subseteq leases

\* A receipt handed to a caller of Complete is durable and exclusive: the row
\* is succeeded, its receipt carries that caller's fence, and no caller with
\* another lease of the job - earlier, later, or of another process - was or
\* will be told that it completed the job.
ReceiptIsExclusive ==
  \A t \in acked :
    /\ jobs[t.job].state = "succeeded"
    /\ jobs[t.job].receipt = t.fence
    /\ \A u \in acked : u.job = t.job => u = t

\* What a caller learns about its lease is final.  Once Complete answered
\* ErrLeaseLost, or Fail answered nil, no later Complete under that lease is
\* accepted - not even after other workers gave the job back.
AnswersAreFinal ==
  \A t \in acked : t \notin refused /\ t \notin settled

\* A fencing number names one grant: two leases of a job with the same fence
\* are the same lease, and at most one lease is able to change the row.
FenceNamesOneGrant ==
  /\ \A t, u \in leases : t.job = u.job /\ t.fence = u.fence => t = u
  /\ \A t, u \in leases : t.job = u.job /\ Holds(t) /\ Holds(u) => t = u

\* Poison jobs stop: a job is granted at most Envelope.MaxAttempts times,
\* whatever mixture of crashes, expiries, failures and Store configurations
\* it meets, and a row is waiting or leased only while it has been granted
\* exactly as often as attempts says.
GrantsWithinBudget ==
  \A k \in Keys :
    LET granted == {t \in leases : t.job = k} IN
    /\ Cardinality(granted) = jobs[k].attempts
    /\ jobs[k].attempts <= Budget[jobs[k].envelope]

\* A job that reached an outcome keeps it, with its receipt and its failure;
\* a fencing number never goes back and an accepted envelope is never replaced.
OutcomeIsStable ==
  [][\A k \in Keys :
       /\ jobs[k].state \in Terminal => jobs'[k] = jobs[k]
       /\ jobs[k].state # "absent" =>
            /\ jobs'[k].fence >= jobs[k].fence
            /\ jobs'[k].envelope = jobs[k].envelope]_jobVars
=============================================================================
