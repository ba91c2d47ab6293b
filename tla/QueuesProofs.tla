---------------------------- MODULE QueuesProofs ----------------------------
(***************************************************************************)
(* Proofs about JobQueue for every set of jobs, workers and envelopes and   *)
(* every choice of limits, and about Verification for any number of workers, *)
(* fixtures, approvals and jobs.                                            *)
(*                                                                         *)
(* JobQueue: none of the properties is inductive.  What a caller was told    *)
(* (acked, refused, settled) has to be related to the row through            *)
(* ownership, and ownership survives other steps only because fences of      *)
(* granted leases never exceed the fence of the row: a new grant takes a     *)
(* larger one.                                                              *)
(*                                                                         *)
(* Verification: a worker inside its publishing transaction owns the job,    *)
(* which is still processing, and its approval is granted; nobody else owns  *)
(* it, revocation and the sweep wait for the row, so this lasts until the    *)
(* commit.  What an ending reports was read from the approval, and what it    *)
(* says of the approval is never taken back.                                *)
(***************************************************************************)
EXTENDS JobQueue, Verification, TLAPS

\* Every lease was granted with a fence the row has reached, once per fence.
GrantsBelowFence ==
  /\ \A k \in Keys : jobs[k].state = "absent" => jobs[k].fence = 0 /\ jobs[k].attempts = 0
  /\ \A k \in Keys : jobs[k].attempts <= Budget[jobs[k].envelope]
  /\ \A t \in leases : t.fence <= jobs[t.job].fence
  /\ \A t, u \in leases : t.job = u.job /\ t.fence = u.fence => t = u

\* What each answer says about the row.
AnswersMatchRows ==
  /\ \A k \in Keys : jobs[k].state = "succeeded" => jobs[k].receipt = jobs[k].fence
  /\ \A t \in acked : Owns(t) /\ jobs[t.job].state = "succeeded"
  /\ \A t \in refused : ~Holds(t) /\ ~(Owns(t) /\ jobs[t.job].state = "succeeded")
  /\ \A t \in settled : ~(Owns(t) /\ jobs[t.job].state \in {"leased", "succeeded"})

IInv == TypeOK /\ GrantsBelowFence /\ AnswersMatchRows

\* Init establishes the inductive invariant: no lease, no answer, no success.
LEMMA InitIInv == Init => IInv
<1> SUFFICES ASSUME Init PROVE IInv
  BY Zenon
<1> USE JobConstants DEF Init, AbsentRow, RowIn
<1>1. (CHOOSE e \in Envelopes : TRUE) \in Envelopes
  BY Zenon
<1>2. TypeOK
  BY Zenon, <1>1 DEF TypeOK, Row, Waiting, Terminal, Failures
<1>3. GrantsBelowFence /\ AnswersMatchRows
  BY DEF GrantsBelowFence, AnswersMatchRows
<1> QED
  BY Zenon, <1>2, <1>3 DEF IInv

\* The sweep of Claim keeps every row of the table well typed.
LEMMA SweptType ==
  ASSUME TypeOK, NEW w \in Workers, NEW ws \in Workspaces
  PROVE  Swept(w, ws) \in [Keys -> Row]
<1> SUFFICES ASSUME NEW k \in Keys PROVE Swept(w, ws)[k] \in Row
  BY Zenon DEF Swept
<1>1. jobs[k] \in Row
  BY Zenon DEF TypeOK
<1>2. CASE ~(Home[k] = ws /\ Exhausted(w, k))
  BY Zenon, <1>1, <1>2 DEF Swept
<1>3. CASE Home[k] = ws /\ Exhausted(w, k)
  <2> DEFINE f == IF jobs[k].state = "leased" THEN "lease-expired"
                  ELSE IF jobs[k].failure = "none" THEN "attempt-limit" ELSE jobs[k].failure
  <2>1. f \in Failures
    BY Zenon, <1>1 DEF Row, Failures
  <2>2. Swept(w, ws)[k] = [jobs[k] EXCEPT !.state = "failed", !.worker = Nobody,
                                          !.lease = "none", !.failure = f]
    BY Zenon, <1>3 DEF Swept
  <2> HIDE DEF f
  <2> QED
    BY Zenon, <1>1, <2>1, <2>2 DEF Row, Terminal
<1> QED
  BY Zenon, <1>2, <1>3

\* The sweep leaves a row alone or fails it: a failed row belongs to nobody and
\* keeps its fence, so no lease owns it; a succeeded row is never swept.
LEMMA SweptRow ==
  ASSUME TypeOK, NEW w \in Workers, NEW ws \in Workspaces, NEW k \in Keys
  PROVE  \/ Swept(w, ws)[k] = jobs[k]
         \/ /\ jobs[k].state \notin {"absent", "succeeded", "failed"}
            /\ Swept(w, ws)[k].state = "failed"
            /\ Swept(w, ws)[k].worker = Nobody
            /\ Swept(w, ws)[k].fence = jobs[k].fence
            /\ Swept(w, ws)[k].attempts = jobs[k].attempts
            /\ Swept(w, ws)[k].envelope = jobs[k].envelope
<1> jobs[k] \in Row
  BY Zenon DEF TypeOK
<1> QED
  BY Zenon DEF Swept, Row, Exhausted, LeaseOver, Waiting

\* Every call keeps the table and the record of answers well typed.
LEMMA TypeInductive == TypeOK /\ [Next]_jobVars => TypeOK'
<1> SUFFICES ASSUME TypeOK, [Next]_jobVars PROVE TypeOK'
  BY Zenon
<1> USE JobConstants
<1>1. ASSUME NEW w \in Workers, NEW k \in Keys, NEW e \in Envelopes, Enqueue(w, k, e)
      PROVE  TypeOK'
  BY Zenon, <1>1 DEF TypeOK, Row, Enqueue, RowIn, Waiting, Terminal, Failures
<1>2. ASSUME NEW w \in Workers, NEW k \in Keys, Claim(w, k)
      PROVE  TypeOK'
  <2> DEFINE row == [jobs[k] EXCEPT !.state = "leased", !.attempts = @ + 1,
                       !.fence = @ + 1, !.worker = w, !.lease = "live"]
  <2>1. jobs[k] \in Row /\ Swept(w, Home[k]) \in [Keys -> Row]
    BY Zenon, SweptType DEF TypeOK
  <2>2. row \in Row
    <3> DEFINE a == jobs[k].attempts + 1
               f == jobs[k].fence + 1
    <3>1. a \in Nat /\ f \in Nat
      BY <2>1 DEF Row
    <3>2. row = [jobs[k] EXCEPT !.state = "leased", !.attempts = a, !.fence = f,
                   !.worker = w, !.lease = "live"]
      BY Zenon
    <3> HIDE DEF a, f, row
    <3> QED BY Zenon, <2>1, <3>1, <3>2 DEF Row
  <2>3. jobs' = [Swept(w, Home[k]) EXCEPT ![k] = row]
    BY Zenon, <1>2 DEF Claim
  <2>4. jobs' \in [Keys -> Row]
    <3> HIDE DEF row
    <3> QED BY <2>1, <2>2, <2>3
  <2>5. leases' = leases \cup {[job |-> k, worker |-> w, fence |-> jobs[k].fence + 1]}
    BY Zenon, <1>2 DEF Claim
  <2>6. leases' \subseteq Lease
    BY <2>1, <2>5 DEF TypeOK, Row, Lease
  <2> QED
    BY Zenon, <1>2, <2>4, <2>5, <2>6 DEF TypeOK, Claim
<1>3. ASSUME NEW w \in Workers, NEW ws \in Workspaces, ClaimNothing(w, ws)
      PROVE  TypeOK'
  BY Zenon, <1>3, SweptType DEF ClaimNothing, TypeOK
<1>4. ASSUME NEW t \in leases, NEW answered \in BOOLEAN, Complete(t, answered)
      PROVE  TypeOK'
  <2> DEFINE row == [jobs[t.job] EXCEPT !.state = "succeeded", !.lease = "none", !.receipt = t.fence]
  <2>1. t.job \in Keys /\ jobs[t.job] \in Row /\ t.fence \in Nat /\ "succeeded" \in Terminal
    BY Zenon DEF TypeOK, Lease, Terminal
  <2>2. row \in Row
    BY Zenon, <2>1 DEF Row
  <2>3. jobs' = [jobs EXCEPT ![t.job] = row]
    BY Zenon, <1>4 DEF Complete
  <2> HIDE DEF row
  <2> QED
    BY <1>4, <2>1, <2>2, <2>3 DEF TypeOK, Complete
<1>5. ASSUME NEW t \in leases, NEW retryable \in BOOLEAN, NEW answered \in BOOLEAN,
             Fail(t, retryable, answered)
      PROVE  TypeOK'
  <2> DEFINE s == IF retryable /\ jobs[t.job].attempts < Limit(t.worker, t.job)
                  THEN "retry-wait" ELSE "failed"
             f == IF retryable THEN "retryable" ELSE "permanent"
             row == [jobs[t.job] EXCEPT !.state = s, !.wait = "later", !.worker = Nobody,
                       !.lease = "none", !.failure = f]
  <2>1. t.job \in Keys /\ jobs[t.job] \in Row
    BY Zenon DEF TypeOK, Lease
  <2>2. s \in Waiting \cup Terminal /\ f \in Failures
    BY Zenon DEF Waiting, Terminal, Failures
  <2>3. row \in Row
    <3> HIDE DEF s, f
    <3> QED BY Zenon, <2>1, <2>2 DEF Row
  <2>4. jobs' = [jobs EXCEPT ![t.job] = row]
    BY Zenon, <1>5 DEF Fail
  <2> HIDE DEF row
  <2> QED
    BY <1>5, <2>1, <2>3, <2>4 DEF TypeOK, Fail
<1>6. ASSUME NEW k \in Keys, LeaseExpires(k) \/ BackoffEnds(k)
      PROVE  TypeOK'
  <2>1. CASE LeaseExpires(k)
    <3>0. jobs[k] \in Row
      BY Zenon DEF TypeOK
    <3>1. [jobs[k] EXCEPT !.lease = "expired"] \in Row
      BY Zenon, <3>0 DEF Row
    <3> QED
      BY Zenon, <2>1, <3>1 DEF LeaseExpires, TypeOK
  <2>2. CASE BackoffEnds(k)
    <3>0. jobs[k] \in Row
      BY Zenon DEF TypeOK
    <3>1. [jobs[k] EXCEPT !.wait = "due"] \in Row
      BY Zenon, <3>0 DEF Row
    <3> QED
      BY Zenon, <2>2, <3>1 DEF BackoffEnds, TypeOK
  <2> QED
    BY Zenon, <1>6, <2>1, <2>2
<1>7. ASSUME NEW t \in leases, Heartbeat(t) \/ CompleteReplay(t) \/ CompleteRefused(t)
      PROVE  TypeOK'
  BY Zenon, <1>7 DEF TypeOK, Heartbeat, CompleteReplay, CompleteRefused, jobVars
<1>8. CASE UNCHANGED jobVars
  BY Zenon, <1>8 DEF TypeOK, jobVars
<1> QED
  BY Zenon, <1>1, <1>2, <1>3, <1>4, <1>5, <1>6, <1>7, <1>8 DEF Next

-----------------------------------------------------------------------------
\* What one step may do to one row: nothing, or one of six changes.
Granted(k) ==
  /\ jobs[k].state \notin {"absent", "succeeded", "failed"}
  /\ jobs'[k].state = "leased" /\ jobs'[k].fence = jobs[k].fence + 1
  /\ jobs'[k].envelope = jobs[k].envelope /\ jobs'[k].attempts = jobs[k].attempts + 1
  /\ jobs[k].attempts + 1 <= Budget[jobs[k].envelope]
Released(k) ==
  /\ jobs[k].state \notin {"absent", "succeeded", "failed"}
  /\ jobs'[k].state \in {"queued", "retry-wait", "failed"} /\ jobs'[k].worker = Nobody
  /\ jobs'[k].fence = jobs[k].fence
  /\ jobs'[k].envelope = jobs[k].envelope /\ jobs'[k].attempts = jobs[k].attempts
Succeeded(k) ==
  /\ jobs[k].state = "leased" /\ jobs[k].lease = "live"
  /\ jobs'[k].state = "succeeded" /\ jobs'[k].worker = jobs[k].worker
  /\ jobs'[k].fence = jobs[k].fence /\ jobs'[k].receipt = jobs[k].fence
  /\ jobs'[k].envelope = jobs[k].envelope /\ jobs'[k].attempts = jobs[k].attempts
Expired(k) ==
  /\ jobs[k].state = "leased"
  /\ jobs'[k].state = "leased" /\ jobs'[k].worker = jobs[k].worker
  /\ jobs'[k].fence = jobs[k].fence /\ jobs'[k].lease = "expired"
  /\ jobs'[k].envelope = jobs[k].envelope /\ jobs'[k].attempts = jobs[k].attempts
BecameDue(k) ==
  /\ jobs[k].state \in Waiting /\ jobs'[k].state = jobs[k].state
  /\ jobs'[k].worker = jobs[k].worker /\ jobs'[k].fence = jobs[k].fence
  /\ jobs'[k].envelope = jobs[k].envelope /\ jobs'[k].attempts = jobs[k].attempts
Inserted(k) ==
  /\ jobs[k].state = "absent"
  /\ \E e \in Envelopes : jobs'[k] = RowIn("queued", e)

RowStep(k) ==
  \/ jobs'[k] = jobs[k]
  \/ Granted(k) \/ Released(k) \/ Succeeded(k) \/ Expired(k) \/ BecameDue(k) \/ Inserted(k)

\* Every step changes every row in one of these ways.
LEMMA EveryRowStep == TypeOK /\ [Next]_jobVars => \A k \in Keys : RowStep(k)
<1> SUFFICES ASSUME TypeOK, [Next]_jobVars, NEW j \in Keys PROVE RowStep(j)
  BY Zenon
<1> USE JobConstants
<1>j. jobs \in [Keys -> Row] /\ jobs[j] \in Row
  BY Zenon DEF TypeOK
<1>1. ASSUME NEW w \in Workers, NEW k \in Keys, NEW e \in Envelopes, Enqueue(w, k, e)
      PROVE  RowStep(j)
  BY Zenon, <1>1, <1>j DEF Enqueue, RowStep, Inserted
<1>2. ASSUME NEW w \in Workers, NEW k \in Keys, Claim(w, k)
      PROVE  RowStep(j)
  <2>1. CASE j # k
    <3>1. jobs'[j] = Swept(w, Home[k])[j]
      BY Zenon, <2>1, <1>2, SweptType DEF Claim
    <3> QED
      BY <3>1, SweptRow DEF RowStep, Released
  <2>2. CASE j = k
    <3> DEFINE row == [jobs[k] EXCEPT !.state = "leased", !.attempts = @ + 1,
                         !.fence = @ + 1, !.worker = w, !.lease = "live"]
    <3>1. jobs'[k] = row
      BY Zenon, <1>2, SweptType DEF Claim
    <3>2. /\ row.state = "leased" /\ row.fence = jobs[k].fence + 1
          /\ row.envelope = jobs[k].envelope /\ row.attempts = jobs[k].attempts + 1
      BY Zenon, <1>j, <2>2 DEF Row
    <3>3. /\ jobs[k].state \notin {"absent", "succeeded", "failed"}
          /\ jobs[k].attempts + 1 <= Budget[jobs[k].envelope]
      <4>1. Claimable(w, k)
        BY Zenon, <1>2 DEF Claim
      <4>2. /\ jobs[k].attempts \in Nat /\ Budget[jobs[k].envelope] \in Nat
            /\ ConfigMax[w] \in Nat
        BY Zenon, <1>j, <2>2 DEF Row
      <4>3. jobs[k].attempts < Budget[jobs[k].envelope]
        BY <4>1, <4>2 DEF Claimable, Limit
      <4>4. jobs[k].state \notin {"absent", "succeeded", "failed"}
        BY Zenon, <4>1 DEF Claimable, Waiting, LeaseOver
      <4> QED
        BY <4>2, <4>3, <4>4
    <3> HIDE DEF row
    <3> QED
      BY Zenon, <2>2, <3>1, <3>2, <3>3 DEF RowStep, Granted
  <2> QED
    BY Zenon, <2>1, <2>2
<1>3. ASSUME NEW w \in Workers, NEW ws \in Workspaces, ClaimNothing(w, ws)
      PROVE  RowStep(j)
  BY <1>3, SweptRow DEF ClaimNothing, RowStep, Released
<1>4. ASSUME NEW t \in leases, NEW answered \in BOOLEAN, Complete(t, answered)
      PROVE  RowStep(j)
  <2> t.job \in Keys
    BY Zenon DEF TypeOK, Lease
  <2> QED
    BY Zenon, <1>4, <1>j DEF Complete, Holds, Owns, RowStep, Succeeded, Row
<1>5. ASSUME NEW t \in leases, NEW retryable \in BOOLEAN, NEW answered \in BOOLEAN,
             Fail(t, retryable, answered)
      PROVE  RowStep(j)
  <2> DEFINE s == IF retryable /\ jobs[t.job].attempts < Limit(t.worker, t.job)
                  THEN "retry-wait" ELSE "failed"
             f == IF retryable THEN "retryable" ELSE "permanent"
  <2>1. t.job \in Keys
    BY Zenon DEF TypeOK, Lease
  <2>2. s \in {"retry-wait", "failed"}
    BY Zenon
  <2>3. jobs' = [jobs EXCEPT ![t.job] = [@ EXCEPT !.state = s, !.wait = "later",
                   !.worker = Nobody, !.lease = "none", !.failure = f]]
    BY Zenon, <1>5 DEF Fail
  <2>4. jobs[t.job].state = "leased"
    BY Zenon, <1>5 DEF Fail, Holds
  <2> HIDE DEF s, f
  <2> QED
    BY Zenon, <2>1, <2>2, <2>3, <2>4, <1>j DEF RowStep, Released, Row
<1>6. ASSUME NEW k \in Keys, LeaseExpires(k) \/ BackoffEnds(k)
      PROVE  RowStep(j)
  <2>1. CASE LeaseExpires(k)
    BY Zenon, <2>1, <1>j DEF LeaseExpires, RowStep, Expired, Row
  <2>2. CASE BackoffEnds(k)
    BY Zenon, <2>2, <1>j DEF BackoffEnds, RowStep, BecameDue, Row, Waiting
  <2> QED
    BY Zenon, <1>6, <2>1, <2>2
<1>7. ASSUME NEW t \in leases, Heartbeat(t) \/ CompleteReplay(t) \/ CompleteRefused(t)
      PROVE  RowStep(j)
  BY Zenon, <1>7 DEF RowStep, Heartbeat, CompleteReplay, CompleteRefused, jobVars
<1>8. CASE UNCHANGED jobVars
  BY Zenon, <1>8 DEF jobVars, RowStep
<1> QED
  BY Zenon, <1>1, <1>2, <1>3, <1>4, <1>5, <1>6, <1>7, <1>8 DEF Next

-----------------------------------------------------------------------------
\* Only Claim adds a lease, with the fence it gives the row.
LEMMA LeasesStep ==
  ASSUME TypeOK, [Next]_jobVars
  PROVE  \/ leases' = leases
         \/ \E w \in Workers, k \in Keys :
              /\ Granted(k)
              /\ leases' = leases \cup {[job |-> k, worker |-> w, fence |-> jobs[k].fence + 1]}
<1> USE DEF jobVars
<1>1. ASSUME NEW w \in Workers, NEW k \in Keys, Claim(w, k)
      PROVE  /\ Granted(k)
             /\ leases' = leases \cup {[job |-> k, worker |-> w, fence |-> jobs[k].fence + 1]}
  <2>1. leases' = leases \cup {[job |-> k, worker |-> w, fence |-> jobs[k].fence + 1]}
    BY Zenon, <1>1 DEF Claim
  <2>2. jobs[k] \in Row /\ [jobs[k] EXCEPT !.state = "leased", !.attempts = @ + 1,
                   !.fence = @ + 1, !.worker = w, !.lease = "live"].fence = jobs[k].fence + 1
    BY Zenon DEF TypeOK, Row
  <2>3. jobs'[k].fence = jobs[k].fence + 1
    BY Zenon, <1>1, <2>2, SweptType, JobConstants DEF Claim
  <2>4. RowStep(k) /\ jobs[k].fence \in Nat /\ jobs[k].state # "absent"
    BY Zenon, <1>1, <2>2, EveryRowStep DEF Row, Claim, Claimable, Waiting, LeaseOver
  <2>5. Granted(k)
    BY <2>3, <2>4 DEF RowStep, Released, Succeeded, Expired, BecameDue, Inserted
  <2> QED
    BY Zenon, <2>1, <2>5
<1>2. CASE \A w \in Workers, k \in Keys : ~Claim(w, k)
  BY Zenon, <1>2 DEF Next, Enqueue, ClaimNothing, Heartbeat, Complete, CompleteReplay,
              CompleteRefused, Fail, LeaseExpires, BackoffEnds
<1> QED
  BY Zenon, <1>1, <1>2

\* A grant takes a fence above all earlier grants of the job, and no other
\* step changes a fence or adds a lease.
LEMMA GrantsInductive == TypeOK /\ GrantsBelowFence /\ [Next]_jobVars => GrantsBelowFence'
<1> SUFFICES ASSUME TypeOK, GrantsBelowFence, [Next]_jobVars PROVE GrantsBelowFence'
  BY Zenon
<1> USE JobConstants
<1>t. /\ \A k \in Keys : jobs[k].fence \in Nat /\ jobs[k].attempts \in Nat
                       /\ jobs[k].envelope \in Envelopes
      /\ \A t \in leases : t.job \in Keys /\ t.fence \in Nat
  BY Zenon DEF TypeOK, Row, Lease
<1>r. \A k \in Keys : RowStep(k)
  BY Zenon, EveryRowStep
<1>1. ASSUME NEW k \in Keys
      PROVE  /\ jobs'[k].state = "absent" => jobs'[k].fence = 0 /\ jobs'[k].attempts = 0
             /\ jobs'[k].attempts <= Budget[jobs'[k].envelope]
             /\ jobs'[k].fence >= jobs[k].fence /\ jobs'[k].fence \in Nat
  <2>b. \A e \in Envelopes : Budget[e] \in Nat /\ 0 <= Budget[e]
    OBVIOUS
  <2>1. CASE Inserted(k)
    <3> PICK e \in Envelopes : jobs'[k] = RowIn("queued", e)
      BY Zenon, <2>1 DEF Inserted
    <3>1. /\ jobs'[k].state = "queued" /\ jobs'[k].fence = 0
          /\ jobs'[k].attempts = 0 /\ jobs'[k].envelope = e
      BY DEF RowIn
    <3>2. jobs[k].fence = 0
      BY Zenon, <2>1 DEF Inserted, GrantsBelowFence
    <3> QED
      BY <2>b, <3>1, <3>2
  <2>2. CASE Granted(k)
    BY <2>2, <1>t DEF Granted
  <2>3. CASE jobs'[k] = jobs[k]
    BY <2>3, <1>t DEF GrantsBelowFence
  <2>4. CASE Released(k) \/ Succeeded(k) \/ Expired(k) \/ BecameDue(k)
    BY <2>4, <1>t DEF GrantsBelowFence, Released, Succeeded, Expired, BecameDue, Waiting
  <2> QED
    BY Zenon, <2>1, <2>2, <2>3, <2>4, <1>r DEF RowStep
<1>2. CASE leases' = leases
  BY <1>1, <1>2, <1>t DEF GrantsBelowFence
<1>3. ASSUME NEW w \in Workers, NEW k \in Keys, Granted(k),
             leases' = leases \cup {[job |-> k, worker |-> w, fence |-> jobs[k].fence + 1]}
      PROVE  GrantsBelowFence'
  <2> DEFINE new == [job |-> k, worker |-> w, fence |-> jobs[k].fence + 1]
  <2>1. new.job = k /\ new.fence = jobs[k].fence + 1 /\ new.fence = jobs'[k].fence
    BY Zenon, <1>3 DEF Granted
  <2>2. \A t \in leases : t.job = k => t.fence < new.fence
    BY <1>t, <2>1 DEF GrantsBelowFence
  <2>3. leases' = leases \cup {new}
    BY Zenon, <1>3
  <2> HIDE DEF new
  <2>4. \A t \in leases' : t.fence <= jobs'[t.job].fence
    BY <1>1, <1>t, <2>1, <2>3 DEF GrantsBelowFence
  <2>5. \A t, u \in leases' : t.job = u.job /\ t.fence = u.fence => t = u
    BY <1>t, <2>1, <2>2, <2>3 DEF GrantsBelowFence
  <2> QED
    BY Zenon, <1>1, <2>4, <2>5 DEF GrantsBelowFence
<1> QED
  BY Zenon, <1>2, <1>3, LeasesStep

-----------------------------------------------------------------------------
\* A lease that does not own its row never owns it again: ownership ends when
\* the row is granted anew or given back, and a fence is not used twice.
LEMMA OwnershipStep ==
  ASSUME TypeOK, GrantsBelowFence, [Next]_jobVars, NEW t \in leases
  PROVE  /\ Owns(t)' /\ jobs'[t.job].state \in {"leased", "succeeded"} =>
              Owns(t) /\ jobs[t.job].state \in {"leased", "succeeded"}
         /\ Holds(t)' => Holds(t)
         /\ Owns(t)' /\ jobs'[t.job].state = "succeeded" =>
              Holds(t) \/ (Owns(t) /\ jobs[t.job].state = "succeeded")
<1> DEFINE k == t.job
<1>t. /\ k \in Keys /\ t.worker \in Workers /\ t.fence \in Nat
      /\ jobs[k].fence \in Nat /\ t.fence <= jobs[k].fence
  BY Zenon DEF TypeOK, Row, Lease, GrantsBelowFence
<1>w. t.worker # Nobody
  BY Zenon, <1>t, JobConstants
<1>r. RowStep(k)
  BY Zenon, <1>t, EveryRowStep
<1>1. CASE jobs'[k] = jobs[k]
  BY Zenon, <1>1 DEF Owns, Holds
<1>2. CASE Granted(k)
  BY <1>2, <1>t DEF Granted, Owns, Holds
<1>3. CASE Released(k)
  BY Zenon, <1>3, <1>w DEF Released, Owns, Holds
<1>4. CASE Succeeded(k)
  BY Zenon, <1>4 DEF Succeeded, Owns, Holds
<1>5. CASE Expired(k)
  BY Zenon, <1>5 DEF Expired, Owns, Holds
<1>6. CASE BecameDue(k)
  BY Zenon, <1>6 DEF BecameDue, Owns, Holds, Waiting
<1>7. CASE Inserted(k)
  BY <1>7, <1>w DEF Inserted, RowIn, Owns, Holds
<1> QED
  BY Zenon, <1>r, <1>1, <1>2, <1>3, <1>4, <1>5, <1>6, <1>7 DEF RowStep

\* Receipts of succeeded rows carry the fence of the row.
LEMMA ReceiptStep ==
  ASSUME TypeOK, AnswersMatchRows, [Next]_jobVars, NEW k \in Keys,
         jobs'[k].state = "succeeded"
  PROVE  jobs'[k].receipt = jobs'[k].fence
<1>1. RowStep(k)
  BY Zenon, EveryRowStep
<1>2. ASSUME Inserted(k) PROVE FALSE
  <2>1. PICK e \in Envelopes : jobs'[k] = RowIn("queued", e)
    BY Zenon, <1>2 DEF Inserted
  <2>2. RowIn("queued", e).state = "queued"
    BY Zenon DEF RowIn
  <2> QED
    BY Zenon, <2>1, <2>2
<1>3. jobs[k].state = "succeeded" => jobs[k].receipt = jobs[k].fence
  BY Zenon DEF AnswersMatchRows
<1>4. jobs'[k] = jobs[k] \/ Succeeded(k)
  BY Zenon, <1>1, <1>2 DEF RowStep, Granted, Released, Expired, BecameDue, Waiting
<1> QED
  BY Zenon, <1>3, <1>4 DEF Succeeded

\* Each answer is given only while it is true of the row, and stays true.
LEMMA AnswersInductive ==
  TypeOK /\ GrantsBelowFence /\ AnswersMatchRows /\ [Next]_jobVars => AnswersMatchRows'
<1> SUFFICES ASSUME TypeOK, GrantsBelowFence, AnswersMatchRows, [Next]_jobVars
             PROVE  AnswersMatchRows'
  BY Zenon
<1>t. /\ acked \subseteq leases /\ refused \subseteq leases /\ settled \subseteq leases
      /\ \A t \in leases : t.job \in Keys
  BY Zenon DEF TypeOK, Lease
<1>1. \A k \in Keys : jobs'[k].state = "succeeded" => jobs'[k].receipt = jobs'[k].fence
  BY Zenon, ReceiptStep
<1>2. ASSUME NEW t \in acked'
      PROVE  Owns(t)' /\ jobs'[t.job].state = "succeeded"
  <2>1. CASE t \in acked
    <3> Owns(t) /\ jobs[t.job].state = "succeeded" /\ t.job \in Keys
      BY Zenon, <2>1, <1>t DEF AnswersMatchRows
    <3> RowStep(t.job)
      BY Zenon, EveryRowStep
    <3> QED
      BY Zenon DEF RowStep, Granted, Released, Succeeded, Expired, BecameDue, Inserted, Waiting, Owns
  <2>2. CASE t \notin acked
    <3>1. \/ \E answered \in BOOLEAN : t \in leases /\ Complete(t, answered)
          \/ t \in leases /\ CompleteReplay(t)
      BY Zenon, <2>2 DEF Next, jobVars, Enqueue, Claim, ClaimNothing, Heartbeat, Complete,
                  CompleteReplay, CompleteRefused, Fail, LeaseExpires, BackoffEnds
    <3>2. CASE t \in leases /\ CompleteReplay(t)
      BY Zenon, <3>2 DEF CompleteReplay, Owns
    <3>3. ASSUME NEW answered \in BOOLEAN, t \in leases, Complete(t, answered)
          PROVE  Owns(t)' /\ jobs'[t.job].state = "succeeded"
      BY <3>3, <1>t DEF Complete, Holds, Owns, TypeOK, Row
    <3> QED
      BY Zenon, <3>1, <3>2, <3>3
  <2> QED
    BY Zenon, <2>1, <2>2
<1>3. ASSUME NEW t \in refused'
      PROVE  ~Holds(t)' /\ ~(Owns(t)' /\ jobs'[t.job].state = "succeeded")
  <2>1. CASE t \in refused
    BY Zenon, <2>1, <1>t, OwnershipStep DEF AnswersMatchRows
  <2>2. CASE t \notin refused
    <3>1. t \in leases /\ CompleteRefused(t)
      BY Zenon, <2>2 DEF Next, jobVars, Enqueue, Claim, ClaimNothing, Heartbeat, Complete,
                  CompleteReplay, CompleteRefused, Fail, LeaseExpires, BackoffEnds
    <3> QED
      BY Zenon, <3>1 DEF CompleteRefused, Owns, Holds
  <2> QED
    BY Zenon, <2>1, <2>2
<1>4. ASSUME NEW t \in settled'
      PROVE  ~(Owns(t)' /\ jobs'[t.job].state \in {"leased", "succeeded"})
  <2>1. CASE t \in settled
    BY Zenon, <2>1, <1>t, OwnershipStep DEF AnswersMatchRows
  <2>2. CASE t \notin settled
    <3>0. PICK u \in leases, retryable \in BOOLEAN, answered \in BOOLEAN :
             Fail(u, retryable, answered)
      BY Zenon, <2>2 DEF Next, jobVars, Enqueue, Claim, ClaimNothing, Heartbeat, Complete,
                  CompleteReplay, CompleteRefused, LeaseExpires, BackoffEnds
    <3>1. t \in leases /\ Fail(t, retryable, answered)
      BY Zenon, <2>2, <3>0 DEF Fail
    <3>2. t.job \in Keys /\ jobs[t.job] \in Row /\ t.worker # Nobody
      BY Zenon, <3>1, JobConstants DEF TypeOK, Lease
    <3>3. jobs'[t.job].worker = Nobody
      BY Zenon, <3>1, <3>2 DEF Fail, TypeOK, Row
    <3> QED
      BY Zenon, <3>2, <3>3 DEF Owns
  <2> QED
    BY Zenon, <2>1, <2>2
<1> QED
  BY Zenon, <1>1, <1>2, <1>3, <1>4 DEF AnswersMatchRows

\* The inductive invariant implies what the callers are promised.
LEMMA IInvImplies == IInv => ReceiptIsExclusive /\ AnswersAreFinal /\ FenceNamesOneGrant
<1> SUFFICES ASSUME IInv PROVE ReceiptIsExclusive /\ AnswersAreFinal /\ FenceNamesOneGrant
  BY Zenon
<1>1. \A t, u \in leases : t.job = u.job /\ Owns(t) /\ Owns(u) => t = u
  BY DEF IInv, GrantsBelowFence, Owns
<1>2. acked \subseteq leases /\ \A t \in leases : t.job \in Keys
  BY Zenon DEF IInv, TypeOK, Lease
<1>3. ReceiptIsExclusive
  BY Zenon, <1>1, <1>2 DEF IInv, AnswersMatchRows, ReceiptIsExclusive, Owns
<1>4. AnswersAreFinal
  BY Zenon DEF IInv, AnswersMatchRows, AnswersAreFinal
<1>5. FenceNamesOneGrant
  BY Zenon, <1>1 DEF IInv, GrantsBelowFence, FenceNamesOneGrant, Holds
<1> QED
  BY Zenon, <1>3, <1>4, <1>5

-----------------------------------------------------------------------------
\* The jobs table and the callers' knowledge keep their types.
THEOREM JobQueueTypes == Spec => []TypeOK
<1>1. Init => TypeOK
  BY Zenon, InitIInv DEF IInv
<1> QED
  BY <1>1, TypeInductive, PTL DEF Spec

\* For every instance of the queue: receipts are durable and exclusive to one
\* lease, answers of Complete and Fail are final, and a fence names one grant.
THEOREM JobQueueSafety ==
  Spec => [](ReceiptIsExclusive /\ AnswersAreFinal /\ FenceNamesOneGrant)
<1>1. IInv /\ [Next]_jobVars => IInv'
  BY Zenon, TypeInductive, GrantsInductive, AnswersInductive DEF IInv
<1> QED
  BY InitIInv, <1>1, IInvImplies, PTL DEF Spec

\* No step of any caller changes a finished job, lowers a fence or replaces an
\* accepted envelope.
THEOREM JobOutcomeStable == Spec => OutcomeIsStable
<1>1. IInv /\ [Next]_jobVars => IInv'
  BY Zenon, TypeInductive, GrantsInductive, AnswersInductive DEF IInv
<1>2. ASSUME IInv, [Next]_jobVars, NEW k \in Keys
      PROVE  /\ jobs[k].state \in Terminal => jobs'[k] = jobs[k]
             /\ jobs[k].state # "absent" =>
                  /\ jobs'[k].fence >= jobs[k].fence
                  /\ jobs'[k].envelope = jobs[k].envelope
  <2>1. RowStep(k) /\ jobs[k].fence \in Nat
    BY Zenon, <1>2, EveryRowStep DEF IInv, TypeOK, Row
  <2> QED
    BY <2>1 DEF RowStep, Granted, Released, Succeeded, Expired, BecameDue, Inserted,
                Waiting, Terminal
<1>3. IInv /\ [Next]_jobVars =>
        [\A k \in Keys :
           /\ jobs[k].state \in Terminal => jobs'[k] = jobs[k]
           /\ jobs[k].state # "absent" =>
                /\ jobs'[k].fence >= jobs[k].fence
                /\ jobs'[k].envelope = jobs[k].envelope]_jobVars
  BY Zenon, <1>2
<1> QED
  BY InitIInv, <1>1, <1>3, PTL DEF Spec, OutcomeIsStable

-----------------------------------------------------------------------------
(* Verification *)

Phases == {"idle", "claimed", "reading", "refused", "failing", "verified", "publishing"}

Codes ==
    {"approval-revoked", "approval-expired", "binding-changed", "attempt-limit", "reproduced",
     "not-reproduced"} \cup Damage

JobRow ==
    [state : {"absent"} \cup Active \cup Settled, approval : Approvals \cup {None}, rev : Nat,
     attempts : 0..MaxAttempts, fence : Nat, owner : Verifiers \cup {None},
     lease : {"none", "live", "expired"}, ready : {"yes", "no"},
     code : {"none"} \cup Codes]

ApprovalRow ==
    [state : {"absent", "granted", "revoked"}, expired : {"yes", "no"},
     evidence : Evidence \cup {None}, rev : Nat]

Attempt ==
    [phase : Phases, job : Jobs \cup {None}, fence : Nat,
     result : {"none", "error", "reproduced", "not-reproduced"} \cup Damage]

Typed ==
    /\ revision \in Nat \ {0}
    /\ evidence \in [Evidence -> Nat]
    /\ approval \in [Approvals -> ApprovalRow]
    /\ job \in [Jobs -> JobRow]
    /\ asked \in [Jobs -> SUBSET Approvals]
    /\ worker \in [Verifiers -> Attempt]

\* An approval that was given names its evidence and the revision of it.
ApprovalInv(a) ==
    approval[a].state # "absent" =>
        /\ approval[a].evidence \in Evidence
        /\ evidence[approval[a].evidence] = approval[a].rev
        /\ approval[a].rev # 0

\* What a row tells about its approval a.
RowInv(j) ==
    /\ job[j].state # "absent" => job[j].approval \in Approvals
    /\ \A a \in Approvals : job[j].state # "absent" /\ job[j].approval = a =>
         approval[a].state # "absent"
    /\ job[j].lease # "none" => job[j].state = "processing"
    /\ job[j].state \in Active \cup {"absent"} => job[j].code = "none"
    /\ \A a \in asked[j] : approval[a].state # "absent"

Ending(j) ==
    /\ \A a \in Approvals : job[j].approval = a =>
         /\ job[j].state = "succeeded" => job[j].code = Outcome(approval[a].evidence)
         /\ job[j].state = "cancelled" => approval[a].state = "revoked"
         /\ job[j].code = "approval-expired" => approval[a].expired = "yes"
    /\ job[j].code = "attempt-limit" => job[j].attempts = MaxAttempts

\* What is known about the attempt a worker has in hand: its job k, the approval a of that.
AttemptInv(w) ==
    /\ worker[w].phase # "idle" => worker[w].job \in Jobs
    /\ worker[w].phase = "failing" => worker[w].result \in Damage \cup {"error"}
    /\ \A k \in Jobs : worker[w].phase # "idle" /\ worker[w].job = k =>
         /\ job[k].state # "absent"
         /\ worker[w].phase = "publishing" => HoldsJob(w, k)
         /\ \A a \in Approvals : job[k].approval = a =>
              /\ worker[w].phase \in {"verified", "publishing"} =>
                   worker[w].result = Outcome(approval[a].evidence)
              /\ worker[w].phase = "publishing" => approval[a].state = "granted"

VInv ==
    /\ Typed
    /\ \A a \in Approvals : ApprovalInv(a)
    /\ \A j \in Jobs : RowInv(j) /\ Ending(j)
    /\ \A w \in Verifiers : AttemptInv(w)

-----------------------------------------------------------------------------
\* Before the first request nothing is submitted, approved or queued.
LEMMA InitVInv ==
  ASSUME MaxAttempts \in Nat
  PROVE  VerificationInit => VInv
<1> SUFFICES ASSUME VerificationInit PROVE VInv
  BY Zenon
<1> USE DEF VerificationInit, NoJob, NoApproval, Idle, None
<1>1. Typed
  BY DEF Typed, JobRow, ApprovalRow, Attempt, Phases
<1>2. \A a \in Approvals : ApprovalInv(a)
  BY Zenon DEF ApprovalInv
<1>3. \A j \in Jobs : RowInv(j) /\ Ending(j)
  BY Zenon DEF RowInv, Ending
<1>4. \A w \in Verifiers : AttemptInv(w)
  BY Zenon DEF AttemptInv
<1> QED
  BY Zenon, <1>1, <1>2, <1>3, <1>4 DEF VInv

\* The rows that settling and giving back leave have their types.
LEMMA RowTypes ==
  ASSUME Typed, NEW j \in Jobs
  PROVE  /\ job[j] \in JobRow
         /\ \A state \in Settled, code \in Codes : Ended(j, state, code) \in JobRow
         /\ \A ready \in {"yes", "no"} : Queued(j, ready) \in JobRow
<1>1. job[j] \in JobRow
  BY Zenon DEF Typed
<1>2. ASSUME NEW state \in Settled, NEW code \in Codes PROVE Ended(j, state, code) \in JobRow
  BY Zenon, <1>1 DEF JobRow, Ended
<1>3. ASSUME NEW ready \in {"yes", "no"} PROVE Queued(j, ready) \in JobRow
  BY Zenon, <1>1 DEF JobRow, Queued, Active
<1> QED
  BY Zenon, <1>1, <1>2, <1>3

\* Neither changes what the row was queued under.
LEMMA RowFields ==
  ASSUME Typed, NEW j \in Jobs, NEW state, NEW code, NEW ready
  PROVE  /\ Ended(j, state, code).state = state
         /\ Ended(j, state, code).code = code
         /\ Ended(j, state, code).lease = "none"
         /\ Ended(j, state, code).approval = job[j].approval
         /\ Ended(j, state, code).attempts = job[j].attempts
         /\ Queued(j, ready).state = "queued"
         /\ Queued(j, ready).code = job[j].code
         /\ Queued(j, ready).lease = "none"
         /\ Queued(j, ready).approval = job[j].approval
  BY DEF Typed, JobRow, Ended, Queued

\* A worker that moves on, or leaves, has its type.
LEMMA StepTypes ==
  ASSUME Typed, NEW w \in Verifiers, NEW phase \in Phases,
         NEW result \in {"none", "error", "reproduced", "not-reproduced"} \cup Damage
  PROVE  /\ Step(w, phase, result) => worker' \in [Verifiers -> Attempt]
         /\ Leave(w) => worker' \in [Verifiers -> Attempt]
<1>1. [worker[w] EXCEPT !.phase = phase, !.result = result] \in Attempt
  BY Zenon DEF Typed, Attempt
<1>2. Idle \in Attempt
  BY Zenon DEF Idle, Attempt, Phases
<1> QED
  BY Zenon, <1>1, <1>2 DEF Typed, Step, Leave

\* A result is one of two.
LEMMA OutcomeType == \A e : Outcome(e) \in {"reproduced", "not-reproduced"}
  BY Zenon DEF Outcome

\* A worker that moves on keeps its job and its fence; one that leaves has none.
LEMMA WorkerFields ==
  ASSUME Typed, NEW w \in Verifiers, NEW phase, NEW result
  PROVE  /\ Step(w, phase, result) =>
              /\ worker'[w].phase = phase /\ worker'[w].result = result
              /\ worker'[w].job = worker[w].job /\ worker'[w].fence = worker[w].fence
              /\ \A v \in Verifiers : v # w => worker'[v] = worker[v]
         /\ Leave(w) => /\ worker'[w].phase = "idle"
                        /\ \A v \in Verifiers : v # w => worker'[v] = worker[v]
  BY DEF Typed, Attempt, Step, Leave, Idle

-----------------------------------------------------------------------------
(* What the rows and the workers may do in a step. *)

\* An approval is given once; revoked or expired it stays.
ApprovalStep(a) ==
    /\ ApprovalInv(a)'
    /\ approval[a].state # "absent" =>
         /\ approval'[a].state # "absent"
         /\ approval'[a].evidence = approval[a].evidence
         /\ approval[a].state = "revoked" => approval'[a].state = "revoked"
         /\ approval[a].expired = "yes" => approval'[a].expired = "yes"

JobStep(j) ==
    /\ \/ job'[j] = job[j] /\ asked'[j] = asked[j]
       \/ RowInv(j)' /\ Ending(j)'
    /\ job[j].state # "absent" => job'[j].state # "absent" /\ job'[j].approval = job[j].approval

\* A worker moves, or nobody takes what it publishes from it.
AttemptStep(v) ==
    \/ AttemptInv(v)'
    \/ /\ worker'[v] = worker[v]
       /\ \A k \in Jobs : worker[v].phase = "publishing" /\ worker[v].job = k =>
            /\ HoldsJob(v, k)'
            /\ \A a \in Approvals : job[k].approval = a => approval'[a].state = approval[a].state

\* A row that is left alone still tells the truth about its approval.
LEMMA RowKept ==
  ASSUME NEW j \in Jobs, RowInv(j), Ending(j), asked[j] \in SUBSET Approvals,
         job'[j] = job[j], asked'[j] = asked[j], \A a \in Approvals : ApprovalStep(a)
  PROVE  RowInv(j)' /\ Ending(j)'
<1>1. RowInv(j)'
  BY Zenon DEF RowInv, ApprovalStep
<1>2. Ending(j)'
  BY DEF RowInv, Ending, ApprovalStep, Active
<1> QED
  BY Zenon, <1>1, <1>2

\* So does the attempt of a worker that is left alone.
LEMMA AttemptKept ==
  ASSUME NEW v \in Verifiers, AttemptInv(v), AttemptStep(v), \A j \in Jobs : RowInv(j),
         \A j \in Jobs : JobStep(j), \A a \in Approvals : ApprovalStep(a)
  PROVE  AttemptInv(v)'
<1> SUFFICES ASSUME worker'[v] = worker[v],
                    \A k \in Jobs : worker[v].phase = "publishing" /\ worker[v].job = k =>
                      /\ HoldsJob(v, k)'
                      /\ \A a \in Approvals : job[k].approval = a =>
                           approval'[a].state = approval[a].state
             PROVE  AttemptInv(v)'
  BY Zenon DEF AttemptStep
<1>1. ASSUME NEW k \in Jobs, worker[v].phase # "idle", worker[v].job = k
      PROVE  /\ job[k].state # "absent" /\ job'[k].state # "absent"
             /\ job'[k].approval = job[k].approval
             /\ \A a \in Approvals : job[k].approval = a =>
                  approval'[a].evidence = approval[a].evidence
  <2>1. job[k].state # "absent"
    BY Zenon, <1>1 DEF AttemptInv
  <2>2. job'[k].state # "absent" /\ job'[k].approval = job[k].approval
    BY Zenon, <2>1 DEF JobStep
  <2>3. \A a \in Approvals : job[k].approval = a => approval[a].state # "absent"
    BY Zenon, <2>1 DEF RowInv
  <2> QED
    BY Zenon, <2>1, <2>2, <2>3 DEF ApprovalStep
<1> QED
  BY <1>1 DEF AttemptInv

\* Steps of these three kinds preserve the invariant.
LEMMA Preserved ==
  ASSUME VInv, Typed', \A a \in Approvals : ApprovalStep(a), \A j \in Jobs : JobStep(j),
         \A v \in Verifiers : AttemptStep(v)
  PROVE  VInv'
<1>1. /\ \A j \in Jobs : RowInv(j) /\ Ending(j) /\ asked[j] \in SUBSET Approvals
      /\ \A v \in Verifiers : AttemptInv(v)
  BY Zenon DEF VInv, Typed
<1>2. \A a \in Approvals : ApprovalInv(a)'
  BY Zenon DEF ApprovalStep
<1>3. \A j \in Jobs : RowInv(j)' /\ Ending(j)'
  BY Zenon, <1>1, RowKept DEF JobStep
<1>4. \A v \in Verifiers : AttemptInv(v)'
  BY Zenon, <1>1, AttemptKept
<1> QED
  BY Zenon, <1>2, <1>3, <1>4 DEF VInv

\* What is not touched takes such a step.
LEMMA Untouched ==
  ASSUME VInv
  PROVE  /\ UNCHANGED <<evidence, approval>> => \A a \in Approvals : ApprovalStep(a)
         /\ UNCHANGED <<job, asked>> => \A j \in Jobs : JobStep(j)
         /\ UNCHANGED <<approval, job, worker>> => \A v \in Verifiers : AttemptStep(v)
<1>1. ASSUME UNCHANGED <<evidence, approval>>, NEW a \in Approvals PROVE ApprovalStep(a)
  BY Zenon, <1>1 DEF VInv, ApprovalInv, ApprovalStep
<1>2. ASSUME UNCHANGED <<job, asked>>, NEW j \in Jobs PROVE JobStep(j)
  BY Zenon, <1>2 DEF JobStep
<1>3. ASSUME UNCHANGED <<approval, job, worker>>, NEW v \in Verifiers PROVE AttemptStep(v)
  <2>1. AttemptInv(v)
    BY Zenon DEF VInv
  <2> QED
    BY Zenon, <1>3, <2>1 DEF AttemptInv, AttemptStep, HoldsJob
<1> QED
  BY Zenon, <1>1, <1>2, <1>3

\* A worker that moves while the tables stand.
LEMMA WorkerMoves ==
  ASSUME VInv, NEW w \in Verifiers, UNCHANGED <<revision, evidence, approval, job, asked>>,
         worker' \in [Verifiers -> Attempt], AttemptInv(w)',
         \A v \in Verifiers : v # w => worker'[v] = worker[v]
  PROVE  VInv'
<1>1. Typed'
  BY Zenon DEF VInv, Typed
<1>2. ASSUME NEW v \in Verifiers, v # w PROVE AttemptStep(v)
  <2>1. AttemptInv(v) /\ worker'[v] = worker[v]
    BY Zenon, <1>2 DEF VInv
  <2> QED
    BY <2>1 DEF AttemptInv, AttemptStep, HoldsJob
<1>3. AttemptStep(w)
  BY Zenon DEF AttemptStep
<1> QED
  BY Zenon, <1>1, <1>2, <1>3, Preserved, Untouched

\* A worker with a job that moves on to another phase, while the tables stand.
MovesOn(w, phase, result) ==
    /\ worker[w].phase # "idle" /\ phase \in Phases \ {"idle"}
    /\ result \in {"none", "error", "reproduced", "not-reproduced"} \cup Damage
    /\ Step(w, phase, result)
    /\ UNCHANGED <<revision, evidence, approval, job, asked>>
    /\ phase = "failing" => result \in Damage \cup {"error"}
    /\ \A k \in Jobs : worker[w].job = k =>
         /\ phase = "publishing" => HoldsJob(w, k)
         /\ \A a \in Approvals : job[k].approval = a =>
              /\ phase \in {"verified", "publishing"} => result = Outcome(approval[a].evidence)
              /\ phase = "publishing" => approval[a].state = "granted"

LEMMA MovingOn ==
  ASSUME VInv, NEW w \in Verifiers, NEW phase, NEW result, MovesOn(w, phase, result)
  PROVE  VInv'
<1>1. Typed /\ AttemptInv(w)
  BY Zenon DEF VInv
<1>2. worker' \in [Verifiers -> Attempt]
  BY Zenon, <1>1, StepTypes DEF MovesOn
<1>3. /\ worker'[w].phase = phase /\ worker'[w].result = result
      /\ worker'[w].job = worker[w].job /\ worker'[w].fence = worker[w].fence
      /\ \A v \in Verifiers : v # w => worker'[v] = worker[v]
  BY Zenon, <1>1, WorkerFields DEF MovesOn
<1>4. UNCHANGED <<revision, evidence, approval, job, asked>>
  BY Zenon DEF MovesOn
<1>5. PICK k \in Jobs : worker[w].job = k
  BY Zenon, <1>1 DEF AttemptInv, MovesOn
<1>6. AttemptInv(w)'
  <2>1. worker'[w].job = k /\ job[k].state # "absent" /\ job' = job /\ approval' = approval
    BY Zenon, <1>1, <1>3, <1>4, <1>5 DEF AttemptInv, MovesOn
  <2>2. phase = "publishing" => HoldsJob(w, k)'
    BY Zenon, <1>3, <1>5, <2>1 DEF MovesOn, HoldsJob
  <2>3. \A a \in Approvals : job[k].approval = a =>
          /\ phase \in {"verified", "publishing"} => result = Outcome(approval[a].evidence)
          /\ phase = "publishing" => approval[a].state = "granted"
    BY Zenon, <1>5 DEF MovesOn
  <2>4. phase = "failing" => result \in Damage \cup {"error"}
    BY Zenon DEF MovesOn
  <2> QED
    BY Zenon, <1>3, <2>1, <2>2, <2>3, <2>4 DEF AttemptInv
<1> QED
  BY Zenon, <1>2, <1>3, <1>4, <1>6, WorkerMoves

\* One row k changes, and worker w, who publishes nothing else, with it.
RowMove(w, k, r) ==
    /\ UNCHANGED <<revision, evidence, approval, asked>>
    /\ job' = [job EXCEPT ![k] = r]
    /\ r.state # "absent" /\ r.approval = job[k].approval
    /\ RowInv(k)' /\ Ending(k)'
    /\ worker' \in [Verifiers -> Attempt]
    /\ AttemptInv(w)'
    /\ \A v \in Verifiers : v # w => /\ worker'[v] = worker[v]
                                     /\ ~(worker[v].phase = "publishing" /\ worker[v].job = k)

LEMMA RowMoves ==
  ASSUME VInv, NEW w \in Verifiers, NEW k \in Jobs, NEW r \in JobRow, RowMove(w, k, r)
  PROVE  VInv'
<1>1. job'[k] = r /\ \A j \in Jobs : j # k => job'[j] = job[j]
  BY Zenon DEF VInv, Typed, RowMove
<1>2. Typed'
  BY Zenon DEF VInv, Typed, RowMove
<1>3. ASSUME NEW j \in Jobs PROVE JobStep(j)
  BY Zenon, <1>1 DEF JobStep, RowMove
<1>4. ASSUME NEW v \in Verifiers, v # w PROVE AttemptStep(v)
  <2>1. /\ AttemptInv(v) /\ worker'[v] = worker[v] /\ approval' = approval
        /\ ~(worker[v].phase = "publishing" /\ worker[v].job = k)
    BY Zenon, <1>4 DEF VInv, RowMove
  <2> QED
    BY <1>1, <2>1 DEF AttemptInv, AttemptStep, HoldsJob
<1>5. AttemptStep(w) /\ UNCHANGED <<evidence, approval>>
  BY Zenon DEF AttemptStep, RowMove
<1> QED
  BY Zenon, <1>2, <1>3, <1>4, <1>5, Preserved, Untouched

\* A worker that leaves everything as it is.
LEMMA Leaving ==
  ASSUME VInv, NEW w \in Verifiers, Leave(w),
         UNCHANGED <<revision, evidence, approval, job, asked>>
  PROVE  VInv'
<1>1. worker'[w].phase = "idle" /\ \A v \in Verifiers : v # w => worker'[v] = worker[v]
  BY Zenon, WorkerFields DEF VInv
<1>2. AttemptInv(w)'
  BY Zenon, <1>1 DEF AttemptInv
<1>3. worker' \in [Verifiers -> Attempt]
  BY Zenon, StepTypes DEF VInv, Phases
<1> QED
  BY Zenon, <1>1, <1>2, <1>3, WorkerMoves

\* A row that ends job k, or gives it back, and says nothing untrue.
Fit(k, r) ==
    /\ r.approval = job[k].approval
    /\ r.lease = "none"
    /\ (r.state = "queued" /\ r.code = "none") \/ r.state \in Settled
    /\ r.code = "attempt-limit" => r.attempts = MaxAttempts
    /\ \A a \in Approvals : r.approval = a =>
         /\ r.state = "succeeded" => r.code = Outcome(approval[a].evidence)
         /\ r.state = "cancelled" => approval[a].state = "revoked"
         /\ r.code = "approval-expired" => approval[a].expired = "yes"

\* A worker that writes such a row into the job it holds, and leaves.
LEMMA Settling ==
  ASSUME VInv, NEW w \in Verifiers, NEW k \in Jobs, NEW r \in JobRow, Fit(k, r), HoldsJob(w, k),
         Leave(w), job' = [job EXCEPT ![k] = r],
         UNCHANGED <<revision, evidence, approval, asked>>
  PROVE  VInv'
<1>1. worker'[w].phase = "idle" /\ \A v \in Verifiers : v # w => worker'[v] = worker[v]
  BY Zenon, WorkerFields DEF VInv
<1>2. AttemptInv(w)'
  BY Zenon, <1>1 DEF AttemptInv
<1>3. worker' \in [Verifiers -> Attempt]
  BY Zenon, StepTypes DEF VInv, Phases
<1>4. job'[k] = r
  BY Zenon DEF VInv, Typed
<1>5. RowInv(k) /\ job[k].state # "absent" /\ r.state # "absent"
  BY Zenon DEF VInv, HoldsJob, Fit, Settled
<1>6. RowInv(k)'
  BY <1>4, <1>5 DEF RowInv, Fit, Active, Settled
<1>7. Ending(k)'
  BY Zenon, <1>4 DEF Ending, Fit
<1>8. ASSUME NEW v \in Verifiers, v # w
      PROVE  ~(worker[v].phase = "publishing" /\ worker[v].job = k)
  <2>1. AttemptInv(v)
    BY Zenon DEF VInv
  <2> QED
    BY Zenon, <1>8, <2>1 DEF AttemptInv, HoldsJob
<1>9. RowMove(w, k, r)
  BY Zenon, <1>1, <1>2, <1>3, <1>5, <1>6, <1>7, <1>8 DEF RowMove, Fit
<1> QED
  BY Zenon, <1>9, RowMoves

\* Giving the job back queues it again.
LEMMA GivingBack ==
  ASSUME VInv, NEW w \in Verifiers, NEW k \in Jobs, Leave(w),
         UNCHANGED <<revision, evidence, approval, asked>>,
         HoldsJob(w, k), NEW ready \in {"yes", "no"}, job' = [job EXCEPT ![k] = Queued(k, ready)]
  PROVE  VInv'
<1> DEFINE r == Queued(k, ready)
<1>1. RowInv(k) /\ Typed
  BY Zenon DEF VInv
<1>2. job[k].code = "none"
  BY Zenon, <1>1 DEF RowInv, HoldsJob, Active
<1>3. r \in JobRow
  BY Zenon, <1>1, RowTypes
<1>4. r.state = "queued" /\ r.code = "none" /\ r.lease = "none" /\ r.approval = job[k].approval
  BY <1>1, <1>2, RowFields
<1> HIDE DEF r
<1>5. Fit(k, r)
  BY Zenon, <1>4 DEF Fit
<1> QED
  BY Zenon, <1>3, <1>5, Settling DEF r

-----------------------------------------------------------------------------
\* Every step of the API, the clock and the workers preserves the invariant.
LEMMA NextVInv ==
  ASSUME MaxAttempts \in Nat
  PROVE  VInv /\ [VerificationNext]_verificationVars => VInv'
<1> SUFFICES ASSUME VInv, [VerificationNext]_verificationVars PROVE VInv'
  BY Zenon
<1>t. Typed
  BY Zenon DEF VInv
<1>r. \A j \in Jobs : RowInv(j) /\ Ending(j)
  BY Zenon DEF VInv
<1>w. \A w \in Verifiers : AttemptInv(w)
  BY Zenon DEF VInv
<1>1. CASE UNCHANGED verificationVars
  <2>1. Typed'
    BY Zenon, <1>1, <1>t DEF Typed, verificationVars
  <2> QED
    BY Zenon, <1>1, <2>1, Preserved, Untouched DEF verificationVars
<1>2. ASSUME NEW e \in Evidence, Submit(e)
      PROVE  VInv'
  <2>1. Typed'
    BY Zenon, <1>2, <1>t DEF Submit, Typed
  <2>2. ASSUME NEW a \in Approvals PROVE ApprovalStep(a)
    BY Zenon, <1>2, <1>t DEF Submit, VInv, Typed, ApprovalInv, ApprovalStep
  <2> QED
    BY Zenon, <1>2, <2>1, <2>2, Preserved, Untouched DEF Submit
<1>3. ASSUME NEW a \in Approvals, NEW e \in Evidence, Approve(a, e)
      PROVE  VInv'
  <2>1. Typed'
    BY Zenon, <1>3, <1>t DEF Approve, Typed, ApprovalRow
  <2>2. ASSUME NEW b \in Approvals PROVE ApprovalStep(b)
    BY Zenon, <1>3, <1>t DEF Approve, VInv, Typed, ApprovalRow, ApprovalInv, ApprovalStep
  <2>3. ASSUME NEW v \in Verifiers PROVE AttemptStep(v)
    <3>1. \A b \in Approvals : b # a => approval'[b] = approval[b]
      BY Zenon, <1>3, <1>t DEF Approve, Typed
    <3>2. ASSUME NEW k \in Jobs, worker[v].phase = "publishing", worker[v].job = k
          PROVE  HoldsJob(v, k) /\ job[k].approval # a
      BY Zenon, <1>3, <1>w, <3>2 DEF Approve, AttemptInv
    <3> QED
      BY Zenon, <1>3, <3>1, <3>2 DEF Approve, AttemptStep, HoldsJob
  <2> QED
    BY Zenon, <1>3, <2>1, <2>2, <2>3, Preserved, Untouched DEF Approve
<1>4. ASSUME NEW a \in Approvals, Revoke(a)
      PROVE  VInv'
  <2>0. ASSUME NEW k \in Jobs
        PROVE  \/ job'[k] = job[k] /\ (job[k].state \in Active => job[k].approval # a)
               \/ /\ job[k].approval = a /\ job[k].state \in Active /\ job'[k] \in JobRow
                  /\ job'[k].state = "cancelled" /\ job'[k].code = "approval-revoked"
                  /\ job'[k].lease = "none" /\ job'[k].approval = a
    <3> DEFINE r == Ended(k, "cancelled", "approval-revoked")
    <3>1. r \in JobRow /\ r.state = "cancelled" /\ r.code = "approval-revoked"
          /\ r.lease = "none" /\ r.approval = job[k].approval
      BY <1>t, RowTypes, RowFields DEF Settled, Codes
    <3>2. job[k].fence + 1 \in Nat
      BY <1>t DEF Typed, JobRow
    <3> HIDE DEF r
    <3>3. CASE job[k].approval = a /\ job[k].state \in Active
      <4>1. job'[k] = [r EXCEPT !.fence = job[k].fence + 1]
        BY Zenon, <1>4, <3>3 DEF Revoke, r
      <4> QED
        BY Zenon, <3>1, <3>2, <3>3, <4>1 DEF JobRow
    <3> QED
      BY Zenon, <1>4, <3>3 DEF Revoke
  <2>a. /\ approval'[a] = [approval[a] EXCEPT !.state = "revoked"]
        /\ \A b \in Approvals : b # a => approval'[b] = approval[b]
        /\ approval[a] \in ApprovalRow /\ approval[a].state = "granted"
    BY Zenon, <1>4, <1>t DEF Revoke, Typed
  <2>1. Typed'
    <3>1. job' \in [Jobs -> JobRow]
      BY Zenon, <1>4, <1>t, <2>0 DEF Revoke, Typed
    <3>2. [approval[a] EXCEPT !.state = "revoked"] \in ApprovalRow
      BY Zenon, <2>a DEF ApprovalRow
    <3>3. approval' \in [Approvals -> ApprovalRow]
      BY Zenon, <1>4, <1>t, <2>a, <3>2 DEF Revoke, Typed
    <3> QED
      BY Zenon, <1>4, <1>t, <3>1, <3>3 DEF Revoke, Typed
  <2>2. ASSUME NEW b \in Approvals PROVE ApprovalStep(b)
    BY <1>4, <2>a DEF Revoke, VInv, ApprovalRow, ApprovalInv, ApprovalStep
  <2>3. ASSUME NEW k \in Jobs PROVE JobStep(k)
    <3>1. approval'[a].state = "revoked" /\ asked' = asked
      BY <1>4, <2>a DEF Revoke, ApprovalRow
    <3>2. CASE job'[k] = job[k]
      BY Zenon, <3>1, <3>2 DEF JobStep
    <3>3. CASE job'[k] # job[k]
      <4>1. RowInv(k)'
        <5>1. RowInv(k) /\ asked[k] \in SUBSET Approvals
          BY Zenon, <1>r, <1>t DEF Typed
        <5>2. /\ job'[k].approval = a /\ job'[k].state = "cancelled"
              /\ job'[k].lease = "none"
          BY Zenon, <2>0, <3>3
        <5> QED
          BY Zenon, <2>2, <3>1, <5>1, <5>2 DEF RowInv, ApprovalStep, Active
      <4>2. Ending(k)'
        BY Zenon, <2>0, <3>1, <3>3 DEF Ending
      <4> QED
        BY Zenon, <2>0, <3>3, <4>1, <4>2 DEF JobStep
    <3> QED
      BY Zenon, <3>2, <3>3
  <2>4. ASSUME NEW v \in Verifiers PROVE AttemptStep(v)
    <3>1. ASSUME NEW k \in Jobs, worker[v].phase = "publishing", worker[v].job = k
          PROVE  job[k].approval # a /\ HoldsJob(v, k)
      BY Zenon, <1>4, <1>w, <3>1 DEF Revoke, Locked, AttemptInv
    <3> QED
      BY <1>4, <2>0, <2>a, <3>1 DEF Revoke, AttemptStep, HoldsJob
  <2> QED
    BY Zenon, <2>1, <2>2, <2>3, <2>4, Preserved
<1>5. ASSUME NEW j \in Jobs, NEW a \in Approvals, AskJob(j, a)
      PROVE  VInv'
  <2>1. Typed'
    BY Zenon, <1>5, <1>t DEF AskJob, Typed
  <2>2. ASSUME NEW k \in Jobs PROVE JobStep(k)
    BY <1>5, <1>r, <1>t DEF AskJob, Current, Typed, RowInv, Ending, JobStep
  <2> QED
    BY Zenon, <1>5, <2>1, <2>2, Preserved, Untouched DEF AskJob
<1>6. ASSUME NEW j \in Jobs, NEW a \in Approvals, InsertJob(j, a)
      PROVE  VInv'
  <2> DEFINE r == [NoJob EXCEPT !.state = "queued", !.approval = a, !.rev = approval[a].rev]
  <2>1. r \in JobRow
    <3>1. approval[a].rev \in Nat
      BY Zenon, <1>t DEF Typed, ApprovalRow
    <3>2. NoJob \in JobRow
      BY DEF NoJob, JobRow
    <3> QED
      BY Zenon, <3>1, <3>2 DEF JobRow, Active
  <2>2. /\ r.state = "queued" /\ r.approval = a /\ r.lease = "none" /\ r.code = "none"
    BY Zenon DEF NoJob
  <2> HIDE DEF r
  <2>3. Typed'
    BY Zenon, <1>6, <1>t, <2>1 DEF InsertJob, Typed, r
  <2>4. ASSUME NEW k \in Jobs PROVE JobStep(k)
    <3>1. job'[k] = job[k] \/ (k = j /\ job[k].state = "absent" /\ job'[k] = r)
      BY Zenon, <1>6, <1>t DEF InsertJob, Typed, r
    <3>2. a \in asked[j] /\ asked'[k] \subseteq asked[k] /\ approval' = approval
      BY Zenon, <1>6, <1>t DEF InsertJob, Typed
    <3>3. RowInv(k) /\ RowInv(j) /\ Ending(k)
      BY Zenon, <1>r
    <3>4. CASE job'[k] = job[k]
      BY <3>2, <3>3, <3>4 DEF RowInv, Ending, JobStep
    <3>5. CASE k = j /\ job[k].state = "absent" /\ job'[k] = r
      BY Zenon, <2>2, <3>2, <3>3, <3>5 DEF RowInv, Ending, JobStep, Active
    <3> QED
      BY Zenon, <3>1, <3>4, <3>5
  <2>5. ASSUME NEW v \in Verifiers PROVE AttemptStep(v)
    <3>1. ASSUME NEW k \in Jobs, worker[v].phase = "publishing", worker[v].job = k
          PROVE  HoldsJob(v, k) /\ job'[k] = job[k]
      BY <1>6, <1>w, <1>t, <3>1 DEF InsertJob, AttemptInv, HoldsJob, Typed
    <3> QED
      BY Zenon, <1>6, <3>1 DEF InsertJob, AttemptStep, HoldsJob
  <2> QED
    BY Zenon, <1>6, <2>3, <2>4, <2>5, Preserved, Untouched DEF InsertJob
<1>7. ASSUME ChangeEvidence
      PROVE  VInv'
  <2>1. Typed'
    BY <1>7, <1>t DEF ChangeEvidence, Typed
  <2> QED
    BY Zenon, <1>7, <2>1, Preserved, Untouched DEF ChangeEvidence
<1>8. ASSUME NEW a \in Approvals, ExpireApproval(a)
      PROVE  VInv'
  <2>a. /\ approval'[a] = [approval[a] EXCEPT !.expired = "yes"]
        /\ \A b \in Approvals : b # a => approval'[b] = approval[b]
        /\ approval[a] \in ApprovalRow
    BY Zenon, <1>8, <1>t DEF ExpireApproval, Typed
  <2>1. Typed'
    <3>1. [approval[a] EXCEPT !.expired = "yes"] \in ApprovalRow
      BY Zenon, <2>a DEF ApprovalRow
    <3>2. approval' \in [Approvals -> ApprovalRow]
      BY Zenon, <1>8, <1>t, <2>a, <3>1 DEF ExpireApproval, Typed
    <3> QED
      BY Zenon, <1>8, <1>t, <3>2 DEF ExpireApproval, Typed
  <2>2. ASSUME NEW b \in Approvals PROVE ApprovalStep(b)
    BY <1>8, <2>a DEF ExpireApproval, VInv, ApprovalRow, ApprovalInv, ApprovalStep
  <2>3. ASSUME NEW v \in Verifiers PROVE AttemptStep(v)
    <3>1. ASSUME NEW b \in Approvals PROVE approval'[b].state = approval[b].state
      BY Zenon, <2>a DEF ApprovalRow
    <3> QED
      BY <1>8, <1>w, <3>1 DEF ExpireApproval, AttemptStep, AttemptInv, HoldsJob
  <2> QED
    BY Zenon, <1>8, <2>1, <2>2, <2>3, Preserved, Untouched DEF ExpireApproval
<1>9. ASSUME NEW j \in Jobs, ExpireLease(j) \/ Ripen(j)
      PROVE  VInv'
  <2> DEFINE r == job'[j]
  <2>0. /\ job[j] \in JobRow /\ job[j].state # "absent"
        /\ \A k \in Jobs : k # j => job'[k] = job[k]
        /\ \/ r = [job[j] EXCEPT !.lease = "expired"] /\ job[j].lease = "live"
           \/ r = [job[j] EXCEPT !.ready = "yes"]
    BY Zenon, <1>9, <1>r, <1>t DEF ExpireLease, Ripen, Typed, RowInv
  <2>1. /\ r \in JobRow /\ r.state = job[j].state /\ r.code = job[j].code
        /\ r.approval = job[j].approval /\ r.owner = job[j].owner /\ r.fence = job[j].fence
        /\ r.attempts = job[j].attempts
        /\ r.lease = job[j].lease \/ (r.lease = "expired" /\ job[j].lease = "live")
    BY <2>0 DEF JobRow
  <2> HIDE DEF r
  <2>2. Typed'
    <3>1. job' = [job EXCEPT ![j] = r]
      BY Zenon, <1>9, <1>t DEF ExpireLease, Ripen, Typed, r
    <3> QED
      BY Zenon, <1>9, <1>t, <2>1, <3>1 DEF ExpireLease, Ripen, Typed
  <2>u. UNCHANGED <<revision, evidence, approval, asked, worker>>
    BY Zenon, <1>9 DEF ExpireLease, Ripen
  <2>3. ASSUME NEW k \in Jobs PROVE JobStep(k)
    <3>1. CASE k = j
      <4>1. RowInv(j)'
        BY Zenon, <1>r, <2>1, <2>u DEF RowInv, r
      <4>2. Ending(j)'
        BY <1>r, <2>1, <2>u DEF Ending, r
      <4> QED
        BY Zenon, <2>0, <2>1, <3>1, <4>1, <4>2 DEF JobStep, r
    <3>2. CASE k # j
      BY Zenon, <2>0, <2>u, <3>2 DEF JobStep
    <3> QED
      BY Zenon, <3>1, <3>2
  <2>4. ASSUME NEW v \in Verifiers PROVE AttemptStep(v)
    BY <1>w, <2>0, <2>1, <2>u DEF AttemptStep, AttemptInv, HoldsJob, r
  <2> QED
    BY Zenon, <2>2, <2>3, <2>4, <2>u, Preserved, Untouched
<1>10. ASSUME NEW w \in Verifiers, FailExhausted(w)
      PROVE  VInv'
  <2>0. ASSUME NEW k \in Jobs
        PROVE  \/ job'[k] = job[k]
               \/ /\ Overspent(k) /\ job'[k].state = "failed" /\ job'[k].code = "attempt-limit"
                  /\ job'[k].lease = "none" /\ job'[k].approval = job[k].approval
                  /\ job'[k].attempts = job[k].attempts /\ job'[k] \in JobRow
    BY <1>10, <1>t, RowFields, RowTypes DEF FailExhausted, Settled, Codes
  <2>u. UNCHANGED <<revision, evidence, approval, asked, worker>>
    BY Zenon, <1>10 DEF FailExhausted
  <2>1. Typed'
    <3>1. job' \in [Jobs -> JobRow]
      BY Zenon, <1>10, <1>t, <2>0 DEF FailExhausted, Typed
    <3> QED
      BY Zenon, <1>t, <2>u, <3>1 DEF Typed
  <2>2. ASSUME NEW k \in Jobs PROVE JobStep(k)
    <3>1. Overspent(k) => job[k].attempts = MaxAttempts /\ job[k].state = "processing"
      <4>1. job[k].attempts \in 0..MaxAttempts
        BY Zenon, <1>t DEF Typed, JobRow
      <4> QED
        BY <4>1 DEF Overspent
    <3> QED
      BY <1>r, <2>0, <2>u, <3>1 DEF RowInv, Ending, JobStep, Active
  <2>3. ASSUME NEW v \in Verifiers PROVE AttemptStep(v)
    <3>1. ASSUME NEW k \in Jobs, worker[v].phase = "publishing", worker[v].job = k
          PROVE  HoldsJob(v, k) /\ job'[k] = job[k]
      BY Zenon, <1>w, <2>0, <3>1 DEF Overspent, Locked, AttemptInv
    <3> QED
      BY <2>u, <3>1 DEF AttemptStep, HoldsJob
  <2> QED
    BY Zenon, <2>1, <2>2, <2>3, <2>u, Preserved, Untouched
<1>11. ASSUME NEW w \in Verifiers, NEW j \in Jobs, ClaimVerification(w, j)
      PROVE  VInv'
  <2> DEFINE r == [job[j] EXCEPT !.state = "processing", !.owner = w, !.lease = "live",
                                 !.fence = @ + 1, !.attempts = @ + 1]
             m == [phase |-> "claimed", job |-> j, fence |-> job[j].fence + 1, result |-> "none"]
  <2>0. job[j] \in JobRow /\ job[j].attempts < MaxAttempts /\ job[j].state \in Active
    BY Zenon, <1>11, <1>t DEF ClaimVerification, VerificationClaimable, Typed, Active
  <2>a. /\ job[j].fence + 1 \in Nat /\ job[j].attempts + 1 \in 0..MaxAttempts
        /\ "processing" \in Active /\ w \in Verifiers \cup {None}
    BY <2>0 DEF JobRow, Active
  <2>b. r \in JobRow
    BY Zenon, <2>0, <2>a DEF JobRow
  <2>1. r.state = "processing" /\ r.code = job[j].code /\ r.approval = job[j].approval
    BY Zenon, <2>0 DEF JobRow
  <2>2. m \in Attempt /\ m.phase = "claimed" /\ m.job = j
    BY <2>0 DEF Attempt, Phases, JobRow
  <2>3. job' = [job EXCEPT ![j] = r] /\ worker' = [worker EXCEPT ![w] = m]
        /\ UNCHANGED <<revision, evidence, approval, asked>>
    BY Zenon, <1>11, <1>t DEF ClaimVerification, Typed
  <2> HIDE DEF r, m
  <2>4. /\ job'[j] = r /\ worker'[w] = m
        /\ worker' \in [Verifiers -> Attempt]
        /\ \A v \in Verifiers : v # w => worker'[v] = worker[v]
    BY Zenon, <1>t, <2>2, <2>3 DEF Typed
  <2>5. RowInv(j)' /\ Ending(j)'
    BY <1>r, <2>0, <2>1, <2>3, <2>4 DEF RowInv, Ending, Active
  <2>6. AttemptInv(w)'
    BY Zenon, <2>1, <2>2, <2>4 DEF AttemptInv
  <2>7. ASSUME NEW v \in Verifiers PROVE ~(worker[v].phase = "publishing" /\ worker[v].job = j)
    BY Zenon, <1>11 DEF ClaimVerification, VerificationClaimable, Locked
  <2> QED
    <3>1. RowMove(w, j, r)
      BY Zenon, <2>1, <2>3, <2>4, <2>5, <2>6, <2>7 DEF RowMove
    <3> QED
      BY Zenon, <2>b, <3>1, RowMoves
<1>12. ASSUME NEW w \in Verifiers, Authorize(w)
      PROVE  VInv'
  <2>1. PICK phase \in {"reading", "refused"} : Step(w, phase, "none")
    BY Zenon, <1>12 DEF Authorize
  <2>2. MovesOn(w, phase, "none")
    BY Zenon, <1>12, <2>1 DEF Authorize, MovesOn, Phases
  <2> QED
    BY Zenon, <2>2, MovingOn
<1>13. ASSUME NEW w \in Verifiers, Evaluate(w)
      PROVE  VInv'
  <2>a. PICK k \in Jobs : worker[w].job = k
    BY Zenon, <1>13, <1>w DEF Evaluate, AttemptInv
  <2>b. PICK a \in Approvals : job[k].approval = a
    BY Zenon, <1>13, <1>r, <1>w, <2>a DEF Evaluate, AttemptInv, RowInv
  <2>0. worker[w].phase = "reading" /\ UNCHANGED <<revision, evidence, approval, job, asked>>
    BY Zenon, <1>13 DEF Evaluate
  <2>1. Step(w, "verified", Outcome(approval[a].evidence)) \/ Step(w, "refused", "none")
    BY Zenon, <1>13, <2>a, <2>b DEF Evaluate
  <2>2. CASE Step(w, "verified", Outcome(approval[a].evidence))
    <3>1. Outcome(approval[a].evidence) \in {"reproduced", "not-reproduced"}
      BY Zenon, OutcomeType
    <3>2. MovesOn(w, "verified", Outcome(approval[a].evidence))
      BY Zenon, <2>0, <2>2, <2>a, <2>b, <3>1 DEF MovesOn, Phases
    <3> QED
      BY Zenon, <3>2, MovingOn
  <2>3. CASE Step(w, "refused", "none")
    <3>1. MovesOn(w, "refused", "none")
      BY Zenon, <2>0, <2>3 DEF MovesOn, Phases
    <3> QED
      BY Zenon, <3>1, MovingOn
  <2> QED
    BY Zenon, <2>1, <2>2, <2>3
<1>14. ASSUME NEW w \in Verifiers, LookupFails(w)
      PROVE  VInv'
  <2>1. MovesOn(w, "refused", "none")
    BY Zenon, <1>14 DEF LookupFails, MovesOn, Phases
  <2> QED
    BY Zenon, <2>1, MovingOn
<1>15. ASSUME NEW w \in Verifiers, NEW cause \in Damage \cup {"error"}, ReadFails(w, cause)
      PROVE  VInv'
  <2>1. MovesOn(w, "failing", cause)
    BY Zenon, <1>15 DEF ReadFails, MovesOn, Phases
  <2> QED
    BY Zenon, <2>1, MovingOn
<1>16. ASSUME NEW w \in Verifiers, NEW failed \in BOOLEAN, SettleRefused(w, failed)
      PROVE  VInv'
  <2>a. PICK k \in Jobs : worker[w].job = k
    BY Zenon, <1>16, <1>w DEF SettleRefused, AttemptInv
  <2>0. /\ worker[w].phase # "idle" /\ Leave(w)
        /\ UNCHANGED <<revision, evidence, approval, asked>>
    BY Zenon, <1>16 DEF SettleRefused
  <2> DEFINE o == PolicyOutcome(k, failed)
             r == Ended(k, o[1], o[2])
  <2>b. /\ o[1] \in {"blocked", "cancelled"} /\ o[2] \in Codes \ {"attempt-limit"}
        /\ \A a \in Approvals : job[k].approval = a =>
             /\ o[1] = "cancelled" => approval[a].state = "revoked"
             /\ o[2] = "approval-expired" => approval[a].expired = "yes"
    BY Zenon DEF PolicyOutcome, Codes, Damage
  <2>1. \/ job' = job
        \/ HoldsJob(w, k) /\ job' = [job EXCEPT ![k] = r]
    BY Zenon, <1>16, <2>a DEF SettleRefused
  <2> HIDE DEF o
  <2>2. /\ r \in JobRow /\ r.state = o[1] /\ r.code = o[2] /\ r.lease = "none"
        /\ r.approval = job[k].approval
    BY <1>t, <2>b, RowTypes, RowFields DEF Settled
  <2> HIDE DEF r
  <2>3. r.state \in Settled /\ r.state # "succeeded" /\ r.code # "attempt-limit"
    BY Zenon, <2>b, <2>2 DEF Settled
  <2>4. Fit(k, r)
    BY Zenon, <2>2, <2>3, <2>b DEF Fit
  <2> QED
    BY Zenon, <2>0, <2>1, <2>2, <2>4, Leaving, Settling
<1>17. ASSUME NEW w \in Verifiers, SettleFailing(w)
      PROVE  VInv'
  <2>a. PICK k \in Jobs : worker[w].job = k
    BY Zenon, <1>17, <1>w DEF SettleFailing, AttemptInv
  <2>0. /\ worker[w].phase # "idle" /\ Leave(w)
        /\ UNCHANGED <<revision, evidence, approval, asked>>
    BY Zenon, <1>17 DEF SettleFailing
  <2>1. \/ job' = job
        \/ \E code \in Damage \cup {"attempt-limit"} :
             /\ HoldsJob(w, k)
             /\ code = "attempt-limit" => job[k].attempts >= MaxAttempts
             /\ job' = [job EXCEPT ![k] = Ended(k, "failed", code)]
        \/ HoldsJob(w, k) /\ job' = [job EXCEPT ![k] = Queued(k, "no")]
    <3>1. CASE ~(HoldsJob(w, k) /\ job[k].lease = "live")
      BY Zenon, <1>17, <2>a, <3>1 DEF SettleFailing
    <3>2. CASE HoldsJob(w, k) /\ job[k].lease = "live" /\ worker[w].result \in Damage
      <4>1. job' = [job EXCEPT ![k] = Ended(k, "failed", worker[w].result)]
        BY Zenon, <1>17, <2>a, <3>2 DEF SettleFailing
      <4> QED
        BY Zenon, <3>2, <4>1 DEF Damage
    <3>3. CASE HoldsJob(w, k) /\ job[k].lease = "live" /\ worker[w].result \notin Damage
      BY Zenon, <1>17, <2>a, <3>3 DEF SettleFailing
    <3> QED
      BY Zenon, <3>1, <3>2, <3>3
  <2>2. CASE job' = job
    BY Zenon, <2>0, <2>2, Leaving
  <2>3. ASSUME NEW code \in Damage \cup {"attempt-limit"}, HoldsJob(w, k),
               code = "attempt-limit" => job[k].attempts >= MaxAttempts,
               job' = [job EXCEPT ![k] = Ended(k, "failed", code)]
        PROVE  VInv'
    <3> DEFINE r == Ended(k, "failed", code)
    <3>a. code \in Codes /\ "failed" \in Settled
      BY Zenon DEF Settled, Codes
    <3>b. r \in JobRow
      BY Zenon, <1>t, <3>a, RowTypes
    <3>1. /\ r.state = "failed" /\ r.code = code /\ r.lease = "none"
          /\ r.approval = job[k].approval /\ r.attempts = job[k].attempts
      BY <1>t, RowFields
    <3> HIDE DEF r
    <3>2. r.state \in Settled /\ r.code # "approval-expired"
      BY Zenon, <3>1 DEF Settled, Damage
    <3>3. r.code = "attempt-limit" => r.attempts = MaxAttempts
      <4>1. job[k].attempts \in 0..MaxAttempts
        BY Zenon, <1>t DEF Typed, JobRow
      <4> QED
        BY <2>3, <3>1, <4>1
    <3>4. Fit(k, r)
      BY Zenon, <3>1, <3>2, <3>3 DEF Fit
    <3> QED
      BY Zenon, <2>0, <2>3, <3>b, <3>4, Settling DEF r
  <2>4. CASE HoldsJob(w, k) /\ job' = [job EXCEPT ![k] = Queued(k, "no")]
    BY Zenon, <2>0, <2>4, GivingBack
  <2> QED
    BY Zenon, <2>1, <2>2, <2>3, <2>4
<1>18. ASSUME NEW w \in Verifiers, Publish(w)
      PROVE  VInv'
  <2>a. PICK k \in Jobs : worker[w].job = k
    BY Zenon, <1>18, <1>w DEF Publish, AttemptInv
  <2>0. worker[w].phase = "verified" /\ UNCHANGED <<revision, evidence, approval, job, asked>>
    BY Zenon, <1>18 DEF Publish
  <2>1. CASE Publishable(w, k)
    <3>1. Step(w, "publishing", worker[w].result)
      BY Zenon, <1>18, <2>1, <2>a DEF Publish
    <3>2. worker[w].result \in {"none", "error", "reproduced", "not-reproduced"} \cup Damage
      BY Zenon, <1>t DEF Typed, Attempt
    <3>3. HoldsJob(w, k) /\ \A a \in Approvals : job[k].approval = a => approval[a].state = "granted"
      BY Zenon, <2>1 DEF Publishable, Current
    <3>4. \A a \in Approvals : job[k].approval = a => worker[w].result = Outcome(approval[a].evidence)
      BY Zenon, <1>w, <2>0, <2>a DEF AttemptInv
    <3>5. MovesOn(w, "publishing", worker[w].result)
      BY Zenon, <2>0, <2>a, <3>1, <3>2, <3>3, <3>4 DEF MovesOn, Phases
    <3> QED
      BY Zenon, <3>5, MovingOn
  <2>2. CASE ~Publishable(w, k)
    <3>1. Leave(w)
      BY Zenon, <1>18, <2>2, <2>a DEF Publish
    <3> QED
      BY Zenon, <2>0, <3>1, Leaving
  <2> QED
    BY Zenon, <2>1, <2>2
<1>19. ASSUME NEW w \in Verifiers, CommitResult(w)
      PROVE  VInv'
  <2>a. PICK k \in Jobs : worker[w].job = k
    BY Zenon, <1>19, <1>w DEF CommitResult, AttemptInv
  <2>0. /\ worker[w].phase = "publishing" /\ Leave(w)
        /\ UNCHANGED <<revision, evidence, approval, asked>>
    BY Zenon, <1>19 DEF CommitResult
  <2>b. PICK a \in Approvals : job[k].approval = a
    BY Zenon, <1>r, <1>w, <2>0, <2>a DEF AttemptInv, RowInv
  <2>c. HoldsJob(w, k) /\ worker[w].result = Outcome(approval[a].evidence)
    BY Zenon, <1>w, <2>0, <2>a, <2>b DEF AttemptInv
  <2> DEFINE r == Ended(k, "succeeded", worker[w].result)
  <2>1. job' = [job EXCEPT ![k] = r]
    BY Zenon, <1>19, <2>a DEF CommitResult
  <2>2. /\ r \in JobRow /\ r.state = "succeeded" /\ r.code = worker[w].result /\ r.lease = "none"
        /\ r.approval = a
    BY <1>t, <2>b, <2>c, OutcomeType, RowTypes, RowFields DEF Settled, Codes
  <2>3. r.code # "attempt-limit" /\ r.code # "approval-expired"
    BY Zenon, <2>2, <2>c, OutcomeType
  <2> HIDE DEF r
  <2>4. Fit(k, r)
    BY Zenon, <2>2, <2>3, <2>b, <2>c DEF Fit, Settled
  <2> QED
    BY Zenon, <2>0, <2>1, <2>2, <2>4, <2>c, Settling
<1>20. ASSUME NEW w \in Verifiers, Shutdown(w)
      PROVE  VInv'
  <2>a. PICK k \in Jobs : worker[w].job = k
    BY Zenon, <1>20, <1>w DEF Shutdown, AttemptInv
  <2>0. /\ worker[w].phase # "idle" /\ Leave(w)
        /\ UNCHANGED <<revision, evidence, approval, asked>>
        /\ job' = job \/ (HoldsJob(w, k) /\ job' = [job EXCEPT ![k] = Queued(k, "yes")])
    BY Zenon, <1>20, <2>a DEF Shutdown
  <2>1. CASE job' = job
    BY Zenon, <2>0, <2>1, Leaving
  <2>2. CASE HoldsJob(w, k) /\ job' = [job EXCEPT ![k] = Queued(k, "yes")]
    BY Zenon, <2>0, <2>2, GivingBack
  <2> QED
    BY Zenon, <2>0, <2>1, <2>2
<1>21. ASSUME NEW w \in Verifiers, Crash(w)
      PROVE  VInv'
  BY Zenon, <1>21, Leaving DEF Crash
<1> QED
  BY Zenon, <1>1, <1>2, <1>3, <1>4, <1>5, <1>6, <1>7, <1>8, <1>9, <1>10, <1>11, <1>12, <1>13, <1>14, <1>15, <1>16, <1>17, <1>18, <1>19, <1>20, <1>21
     DEF VerificationNext, Api, Work, Trouble

\* The invariant holds in every reachable state.
LEMMA AlwaysVInv ==
  ASSUME MaxAttempts \in Nat
  PROVE  VerificationSpec => []VInv
<1>1. VerificationInit => VInv
  BY Zenon, InitVInv
<1>2. VInv /\ [VerificationNext]_verificationVars => VInv'
  BY Zenon, NextVInv
<1> QED
  BY <1>1, <1>2, PTL DEF VerificationSpec

-----------------------------------------------------------------------------
\* The reported ending is what happened (Verify, verificationPolicyOutcome,
\* failExhausted), for any number of workers, approvals and jobs.
THEOREM EndingHonest ==
  ASSUME MaxAttempts \in Nat
  PROVE  VerificationSpec => []EndingIsHonest
<1>1. VInv => EndingIsHonest
  <2> SUFFICES ASSUME VInv, NEW j \in Jobs
               PROVE  LET a == approval[job[j].approval] IN
                      /\ job[j].state = "succeeded" => job[j].code = Outcome(a.evidence) /\ a.rev = evidence[a.evidence]
                      /\ job[j].state = "cancelled" => a.state = "revoked"
                      /\ job[j].code = "approval-expired" => a.expired = "yes"
                      /\ job[j].code = "attempt-limit" => job[j].attempts = MaxAttempts
    BY Zenon DEF EndingIsHonest
  <2>1. RowInv(j) /\ Ending(j)
    BY Zenon DEF VInv
  <2>2. CASE job[j].state = "absent"
    BY Zenon, <2>1, <2>2 DEF RowInv
  <2>3. CASE job[j].state # "absent"
    <3>1. PICK b \in Approvals : job[j].approval = b
      BY Zenon, <2>1, <2>3 DEF RowInv
    <3>2. evidence[approval[b].evidence] = approval[b].rev
      BY Zenon, <2>1, <2>3, <3>1 DEF VInv, RowInv, ApprovalInv
    <3> QED
      BY Zenon, <2>1, <3>1, <3>2 DEF Ending
  <2> QED
    BY Zenon, <2>2, <2>3
<1>2. VerificationSpec => []VInv
  BY Zenon, AlwaysVInv
<1> QED
  BY <1>1, <1>2, PTL

-----------------------------------------------------------------------------
\* One step of RevocationEndsWork.
Lawful ==
    \A j \in Jobs :
        /\ job'[j].state = "succeeded" /\ job[j].state # "succeeded"
             => approval[job[j].approval].state = "granted"
        /\ job[j].state \in Settled => job'[j] = job[j]

\* A step that rewrites row k, which has not ended, as r.
Rewrites(k, r) ==
    /\ job' = [job EXCEPT ![k] = r]
    /\ job[k].state \notin Settled
    /\ r.state = "succeeded" => approval[job[k].approval].state = "granted"

LEMMA RewritesLawful == ASSUME Typed, NEW k \in Jobs, NEW r, Rewrites(k, r) PROVE Lawful
<1> SUFFICES ASSUME NEW j \in Jobs
             PROVE  /\ job'[j].state = "succeeded" /\ job[j].state # "succeeded"
                         => approval[job[j].approval].state = "granted"
                    /\ job[j].state \in Settled => job'[j] = job[j]
  BY Zenon DEF Lawful
<1>1. job'[k] = r /\ (j # k => job'[j] = job[j])
  BY Zenon DEF Typed, Rewrites
<1> QED
  BY Zenon, <1>1 DEF Rewrites

\* Every step that changes a row found it unfinished, and only a worker inside
\* its publishing transaction records a result.
LEMMA StepLawful == VInv /\ [VerificationNext]_verificationVars => Lawful
<1> SUFFICES ASSUME VInv, [VerificationNext]_verificationVars PROVE Lawful
  BY Zenon
<1>t. Typed /\ \A k \in Jobs : job[k] \in JobRow
  BY Zenon DEF VInv, Typed
<1>r. \A k \in Jobs : RowInv(k)
  BY Zenon DEF VInv
<1>w. \A w \in Verifiers : AttemptInv(w)
  BY Zenon DEF VInv
<1>h. \A w \in Verifiers, k \in Jobs : HoldsJob(w, k) => job[k].state \notin Settled
  BY Zenon DEF HoldsJob, Settled
<1>1. CASE job' = job
  BY Zenon, <1>1 DEF Lawful
<1>2. ASSUME NEW a \in Approvals, Revoke(a) PROVE Lawful
  <2>1. ASSUME NEW j \in Jobs
        PROVE  /\ job'[j].state = "succeeded" => job[j].state = "succeeded"
               /\ job[j].state \in Settled => job'[j] = job[j]
    <3>1. CASE job[j].approval = a /\ job[j].state \in Active
      <4> DEFINE r == Ended(j, "cancelled", "approval-revoked")
      <4>1. r.state = "cancelled" /\ r \in JobRow
        BY <1>t, RowFields, RowTypes DEF Settled, Codes
      <4>2. job'[j] = [r EXCEPT !.fence = job[j].fence + 1]
        BY Zenon, <1>2, <3>1 DEF Revoke
      <4> HIDE DEF r
      <4> QED
        BY Zenon, <3>1, <4>1, <4>2 DEF JobRow, Active, Settled
    <3>2. CASE ~(job[j].approval = a /\ job[j].state \in Active)
      BY Zenon, <1>2, <3>2 DEF Revoke
    <3> QED
      BY Zenon, <3>1, <3>2
  <2> QED
    BY Zenon, <2>1 DEF Lawful
<1>3. ASSUME NEW k \in Jobs, NEW a \in Approvals, InsertJob(k, a) PROVE Lawful
  <2> DEFINE r == [NoJob EXCEPT !.state = "queued", !.approval = a, !.rev = approval[a].rev]
  <2>1. r.state = "queued"
    BY Zenon DEF NoJob
  <2>2. job' = job \/ (job[k].state = "absent" /\ job' = [job EXCEPT ![k] = r])
    BY Zenon, <1>3 DEF InsertJob
  <2> HIDE DEF r
  <2>3. job' = job \/ Rewrites(k, r)
    BY Zenon, <2>1, <2>2 DEF Rewrites, Settled
  <2> QED
    BY Zenon, <1>1, <1>t, <2>3, RewritesLawful
<1>4. ASSUME NEW k \in Jobs, ExpireLease(k) \/ Ripen(k) PROVE Lawful
  <2>1. job[k].state \in Active
    BY Zenon, <1>4, <1>r DEF ExpireLease, Ripen, RowInv, Active
  <2>2. PICK r : job' = [job EXCEPT ![k] = r] /\ r.state = job[k].state
    BY <1>4, <1>t DEF ExpireLease, Ripen, JobRow
  <2>3. Rewrites(k, r)
    BY Zenon, <2>1, <2>2 DEF Rewrites, Active, Settled
  <2> QED
    BY Zenon, <1>t, <2>3, RewritesLawful
<1>5. ASSUME NEW w \in Verifiers, FailExhausted(w) PROVE Lawful
  <2>1. ASSUME NEW j \in Jobs
        PROVE  /\ job'[j].state = "succeeded" => job[j].state = "succeeded"
               /\ job[j].state \in Settled => job'[j] = job[j]
    <3>1. /\ Overspent(j) => job'[j] = Ended(j, "failed", "attempt-limit")
          /\ ~Overspent(j) => job'[j] = job[j]
      BY Zenon, <1>5 DEF FailExhausted
    <3>2. Overspent(j) => job[j].state = "processing"
      BY Zenon DEF Overspent
    <3>3. Ended(j, "failed", "attempt-limit").state = "failed"
      BY <1>t, RowFields
    <3> QED
      BY Zenon, <3>1, <3>2, <3>3 DEF Settled
  <2> QED
    BY Zenon, <2>1 DEF Lawful
<1>6. ASSUME NEW w \in Verifiers, NEW k \in Jobs, ClaimVerification(w, k) PROVE Lawful
  <2> DEFINE r == [job[k] EXCEPT !.state = "processing", !.owner = w, !.lease = "live",
                                 !.fence = @ + 1, !.attempts = @ + 1]
  <2>a. r.state = "processing"
    BY Zenon, <1>t DEF JobRow
  <2>1. job' = [job EXCEPT ![k] = r] /\ r.state = "processing"
    BY Zenon, <1>6, <1>t, <2>a DEF ClaimVerification, Typed
  <2> HIDE DEF r
  <2>2. job[k].state \notin Settled
    BY Zenon, <1>6 DEF ClaimVerification, VerificationClaimable, Settled
  <2>3. Rewrites(k, r)
    BY Zenon, <2>1, <2>2 DEF Rewrites
  <2> QED
    BY Zenon, <1>t, <2>3, RewritesLawful
<1>7. ASSUME NEW w \in Verifiers, NEW failed \in BOOLEAN, SettleRefused(w, failed) PROVE Lawful
  <2>1. PICK k \in Jobs : worker[w].job = k
    BY Zenon, <1>7, <1>w DEF SettleRefused, AttemptInv
  <2> DEFINE o == PolicyOutcome(k, failed)
             r == Ended(k, o[1], o[2])
  <2>2. o[1] # "succeeded"
    BY Zenon DEF PolicyOutcome
  <2>4. job' = job \/ (HoldsJob(w, k) /\ job' = [job EXCEPT ![k] = r])
    BY Zenon, <1>7, <2>1 DEF SettleRefused
  <2> HIDE DEF o
  <2>3. r.state = o[1]
    BY <1>t, RowFields
  <2> HIDE DEF r
  <2>5. HoldsJob(w, k) /\ job' = [job EXCEPT ![k] = r] => Rewrites(k, r)
    BY Zenon, <1>h, <2>2, <2>3 DEF Rewrites
  <2> QED
    BY Zenon, <1>1, <1>t, <2>4, <2>5, RewritesLawful
<1>8. ASSUME NEW w \in Verifiers, SettleFailing(w) \/ Shutdown(w) PROVE Lawful
  <2>1. PICK k \in Jobs : worker[w].job = k
    BY Zenon, <1>8, <1>w DEF SettleFailing, Shutdown, AttemptInv
  <2>2. \/ job' = job
        \/ HoldsJob(w, k) /\ \E code : job' = [job EXCEPT ![k] = Ended(k, "failed", code)]
        \/ HoldsJob(w, k) /\ \E ready : job' = [job EXCEPT ![k] = Queued(k, ready)]
    <3>1. CASE SettleFailing(w)
      BY Zenon, <2>1, <3>1 DEF SettleFailing
    <3>2. CASE Shutdown(w)
      BY Zenon, <2>1, <3>2 DEF Shutdown
    <3> QED
      BY Zenon, <1>8, <3>1, <3>2
  <2>3. /\ \A code : Ended(k, "failed", code).state = "failed"
        /\ \A ready : Queued(k, ready).state = "queued"
    BY <1>t, RowFields
  <2>4. job' = job \/ \E r : Rewrites(k, r)
    <3>1. ASSUME HoldsJob(w, k), NEW r, job' = [job EXCEPT ![k] = r], r.state # "succeeded"
          PROVE  Rewrites(k, r)
      BY Zenon, <1>h, <3>1 DEF Rewrites
    <3> QED
      BY Zenon, <2>2, <2>3, <3>1
  <2> QED
    BY Zenon, <1>1, <1>t, <2>4, RewritesLawful
<1>9. ASSUME NEW w \in Verifiers, CommitResult(w) PROVE Lawful
  <2>1. PICK k \in Jobs : worker[w].job = k
    BY Zenon, <1>9, <1>w DEF CommitResult, AttemptInv
  <2>2. worker[w].phase = "publishing" /\ job[k].state # "absent" /\ HoldsJob(w, k)
    BY Zenon, <1>9, <1>w, <2>1 DEF CommitResult, AttemptInv
  <2>3. PICK a \in Approvals : job[k].approval = a
    BY Zenon, <1>r, <2>2 DEF RowInv
  <2>4. approval[a].state = "granted"
    BY Zenon, <1>w, <2>1, <2>2, <2>3 DEF AttemptInv
  <2>5. PICK r : job' = [job EXCEPT ![k] = r]
    BY Zenon, <1>9, <2>1 DEF CommitResult
  <2>6. Rewrites(k, r)
    BY Zenon, <1>h, <2>2, <2>3, <2>4, <2>5 DEF Rewrites
  <2> QED
    BY Zenon, <1>t, <2>6, RewritesLawful
<1>10. ASSUME \/ ChangeEvidence
              \/ \E e \in Evidence : Submit(e)
              \/ \E a \in Approvals, e \in Evidence : Approve(a, e)
              \/ \E k \in Jobs, a \in Approvals : AskJob(k, a)
              \/ \E a \in Approvals : ExpireApproval(a)
              \/ \E w \in Verifiers : \/ Authorize(w) \/ Evaluate(w) \/ Publish(w) \/ Crash(w)
                                    \/ LookupFails(w)
                                    \/ \E cause \in Damage \cup {"error"} : ReadFails(w, cause)
       PROVE  job' = job
  BY Zenon, <1>10 DEF ChangeEvidence, Submit, Approve, AskJob, ExpireApproval, Authorize, Evaluate,
               Publish, Crash, LookupFails, ReadFails
<1>11. UNCHANGED verificationVars => job' = job
  BY Zenon DEF verificationVars
<1> QED
  BY Zenon, <1>1, <1>2, <1>3, <1>4, <1>5, <1>6, <1>7, <1>8, <1>9, <1>10, <1>11
     DEF VerificationNext, Api, Work, Trouble

\* A result is committed only while its approval stands, and nothing rewrites a
\* job that has ended (revokeVerificationApproval, publishVerificationSuccess,
\* settleVerificationFailure), for any number of workers, approvals and jobs.
THEOREM RevocationEnds ==
  ASSUME MaxAttempts \in Nat
  PROVE  VerificationSpec => RevocationEndsWork
<1>1. VInv /\ [VerificationNext]_verificationVars => [Lawful]_verificationVars
  BY Zenon, StepLawful
<1>2. VerificationSpec => []VInv
  BY Zenon, AlwaysVInv
<1>3. VerificationSpec => [][Lawful]_verificationVars
  BY <1>1, <1>2, PTL DEF VerificationSpec
<1> QED
  BY Zenon, <1>3 DEF RevocationEndsWork, Lawful

-----------------------------------------------------------------------------
(* JobQueue: the grants of a job *)

INSTANCE FiniteSetTheorems

\* The leases that were granted for a job are as many as its attempts.
GrantsOf(k) == {t \in leases : t.job = k}

GrantsCounted ==
  \A k \in Keys : IsFiniteSet(GrantsOf(k)) /\ Cardinality(GrantsOf(k)) = jobs[k].attempts

\* Only Claim adds an attempt, and only to the job it grants.
LEMMA AttemptsStep ==
  ASSUME TypeOK, GrantsBelowFence, [Next]_jobVars, NEW j \in Keys,
         \A w \in Workers : ~Claim(w, j)
  PROVE  jobs'[j].attempts = jobs[j].attempts /\ GrantsOf(j)' = GrantsOf(j)
<1> USE JobConstants
<1>j. jobs \in [Keys -> Row] /\ jobs[j] \in Row
  BY Zenon DEF TypeOK
<1>1. ASSUME NEW w \in Workers, NEW k \in Keys, NEW e \in Envelopes, Enqueue(w, k, e)
      PROVE  jobs'[j].attempts = jobs[j].attempts /\ leases' = leases
  <2>1. leases' = leases
    BY Zenon, <1>1 DEF Enqueue
  <2>2. RowStep(j) /\ (jobs[j].state = "absent" => jobs[j].attempts = 0)
    BY Zenon, EveryRowStep DEF GrantsBelowFence
  <2>3. jobs'[j] = jobs[j] \/ (jobs[j].state = "absent" /\ jobs'[j] = RowIn("queued", e))
    BY Zenon, <1>1, <1>j DEF Enqueue
  <2>4. RowIn("queued", e).attempts = 0
    BY Zenon DEF RowIn
  <2> QED
    BY Zenon, <2>1, <2>2, <2>3, <2>4
<1>2. ASSUME NEW w \in Workers, NEW k \in Keys, Claim(w, k)
      PROVE  jobs'[j].attempts = jobs[j].attempts /\ GrantsOf(j)' = GrantsOf(j)
  <2>1. j # k
    BY Zenon, <1>2
  <2>2. jobs'[j] = Swept(w, Home[k])[j] /\ Home[k] \in Workspaces
    BY Zenon, <2>1, <1>2, SweptType DEF Claim
  <2>3. leases' = leases \cup {[job |-> k, worker |-> w, fence |-> jobs[k].fence + 1]}
    BY Zenon, <1>2 DEF Claim
  <2>4. GrantsOf(j)' = GrantsOf(j)
    BY <2>1, <2>3 DEF GrantsOf
  <2> QED
    BY <2>2, <2>4, SweptRow
<1>3. ASSUME NEW w \in Workers, NEW ws \in Workspaces, ClaimNothing(w, ws)
      PROVE  jobs'[j].attempts = jobs[j].attempts /\ leases' = leases
  BY <1>3, SweptRow DEF ClaimNothing
<1>4. ASSUME NEW t \in leases, NEW answered \in BOOLEAN, Complete(t, answered)
      PROVE  jobs'[j].attempts = jobs[j].attempts /\ leases' = leases
  BY Zenon, <1>4, <1>j DEF Complete, Row
<1>5. ASSUME NEW t \in leases, NEW retryable \in BOOLEAN, NEW answered \in BOOLEAN,
             Fail(t, retryable, answered)
      PROVE  jobs'[j].attempts = jobs[j].attempts /\ leases' = leases
  BY Zenon, <1>5, <1>j DEF Fail, Row
<1>6. ASSUME NEW k \in Keys, LeaseExpires(k) \/ BackoffEnds(k)
      PROVE  jobs'[j].attempts = jobs[j].attempts /\ leases' = leases
  <2>1. CASE LeaseExpires(k)
    BY Zenon, <2>1, <1>j DEF LeaseExpires, Row
  <2>2. CASE BackoffEnds(k)
    BY Zenon, <2>2, <1>j DEF BackoffEnds, Row
  <2> QED
    BY Zenon, <1>6, <2>1, <2>2
<1>7. ASSUME NEW t \in leases, Heartbeat(t) \/ CompleteReplay(t) \/ CompleteRefused(t)
      PROVE  jobs'[j].attempts = jobs[j].attempts /\ leases' = leases
  BY Zenon, <1>7 DEF Heartbeat, CompleteReplay, CompleteRefused, jobVars
<1>8. CASE UNCHANGED jobVars
  BY Zenon, <1>8 DEF jobVars, GrantsOf
<1>9. leases' = leases => GrantsOf(j)' = GrantsOf(j)
  BY Zenon DEF GrantsOf
<1> QED
  BY Zenon, <1>1, <1>2, <1>3, <1>4, <1>5, <1>6, <1>7, <1>8, <1>9 DEF Next

\* A grant adds one lease, of a fence no earlier lease of the job has, and one
\* attempt.
LEMMA CountInductive == IInv /\ GrantsCounted /\ [Next]_jobVars => GrantsCounted'
<1> SUFFICES ASSUME IInv, GrantsCounted, [Next]_jobVars, NEW k \in Keys
             PROVE  IsFiniteSet(GrantsOf(k)') /\ Cardinality(GrantsOf(k)') = jobs'[k].attempts
  BY Zenon DEF GrantsCounted
<1>t. TypeOK /\ GrantsBelowFence
  BY Zenon DEF IInv
<1>c. IsFiniteSet(GrantsOf(k)) /\ Cardinality(GrantsOf(k)) = jobs[k].attempts
  BY Zenon DEF GrantsCounted
<1>1. CASE \A w \in Workers : ~Claim(w, k)
  <2>1. jobs'[k].attempts = jobs[k].attempts /\ GrantsOf(k)' = GrantsOf(k)
    BY Zenon, <1>1, <1>t, AttemptsStep
  <2> QED
    BY Zenon, <2>1, <1>c
<1>2. ASSUME NEW w \in Workers, Claim(w, k)
      PROVE  IsFiniteSet(GrantsOf(k)') /\ Cardinality(GrantsOf(k)') = jobs'[k].attempts
  <2> DEFINE new == [job |-> k, worker |-> w, fence |-> jobs[k].fence + 1]
  <2>1. leases' = leases \cup {new} /\ new.job = k /\ new.fence = jobs[k].fence + 1
    BY Zenon, <1>2 DEF Claim
  <2> HIDE DEF new
  <2>2. GrantsOf(k)' = GrantsOf(k) \cup {new}
    BY Zenon, <2>1 DEF GrantsOf
  <2>3. jobs[k].fence \in Nat /\ jobs[k] \in Row
    BY Zenon, <1>t DEF TypeOK, Row
  <2>4. new \notin GrantsOf(k)
    BY <1>t, <2>1, <2>3 DEF GrantsOf, GrantsBelowFence
  <2> DEFINE row == [jobs[k] EXCEPT !.state = "leased", !.attempts = @ + 1,
                       !.fence = @ + 1, !.worker = w, !.lease = "live"]
  <2>5. jobs'[k] = row
    BY Zenon, <1>2, <1>t, SweptType, JobConstants DEF Claim
  <2>6. row.attempts = jobs[k].attempts + 1
    BY Zenon, <2>3 DEF Row
  <2> HIDE DEF row
  <2> QED
    BY SMTT(20), <2>2, <2>4, <2>5, <2>6, <1>c, FS_AddElement
<1> QED
  BY Zenon, <1>1, <1>2

\* Whatever limits the processes are configured with, and however leases expire
\* and jobs fail, a job is granted at most Envelope.MaxAttempts times and counts
\* each grant once.
THEOREM GrantsBounded == Spec => []GrantsWithinBudget
<1>1. IInv /\ [Next]_jobVars => IInv'
  BY Zenon, TypeInductive, GrantsInductive, AnswersInductive DEF IInv
<1>2. Init => GrantsCounted
  <2> SUFFICES ASSUME Init, NEW k \in Keys
               PROVE  IsFiniteSet(GrantsOf(k)) /\ Cardinality(GrantsOf(k)) = jobs[k].attempts
    BY Zenon DEF GrantsCounted
  <2>1. GrantsOf(k) = {}
    BY Zenon DEF Init, GrantsOf
  <2>2. jobs[k].attempts = 0
    BY Zenon DEF Init, AbsentRow, RowIn
  <2> QED
    BY Zenon, <2>1, <2>2, FS_EmptySet
<1>3. IInv /\ GrantsCounted => GrantsWithinBudget
  BY Zenon DEF IInv, GrantsBelowFence, GrantsCounted, GrantsOf, GrantsWithinBudget
<1> QED
  BY InitIInv, <1>1, <1>2, <1>3, CountInductive, PTL DEF Spec
=============================================================================
