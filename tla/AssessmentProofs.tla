-------------------------- MODULE AssessmentProofs --------------------------
(***************************************************************************)
(* Proofs about Assessment for any number of workers, jobs, previews and     *)
(* grants, and any limits of the pool.                                       *)
(*                                                                         *)
(* The argument: a job is admitted once, because no step leads back to       *)
(* "queued"; so at most one attempt of it is ever in flight.  Its POST leaves *)
(* before anything else can be known about it, and the reservation of a busy  *)
(* attempt is given back by nobody else, so that busy attempts are at most as *)
(* many as the reservations the admission counted.                           *)
(***************************************************************************)
EXTENDS Assessment, TLAPS

Phases == {"closed", "idle", "retiring", "claiming"} \cup InFlight

Sent == {"not-started", "possibly-sent", "response-received"}

JobRow ==
    [state : {"none", "queued", "dispatching"} \cup Settled, preview : Previews \cup {None},
     sent : Sent, fence : Nat, owner : Workers \cup {None}, lease : {"none", "live", "expired"},
     io : {"none", "held", "free"}, window : {"none", "in", "out"}]

Attempt ==
    [phase : Phases, job : Jobs \cup {0}, fence : Nat, cut : {"no", "yes"},
     got : {"nothing", "answer"}]

Typed ==
    /\ job \in [Jobs -> JobRow]
    /\ worker \in [Workers -> Attempt]
    /\ posts \in [Jobs -> Nat]
    /\ quota \in [concurrent : Nat, requests : Nat]

\* What a row tells about the one POST of its job.
RowInv(j) ==
    /\ posts[j] \in {0, 1}
    /\ job[j].state \in {"none", "queued"} => job[j].sent = "not-started"
    /\ job[j].state = "dispatching" => job[j].sent = "possibly-sent"
    /\ job[j].sent = "not-started" => posts[j] = 0
    /\ job[j].sent = "response-received" => posts[j] = 1

\* What is known about the attempt a worker has in hand.
AttemptInv(w) ==
    LET m == worker[w] IN
    /\ m.phase \notin {"closed", "idle"} => m.job \in Jobs
    /\ m.phase \notin {"returned", "released"} => m.got = "nothing"
    /\ m.phase \in InFlight => job[m.job].state \notin {"none", "queued"}
    /\ m.phase = "claimed" => posts[m.job] = 0
    /\ m.phase = "posting" \/ m.got = "answer" => posts[m.job] = 1
    /\ w \in Busy => job[m.job].io = "held"

OneAttempt ==
    \A v, w \in Workers :
        /\ worker[v].phase \in InFlight /\ worker[w].phase \in InFlight
        /\ worker[v].job = worker[w].job
        => v = w

AInv ==
    /\ Typed
    /\ \A j \in Jobs : RowInv(j)
    /\ \A w \in Workers : AttemptInv(w)
    /\ OneAttempt

\* The reservations never exceed what the pool was registered with.
PoolInv == Cardinality(Active) <= quota.concurrent

-----------------------------------------------------------------------------
\* Before any worker has registered nothing is queued or in flight.
LEMMA InitAInv == Init => AInv
<1> SUFFICES ASSUME Init PROVE AInv
  BY Zenon
<1> USE AssessmentConstants DEF Init, NoJob, NoLimits, Closed, InFlight
<1>1. Typed
  BY Zenon DEF Typed, JobRow, Attempt, Sent, Phases, Settled
<1>2. \A j \in Jobs : RowInv(j)
  BY Zenon DEF RowInv
<1>3. (\A w \in Workers : AttemptInv(w)) /\ OneAttempt
  BY Zenon DEF AttemptInv, OneAttempt, Busy
<1> QED
  BY Zenon, <1>1, <1>2, <1>3 DEF AInv

\* A settled row, and an idle worker, have their types.
LEMMA SettleTyped ==
  /\ \A r \in JobRow, state \in Settled, sent \in Sent : Settle(r, state, sent) \in JobRow
  /\ Idle \in Attempt
<1>1. ASSUME NEW r \in JobRow, NEW state \in Settled, NEW sent \in Sent
      PROVE  Settle(r, state, sent) \in JobRow
  <2>1. r.fence + 1 \in Nat
    BY DEF JobRow
  <2> QED
    BY Zenon, <2>1 DEF JobRow, Settle
<1>2. Idle \in Attempt
  BY Zenon DEF Idle, Closed, Attempt, Phases
<1> QED
  BY Zenon, <1>1, <1>2

\* Every step of the API, the workers and the clock preserves the invariant.
LEMMA NextAInv == AInv /\ [Next]_vars => AInv'
<1> SUFFICES ASSUME AInv, [Next]_vars PROVE AInv'
  BY Zenon
<1> USE DEF AInv
<1>a. Jobs \subseteq Nat \ {0}
  BY AssessmentConstants DEF Jobs
<1> USE <1>a
<1>1. CASE UNCHANGED <<job, worker, posts, quota>>
  BY Zenon, <1>1 DEF Typed, JobRow, Attempt, RowInv, AttemptInv, OneAttempt, Busy
<1>2. ASSUME NEW j \in Jobs, NEW p \in Previews, EnqueueAssessment(j, p)
      PROVE  AInv'
  <2>1. Typed'
    <3>1. [NoJob EXCEPT !.state = "queued", !.preview = p] \in JobRow
      BY Zenon DEF NoJob, JobRow, Sent
    <3> QED
      BY Zenon, <1>2, <3>1 DEF EnqueueAssessment, Typed
  <2>2. \A k \in Jobs : RowInv(k)'
    BY <1>2 DEF EnqueueAssessment, NoJob, Typed, JobRow, Attempt, RowInv, AttemptInv, InFlight
  <2>3. ASSUME NEW v \in Workers PROVE AttemptInv(v)'
    BY <1>2, <2>3 DEF EnqueueAssessment, NoJob, Typed, JobRow, Attempt, RowInv, AttemptInv, Busy, InFlight, OneAttempt
  <2>4. OneAttempt'
    BY <1>2 DEF EnqueueAssessment, NoJob, Typed, JobRow, Attempt, AttemptInv, OneAttempt, InFlight
  <2> QED
    BY Zenon, <2>1, <2>2, <2>3, <2>4
<1>3. ASSUME NEW j \in Jobs, CancelAssessment(j)
      PROVE  AInv'
  <2>1. Typed'
    BY <1>3, SettleTyped DEF CancelAssessment, Settled, Sent, Typed, JobRow
  <2>2. \A k \in Jobs : RowInv(k)'
    BY <1>3 DEF CancelAssessment, Settle, Settled, Typed, JobRow, Attempt, RowInv, AttemptInv, InFlight
  <2>3. ASSUME NEW v \in Workers PROVE AttemptInv(v)'
    BY <1>3, <2>3 DEF CancelAssessment, Settle, Settled, Typed, JobRow, Attempt, RowInv, AttemptInv, Busy, InFlight, OneAttempt
  <2>4. OneAttempt'
    BY <1>3 DEF CancelAssessment, Settle, Settled, Typed, JobRow, Attempt, AttemptInv, OneAttempt, InFlight
  <2> QED
    BY Zenon, <2>1, <2>2, <2>3, <2>4
<1>4. ASSUME NEW j \in Jobs, Clock(j)
      PROVE  AInv'
  <2>1. Typed'
    <3>1. job[j] \in JobRow
      BY Zenon DEF Typed
    <3>2. /\ [job[j] EXCEPT !.lease = "expired"] \in JobRow
          /\ [job[j] EXCEPT !.io = "free"] \in JobRow
          /\ [job[j] EXCEPT !.window = "out"] \in JobRow
      BY Zenon, <3>1 DEF JobRow
    <3>3. job' \in [Jobs -> JobRow]
      BY Zenon, <1>4, <3>2 DEF Clock, LeaseExpires, DeadlinePasses, WindowPasses, Typed
    <3> QED
      BY Zenon, <1>4, <3>3 DEF Clock, LeaseExpires, DeadlinePasses, WindowPasses, Typed
  <2>2. \A k \in Jobs : RowInv(k)'
    BY <1>4 DEF Clock, LeaseExpires, DeadlinePasses, WindowPasses, Typed, JobRow, Attempt, RowInv, AttemptInv, InFlight
  <2>3. ASSUME NEW v \in Workers PROVE AttemptInv(v)'
    BY <1>4, <2>3 DEF Clock, LeaseExpires, DeadlinePasses, WindowPasses, Typed, JobRow, Attempt, RowInv, AttemptInv, Busy, InFlight, OneAttempt
  <2>4. OneAttempt'
    BY <1>4 DEF Clock, LeaseExpires, DeadlinePasses, WindowPasses, Typed, JobRow, Attempt, AttemptInv, OneAttempt, InFlight
  <2> QED
    BY Zenon, <2>1, <2>2, <2>3, <2>4
<1>5. ASSUME NEW w \in Workers, OpenWorker(w)
      PROVE  AInv'
  <2>1. Typed'
    BY Zenon, <1>5, SettleTyped, AssessmentConstants DEF OpenWorker, Typed, Attempt, Phases, InFlight
  <2>2. \A k \in Jobs : RowInv(k)'
    BY Zenon, <1>5 DEF OpenWorker, Idle, Closed, Typed, JobRow, Attempt, RowInv, AttemptInv, InFlight
  <2>3. ASSUME NEW v \in Workers PROVE AttemptInv(v)'
    BY <1>5, <2>3 DEF OpenWorker, Idle, Closed, Typed, JobRow, Attempt, RowInv, AttemptInv, Busy, InFlight, OneAttempt
  <2>4. OneAttempt'
    BY <1>5 DEF OpenWorker, Idle, Closed, Typed, JobRow, Attempt, AttemptInv, OneAttempt, InFlight
  <2> QED
    BY Zenon, <2>1, <2>2, <2>3, <2>4
<1>6. ASSUME NEW w \in Workers, Pick(w)
      PROVE  AInv'
  <2>0. PICK j \in Jobs :
          \/ worker' = [worker EXCEPT ![w] =
                [Idle EXCEPT !.phase = "retiring", !.job = j, !.fence = job[j].fence]]
          \/ worker' = [worker EXCEPT ![w] = [Idle EXCEPT !.phase = "claiming", !.job = j]]
    BY Zenon, <1>6 DEF Pick
  <2>1. PICK m \in Attempt : /\ worker' = [worker EXCEPT ![w] = m]
                           /\ m.phase \in {"retiring", "claiming"}
                           /\ m.job \in Jobs
                           /\ m.got = "nothing"
    <3> DEFINE n == [Idle EXCEPT !.phase = "retiring", !.job = j, !.fence = job[j].fence]
               q == [Idle EXCEPT !.phase = "claiming", !.job = j]
    <3>1. job[j].fence \in Nat
      BY Zenon DEF Typed, JobRow
    <3>2. n \in Attempt /\ n.phase = "retiring" /\ n.job \in Jobs /\ n.got = "nothing"
      BY Zenon, <3>1 DEF Idle, Closed, Attempt, Phases
    <3>3. q \in Attempt /\ q.phase = "claiming" /\ q.job \in Jobs /\ q.got = "nothing"
      BY Zenon DEF Idle, Closed, Attempt, Phases
    <3>4. worker' = [worker EXCEPT ![w] = n] \/ worker' = [worker EXCEPT ![w] = q]
      BY Zenon, <2>0
    <3> HIDE DEF n, q
    <3> QED
      BY Zenon, <3>2, <3>3, <3>4
  <2> UNCHANGED <<job, quota, posts>>
    BY Zenon, <1>6 DEF Pick
  <2>2. Typed'
    BY Zenon, <2>1 DEF Typed
  <2>3. \A k \in Jobs : RowInv(k)'
    BY Zenon DEF RowInv
  <2>4. ASSUME NEW v \in Workers PROVE AttemptInv(v)'
    BY Zenon, <2>1 DEF Typed, AttemptInv, Busy, InFlight
  <2>5. OneAttempt'
    BY Zenon, <2>1 DEF Typed, OneAttempt, InFlight
  <2> QED
    BY Zenon, <2>2, <2>3, <2>4, <2>5
<1>7. ASSUME NEW w \in Workers, Retire(w)
      PROVE  AInv'
  <2>1. Typed'
    <3>1. worker[w].job \in Jobs => Settle(job[worker[w].job], "uncertain", "possibly-sent") \in JobRow
      BY Zenon, SettleTyped DEF Typed, Settled, Sent
    <3> QED
      BY Zenon, <1>7, <3>1, SettleTyped DEF Retire, Typed, AttemptInv
  <2>2. \A k \in Jobs : RowInv(k)'
    BY <1>7 DEF Retire, Idle, Closed, Expired, Settle, Settled, Typed, JobRow, Attempt, RowInv, AttemptInv, InFlight
  <2>3. ASSUME NEW v \in Workers PROVE AttemptInv(v)'
    BY <1>7, <2>3 DEF Retire, Idle, Closed, Expired, Settle, Settled, Typed, JobRow, Attempt, RowInv, AttemptInv, Busy, InFlight, OneAttempt
  <2>4. OneAttempt'
    BY <1>7 DEF Retire, Idle, Closed, Expired, Settle, Settled, Typed, JobRow, Attempt, AttemptInv, OneAttempt, InFlight
  <2> QED
    BY Zenon, <2>1, <2>2, <2>3, <2>4
<1>8. ASSUME NEW w \in Workers, Deny(w)
      PROVE  AInv'
  <2>1. Typed'
    <3> DEFINE r == job[worker[w].job]
    <3>1. r \in JobRow /\ r.sent \in Sent
      BY Zenon, <1>8 DEF Deny, Typed, AttemptInv, JobRow
    <3>2. Settle(r, "failed", r.sent) \in JobRow /\ Settle(r, "invalidated", r.sent) \in JobRow
      BY Zenon, <3>1, SettleTyped DEF Settled
    <3> QED
      BY Zenon, <1>8, <3>2, SettleTyped DEF Deny, Typed
  <2>2. \A k \in Jobs : RowInv(k)'
    BY <1>8 DEF Deny, Idle, Closed, Settle, Settled, Typed, JobRow, Attempt, RowInv, AttemptInv, InFlight
  <2>3. ASSUME NEW v \in Workers PROVE AttemptInv(v)'
    BY <1>8, <2>3 DEF Deny, Idle, Closed, Settle, Settled, Typed, JobRow, Attempt, RowInv, AttemptInv, Busy, InFlight, OneAttempt
  <2>4. OneAttempt'
    BY <1>8 DEF Deny, Idle, Closed, Settle, Settled, Typed, JobRow, Attempt, AttemptInv, OneAttempt, InFlight
  <2> QED
    BY Zenon, <2>1, <2>2, <2>3, <2>4
<1>9. ASSUME NEW w \in Workers, Admit(w)
      PROVE  AInv'
  <2>1. Typed'
    <3>1. job' \in [Jobs -> JobRow]
      <4>1. worker[w].job \in Jobs /\ job[worker[w].job] \in JobRow
        BY Zenon, <1>9 DEF Admit, Typed, AttemptInv
      <4>2. job[worker[w].job].fence + 1 \in Nat
        BY <4>1 DEF JobRow
      <4>3. Dispatched(job[worker[w].job], w) \in JobRow
        BY ZenonT(30), <4>1, <4>2 DEF JobRow, Sent, Dispatched
      <4> QED
        BY Zenon, <1>9, <4>1, <4>3 DEF Admit, Typed
    <3>2. worker' \in [Workers -> Attempt]
      <4>1. job[worker[w].job].fence + 1 \in Nat
        BY <1>9 DEF Admit, Typed, JobRow, AttemptInv
      <4> QED
        <5>1. [worker[w] EXCEPT !.phase = "claimed", !.fence = job[worker[w].job].fence + 1] \in Attempt
          <6>1. worker[w] \in Attempt /\ "claimed" \in Phases
            BY Zenon DEF Typed, Phases, InFlight
          <6> QED
            BY Zenon, <4>1, <6>1 DEF Attempt
        <5> QED
          BY Zenon, <1>9, <5>1 DEF Admit, Typed
    <3> QED
      BY Zenon, <1>9, <3>1, <3>2 DEF Admit, Typed
  <2>2. \A k \in Jobs : RowInv(k)'
    BY <1>9 DEF Admit, Dispatched, Typed, JobRow, Attempt, RowInv, AttemptInv, InFlight
  <2>3. ASSUME NEW v \in Workers PROVE AttemptInv(v)'
    BY <1>9, <2>3 DEF Admit, Dispatched, Typed, JobRow, Attempt, RowInv, AttemptInv, Busy, InFlight, OneAttempt
  <2>4. OneAttempt'
    BY <1>9 DEF Admit, Dispatched, Typed, JobRow, Attempt, AttemptInv, OneAttempt, InFlight
  <2> QED
    BY Zenon, <2>1, <2>2, <2>3, <2>4
<1>10. ASSUME NEW w \in Workers, Skip(w)
      PROVE  AInv'
  <2>1. Typed'
    BY Zenon, <1>10, SettleTyped DEF Skip, Typed, Attempt, Phases, InFlight
  <2>2. \A k \in Jobs : RowInv(k)'
    BY <1>10 DEF Skip, Idle, Closed, Typed, JobRow, Attempt, RowInv, AttemptInv, InFlight
  <2>3. ASSUME NEW v \in Workers PROVE AttemptInv(v)'
    BY <1>10, <2>3 DEF Skip, Idle, Closed, Typed, JobRow, Attempt, RowInv, AttemptInv, Busy, InFlight, OneAttempt
  <2>4. OneAttempt'
    BY <1>10 DEF Skip, Idle, Closed, Typed, JobRow, Attempt, AttemptInv, OneAttempt, InFlight
  <2> QED
    BY Zenon, <2>1, <2>2, <2>3, <2>4
<1>11. ASSUME NEW w \in Workers, Post(w)
      PROVE  AInv'
  <2>1. Typed'
    BY <1>11 DEF Post, Owns, Typed, Attempt, Phases, InFlight, AttemptInv
  <2>2. \A k \in Jobs : RowInv(k)'
    BY <1>11 DEF Post, Owns, Typed, JobRow, Attempt, RowInv, AttemptInv, InFlight
  <2>3. ASSUME NEW v \in Workers PROVE AttemptInv(v)'
    BY <1>11, <2>3 DEF Post, Owns, Typed, JobRow, Attempt, RowInv, AttemptInv, Busy, InFlight, OneAttempt
  <2>4. OneAttempt'
    BY <1>11 DEF Post, Owns, Typed, JobRow, Attempt, AttemptInv, OneAttempt, InFlight
  <2> QED
    BY Zenon, <2>1, <2>2, <2>3, <2>4
<1>12. ASSUME NEW w \in Workers, RefreshFails(w)
      PROVE  AInv'
  <2>1. Typed'
    BY <1>12 DEF RefreshFails, Typed, Attempt, Phases, InFlight
  <2>2. \A k \in Jobs : RowInv(k)'
    BY <1>12 DEF RefreshFails, Typed, JobRow, Attempt, RowInv, AttemptInv, InFlight
  <2>3. ASSUME NEW v \in Workers PROVE AttemptInv(v)'
    BY <1>12, <2>3 DEF RefreshFails, Typed, JobRow, Attempt, RowInv, AttemptInv, Busy, InFlight, OneAttempt
  <2>4. OneAttempt'
    BY <1>12 DEF RefreshFails, Typed, JobRow, Attempt, AttemptInv, OneAttempt, InFlight
  <2> QED
    BY Zenon, <2>1, <2>2, <2>3, <2>4
<1>13. ASSUME NEW w \in Workers, NEW got \in {"nothing", "answer"}, Respond(w, got)
      PROVE  AInv'
  <2>1. Typed'
    <3>1. worker' \in [Workers -> Attempt]
      <4>1. [worker[w] EXCEPT !.phase = "returned", !.got = got] \in Attempt
        <5>1. worker[w] \in Attempt /\ "returned" \in Phases
          BY Zenon DEF Typed, Phases, InFlight
        <5> QED
          BY Zenon, <5>1 DEF Attempt
      <4> QED
        BY Zenon, <1>13, <4>1 DEF Respond, Typed
    <3> QED
      BY Zenon, <1>13, <3>1 DEF Respond, Typed
  <2>2. \A k \in Jobs : RowInv(k)'
    BY Zenon, <1>13 DEF Respond, Typed, JobRow, Attempt, RowInv, AttemptInv, InFlight
  <2>3. ASSUME NEW v \in Workers PROVE AttemptInv(v)'
    BY <1>13, <2>3 DEF Respond, Typed, JobRow, Attempt, RowInv, AttemptInv, Busy, InFlight, OneAttempt
  <2>4. OneAttempt'
    BY <1>13 DEF Respond, Typed, JobRow, Attempt, AttemptInv, OneAttempt, InFlight
  <2> QED
    BY Zenon, <2>1, <2>2, <2>3, <2>4
<1>14. ASSUME NEW w \in Workers, NEW acknowledged \in BOOLEAN, Release(w, acknowledged)
      PROVE  AInv'
  <2>1. Typed'
    <3>1. job' \in [Jobs -> JobRow]
      <4>1. [job[worker[w].job] EXCEPT !.io = "free"] \in JobRow
        <5>1. job[worker[w].job] \in JobRow
          BY Zenon, <1>14 DEF Release, Typed, AttemptInv
        <5> QED
          BY Zenon, <5>1 DEF JobRow
      <4> QED
        BY Zenon, <1>14, <4>1 DEF Release, Typed
    <3>2. worker' \in [Workers -> Attempt]
      BY <1>14 DEF Release, Typed, Attempt, Phases, InFlight
    <3> QED
      BY Zenon, <1>14, <3>1, <3>2 DEF Release, Typed
  <2>2. \A k \in Jobs : RowInv(k)'
    BY <1>14 DEF Release, Typed, JobRow, Attempt, RowInv, AttemptInv, InFlight
  <2>3. ASSUME NEW v \in Workers PROVE AttemptInv(v)'
    BY <1>14, <2>3 DEF Release, Typed, JobRow, Attempt, RowInv, AttemptInv, Busy, InFlight, OneAttempt
  <2>4. OneAttempt'
    BY <1>14 DEF Release, Typed, JobRow, Attempt, AttemptInv, OneAttempt, InFlight
  <2> QED
    BY Zenon, <2>1, <2>2, <2>3, <2>4
<1>15. ASSUME NEW w \in Workers, Finalize(w)
      PROVE  AInv'
  <2>1. Typed'
    <3>1. Outcomes(worker[w]) \subseteq Settled /\ "invalidated" \in Settled
      BY Zenon DEF Outcomes, Settled
    <3>2. worker[w].job \in Jobs /\ job[worker[w].job] \in JobRow
      BY Zenon, <1>15 DEF Finalize, Typed, AttemptInv
    <3>3. \A o \in Settled, sent \in Sent : Settle(job[worker[w].job], o, sent) \in JobRow
      BY Zenon, <3>2, SettleTyped
    <3> QED
      <4>1. PICK o \in Settled, sent \in Sent :
              job' = [job EXCEPT ![worker[w].job] = Settle(job[worker[w].job], o, sent)]
        BY Zenon, <1>15, <3>1 DEF Finalize, Sent
      <4> QED
        BY Zenon, <1>15, <3>2, <3>3, <4>1, SettleTyped DEF Finalize, Typed
  <2>2. \A k \in Jobs : RowInv(k)'
    BY <1>15 DEF Finalize, Owns, Settle, Settled, Idle, Closed, Outcomes, Typed, JobRow, Attempt, RowInv, AttemptInv, InFlight
  <2>3. ASSUME NEW v \in Workers PROVE AttemptInv(v)'
    BY <1>15, <2>3 DEF Finalize, Owns, Settle, Settled, Idle, Closed, Outcomes, Typed, JobRow, Attempt, RowInv, AttemptInv, Busy, InFlight, OneAttempt
  <2>4. OneAttempt'
    BY <1>15 DEF Finalize, Owns, Settle, Settled, Idle, Closed, Outcomes, Typed, JobRow, Attempt, AttemptInv, OneAttempt, InFlight
  <2> QED
    BY Zenon, <2>1, <2>2, <2>3, <2>4
<1>16. ASSUME NEW w \in Workers, FinalizeNothing(w)
      PROVE  AInv'
  <2>1. Typed'
    BY Zenon, <1>16, SettleTyped DEF FinalizeNothing, Typed, Attempt, Phases, InFlight
  <2>2. \A k \in Jobs : RowInv(k)'
    BY <1>16 DEF FinalizeNothing, Idle, Closed, Typed, JobRow, Attempt, RowInv, AttemptInv, InFlight
  <2>3. ASSUME NEW v \in Workers PROVE AttemptInv(v)'
    BY <1>16, <2>3 DEF FinalizeNothing, Idle, Closed, Typed, JobRow, Attempt, RowInv, AttemptInv, Busy, InFlight, OneAttempt
  <2>4. OneAttempt'
    BY <1>16 DEF FinalizeNothing, Idle, Closed, Typed, JobRow, Attempt, AttemptInv, OneAttempt, InFlight
  <2> QED
    BY Zenon, <2>1, <2>2, <2>3, <2>4
<1>17. ASSUME NEW w \in Workers, RefreshDenied(w)
      PROVE  AInv'
  <2>1. Typed'
    <3> DEFINE j == worker[w].job
               r == Settle(job[j], "invalidated", job[j].sent)
               m == IF worker[w].phase = "claimed" THEN [worker[w] EXCEPT !.phase = "returned"]
                    ELSE [worker[w] EXCEPT !.cut = "yes"]
    <3>1. j \in Jobs /\ worker[w] \in Attempt
      BY Zenon, <1>17 DEF RefreshDenied, AttemptInv, Typed
    <3>2. job[j] \in JobRow /\ job[j].sent \in Sent /\ "invalidated" \in Settled
      BY Zenon, <3>1 DEF Typed, JobRow, Settled
    <3>3. r \in JobRow
      BY Zenon, <3>2, SettleTyped
    <3>4. m \in Attempt
      <4>1. "returned" \in Phases
        BY Zenon DEF Phases, InFlight
      <4> QED
        BY Zenon, <3>1, <4>1 DEF Attempt
    <3>5. /\ job' = [job EXCEPT ![j] = r] /\ worker' = [worker EXCEPT ![w] = m]
          /\ UNCHANGED <<quota, posts>>
      BY Zenon, <1>17 DEF RefreshDenied
    <3> HIDE DEF r, m
    <3> QED
      BY Zenon, <3>1, <3>3, <3>4, <3>5 DEF Typed
  <2>2. \A k \in Jobs : RowInv(k)'
    BY <1>17 DEF RefreshDenied, Owns, Settle, Settled, Typed, JobRow, Attempt, RowInv, AttemptInv, InFlight
  <2>3. ASSUME NEW v \in Workers PROVE AttemptInv(v)'
    BY <1>17, <2>3 DEF RefreshDenied, Owns, Settle, Settled, Typed, JobRow, Attempt, RowInv, AttemptInv, Busy, InFlight, OneAttempt
  <2>4. OneAttempt'
    BY <1>17 DEF RefreshDenied, Owns, Settle, Settled, Typed, JobRow, Attempt, AttemptInv, OneAttempt, InFlight
  <2> QED
    BY Zenon, <2>1, <2>2, <2>3, <2>4
<1>18. ASSUME NEW w \in Workers, Cut(w)
      PROVE  AInv'
  <2>1. Typed'
    BY <1>18 DEF Cut, Typed, Attempt, Phases, InFlight
  <2>2. \A k \in Jobs : RowInv(k)'
    BY Zenon, <1>18 DEF Cut, Typed, JobRow, Attempt, RowInv, AttemptInv, InFlight
  <2>3. ASSUME NEW v \in Workers PROVE AttemptInv(v)'
    BY <1>18, <2>3 DEF Cut, Typed, JobRow, Attempt, RowInv, AttemptInv, Busy, InFlight, OneAttempt
  <2>4. OneAttempt'
    BY <1>18 DEF Cut, Typed, JobRow, Attempt, AttemptInv, OneAttempt, InFlight
  <2> QED
    BY Zenon, <2>1, <2>2, <2>3, <2>4
<1>19. ASSUME NEW w \in Workers, Crash(w)
      PROVE  AInv'
  <2>1. Typed'
    BY Zenon, <1>19, SettleTyped DEF Crash, Typed, Attempt, Phases, InFlight
  <2>2. \A k \in Jobs : RowInv(k)'
    BY Zenon, <1>19 DEF Crash, Idle, Closed, Typed, JobRow, Attempt, RowInv, AttemptInv, InFlight
  <2>3. ASSUME NEW v \in Workers PROVE AttemptInv(v)'
    BY <1>19, <2>3 DEF Crash, Idle, Closed, Typed, JobRow, Attempt, RowInv, AttemptInv, Busy, InFlight, OneAttempt
  <2>4. OneAttempt'
    BY <1>19 DEF Crash, Idle, Closed, Typed, JobRow, Attempt, AttemptInv, OneAttempt, InFlight
  <2> QED
    BY Zenon, <2>1, <2>2, <2>3, <2>4
<1> QED
  BY Zenon, <1>1, <1>2, <1>3, <1>4, <1>5, <1>6, <1>7, <1>8, <1>9, <1>10, <1>11, <1>12, <1>13, <1>14, <1>15, <1>16, <1>17, <1>18, <1>19
     DEF Next, vars, config, Configure, Request, Work, UpdateProfile, UpdatePolicy, CreateGrant,
         RevokeGrant, ChangeRole, ConsentExpires, CreatePreview

\* The invariant holds in every reachable state.
LEMMA AlwaysAInv == Spec => []AInv
  BY InitAInv, NextAInv, PTL DEF Spec

-----------------------------------------------------------------------------
(* Dispatch                                                                *)

\* No job is sent twice, and its row never understates what may have left
\* (claimAssessment, finalizeAssessment), for any number of workers and jobs.
THEOREM DispatchHonest == Spec => []DispatchIsHonest
<1>1. AInv => DispatchIsHonest
  BY DEF AInv, RowInv, DispatchIsHonest
<1> QED
  BY <1>1, AlwaysAInv, PTL

-----------------------------------------------------------------------------
(* Results                                                                 *)

\* One step of ResultsAreConsented.
Consented ==
    \A j \in Jobs :
        /\ job[j].state \in Settled =>
            job'[j].state = job[j].state /\ job'[j].sent = job[j].sent
        /\ job[j].state # "succeeded" /\ job'[j].state = "succeeded" =>
            job[j].state = "dispatching" /\ Authority(job[j].preview)

\* Every step that changes the state of a row found it queued or dispatching,
\* and only Finalize records a success.
LEMMA StepConsented == AInv /\ [Next]_vars => Consented
<1> SUFFICES ASSUME AInv, [Next]_vars PROVE Consented
  BY Zenon
<1> USE DEF AInv, Typed, AttemptInv, Consented, Settle, Settled
<1>1. CASE UNCHANGED job
  BY Zenon, <1>1
<1>2. ASSUME NEW j \in Jobs, NEW p \in Previews, EnqueueAssessment(j, p) PROVE Consented
  BY Zenon, <1>2 DEF EnqueueAssessment, NoJob
<1>3. ASSUME NEW j \in Jobs, CancelAssessment(j) PROVE Consented
  BY <1>3 DEF CancelAssessment, JobRow
<1>4. ASSUME NEW j \in Jobs, Clock(j) PROVE Consented
  BY <1>4 DEF Clock, LeaseExpires, DeadlinePasses, WindowPasses, JobRow
<1>5. ASSUME NEW w \in Workers, Retire(w) PROVE Consented
  BY <1>5 DEF Retire, Expired, JobRow
<1>6. ASSUME NEW w \in Workers, Deny(w) PROVE Consented
  BY <1>6 DEF Deny, JobRow
<1>7. ASSUME NEW w \in Workers, Admit(w) PROVE Consented
  BY <1>7 DEF Admit, Dispatched, JobRow
<1>8. ASSUME NEW w \in Workers, NEW acknowledged \in BOOLEAN, Release(w, acknowledged)
      PROVE  Consented
  BY <1>8 DEF Release, JobRow
<1>9. ASSUME NEW w \in Workers, Finalize(w) PROVE Consented
  BY <1>9 DEF Finalize, Owns, JobRow
<1>10. ASSUME NEW w \in Workers, RefreshDenied(w) PROVE Consented
  BY <1>10 DEF RefreshDenied, Owns, JobRow
<1>11. ASSUME NEW w \in Workers,
              OpenWorker(w) \/ Pick(w) \/ Skip(w) \/ Post(w) \/ RefreshFails(w)
                \/ FinalizeNothing(w) \/ Cut(w) \/ Crash(w)
                \/ \E got \in {"nothing", "answer"} : Respond(w, got)
       PROVE  UNCHANGED job
  BY Zenon, <1>11 DEF OpenWorker, Pick, Skip, Post, RefreshFails, FinalizeNothing, Cut, Crash, Respond
<1> HIDE DEF AInv, Typed, AttemptInv, Consented, Settle, Settled
<1> QED
  BY Zenon, <1>1, <1>2, <1>3, <1>4, <1>5, <1>6, <1>7, <1>8, <1>9, <1>10, <1>11
     DEF Next, vars, config, Configure, Request, Work, UpdateProfile, UpdatePolicy, CreateGrant,
         RevokeGrant, ChangeRole, ConsentExpires, CreatePreview

\* A settled job keeps its outcome, and a job succeeds only under the consent it
\* was queued under (refreshAssessment, finalizeAssessment).
THEOREM ResultsConsented == Spec => ResultsAreConsented
<1>1. AInv /\ [Next]_vars => [Consented]_vars
  BY Zenon, StepConsented
<1>2. Spec => [][Consented]_vars
  BY <1>1, AlwaysAInv, PTL DEF Spec
<1> QED
  BY Zenon, <1>2 DEF ResultsAreConsented, Consented

-----------------------------------------------------------------------------
(* The pool                                                                *)

INSTANCE FiniteSetTheorems

\* The jobs with a reservation are finitely many.
LEMMA ActiveFinite == IsFiniteSet(Active) /\ Cardinality(Active) \in Nat
<1>1. IsFiniteSet(Jobs)
  BY AssessmentConstants, FS_Interval DEF Jobs
<1>2. Active \subseteq Jobs
  BY Zenon DEF Active
<1> QED
  BY Zenon, <1>1, <1>2, FS_Subset, FS_CardinalityType

\* Only the admission adds a reservation.
LEMMA NewReservations ==
  AInv /\ [Next]_vars =>
    \/ Active' \subseteq Active /\ quota' = quota
    \/ Active' \subseteq Active /\ quota = NoLimits
    \/ \E j \in Jobs : Active' \subseteq Active \cup {j} /\ HasCapacity /\ quota' = quota
<1> SUFFICES ASSUME AInv, [Next]_vars
             PROVE \/ Active' \subseteq Active /\ quota' = quota
                   \/ Active' \subseteq Active /\ quota = NoLimits
                   \/ \E j \in Jobs : Active' \subseteq Active \cup {j} /\ HasCapacity /\ quota' = quota
  BY Zenon
<1> DEFINE Fewer == Active' \subseteq Active /\ quota' = quota
<1> USE DEF AInv, Typed, AttemptInv, Active, Settle
<1>1. CASE UNCHANGED <<job, quota>>
  BY Zenon, <1>1
<1>2. ASSUME NEW j \in Jobs, NEW p \in Previews, EnqueueAssessment(j, p) PROVE Fewer
  BY Zenon, <1>2 DEF EnqueueAssessment, NoJob
<1>3. ASSUME NEW j \in Jobs, CancelAssessment(j) PROVE Fewer
  BY <1>3 DEF CancelAssessment, JobRow
<1>4. ASSUME NEW j \in Jobs, Clock(j) PROVE Fewer
  BY <1>4 DEF Clock, LeaseExpires, DeadlinePasses, WindowPasses, JobRow
<1>5. ASSUME NEW w \in Workers, Retire(w) PROVE Fewer
  BY <1>5 DEF Retire, JobRow
<1>6. ASSUME NEW w \in Workers, Deny(w) PROVE Fewer
  BY <1>6 DEF Deny, JobRow
<1>7. ASSUME NEW w \in Workers, Admit(w)
      PROVE  \E j \in Jobs : Active' \subseteq Active \cup {j} /\ HasCapacity /\ quota' = quota
  <2>1. worker[w].job \in Jobs
    BY Zenon, <1>7 DEF Admit
  <2>2. Active' \subseteq Active \cup {worker[w].job}
    BY Zenon, <1>7, <2>1 DEF Admit, Dispatched
  <2> QED
    BY Zenon, <1>7, <2>1, <2>2 DEF Admit
<1>8. ASSUME NEW w \in Workers, NEW acknowledged \in BOOLEAN, Release(w, acknowledged)
      PROVE  Fewer
  BY Zenon, <1>8 DEF Release, JobRow
<1>9. ASSUME NEW w \in Workers, Finalize(w) PROVE Fewer
  BY <1>9 DEF Finalize, Owns, JobRow
<1>10. ASSUME NEW w \in Workers, RefreshDenied(w) PROVE Fewer
  BY <1>10 DEF RefreshDenied, Owns, JobRow
<1>11. ASSUME NEW w \in Workers,
              Pick(w) \/ Skip(w) \/ Post(w) \/ RefreshFails(w)
                \/ FinalizeNothing(w) \/ Cut(w) \/ Crash(w)
                \/ \E got \in {"nothing", "answer"} : Respond(w, got)
       PROVE  UNCHANGED <<job, quota>>
  BY Zenon, <1>11 DEF Pick, Skip, Post, RefreshFails, FinalizeNothing, Cut, Crash, Respond
<1>12. ASSUME NEW w \in Workers, OpenWorker(w)
       PROVE  Active' = Active /\ (quota' = quota \/ quota = NoLimits)
  BY Zenon, <1>12 DEF OpenWorker
<1> HIDE DEF AInv, Typed, AttemptInv, Active, Settle
<1> QED
  BY Zenon, <1>1, <1>2, <1>3, <1>4, <1>5, <1>6, <1>7, <1>8, <1>9, <1>10, <1>11, <1>12
     DEF Next, vars, config, Configure, Request, Work, UpdateProfile, UpdatePolicy, CreateGrant,
         RevokeGrant, ChangeRole, ConsentExpires, CreatePreview

\* The reservations stay within the limit the pool was registered with: the
\* admission counts them before it adds one, and no later registration has
\* other limits.
LEMMA AlwaysPoolInv == Spec => []PoolInv
<1>1. Init => PoolInv
  <2> SUFFICES ASSUME Init PROVE PoolInv
    BY Zenon
  <2>1. Active = {}
    BY Zenon DEF Init, Active, NoJob
  <2> QED
    BY <2>1, FS_EmptySet DEF Init, PoolInv, NoLimits
<1>2. AInv /\ AInv' /\ PoolInv /\ [Next]_vars => PoolInv'
  <2> SUFFICES ASSUME AInv, AInv', PoolInv, [Next]_vars PROVE PoolInv'
    BY Zenon
  <2> DEFINE n == Cardinality(Active)
             m == Cardinality(Active')
  <2>1. IsFiniteSet(Active) /\ n \in Nat
    BY Zenon, ActiveFinite
  <2>2. quota.concurrent \in Nat /\ quota'.concurrent \in Nat
    BY Zenon DEF AInv, Typed
  <2>3. Active' \subseteq Active => m \in Nat /\ m <= n
    BY Zenon, <2>1, FS_Subset, FS_CardinalityType
  <2>4. CASE Active' \subseteq Active /\ quota' = quota
    BY <2>1, <2>2, <2>3, <2>4 DEF PoolInv
  <2>5. CASE Active' \subseteq Active /\ quota = NoLimits
    <3>1. n <= 0
      BY Zenon, <2>5 DEF PoolInv, NoLimits
    <3> QED
      BY <2>1, <2>2, <2>3, <2>5, <3>1 DEF PoolInv
  <2>6. ASSUME NEW j \in Jobs, Active' \subseteq Active \cup {j}, HasCapacity, quota' = quota
        PROVE  PoolInv'
    <3>1. IsFiniteSet(Active \cup {j}) /\ Cardinality(Active \cup {j}) <= n + 1
      <4>1. Cardinality(Active \cup {j}) = IF j \in Active THEN n ELSE n + 1
        BY Zenon, <2>1, FS_AddElement
      <4> QED
        BY <2>1, <4>1, FS_AddElement
    <3>2. m \in Nat /\ m <= Cardinality(Active \cup {j}) /\ Cardinality(Active \cup {j}) \in Nat
      BY Zenon, <2>6, <3>1, FS_Subset, FS_CardinalityType
    <3>3. n < quota.concurrent
      BY Zenon, <2>6 DEF HasCapacity
    <3> QED
      BY <2>1, <2>2, <2>6, <3>1, <3>2, <3>3 DEF PoolInv
  <2> QED
    BY Zenon, <2>4, <2>5, <2>6, NewReservations
<1> QED
  BY <1>1, <1>2, AlwaysAInv, PTL DEF Spec

\* Busy attempts are at most as many as reservations: each holds the one of its
\* own job.
LEMMA BusyWithinActive == AInv => Cardinality(Busy) <= Cardinality(Active) /\ Cardinality(Busy) \in Nat
<1> SUFFICES ASSUME AInv
             PROVE Cardinality(Busy) <= Cardinality(Active) /\ Cardinality(Busy) \in Nat
  BY Zenon
<1> DEFINE f == [w \in Busy |-> worker[w].job]
<1>1. \A w \in Busy : w \in Workers /\ worker[w].phase \in InFlight /\ worker[w].job \in Active
  BY Zenon DEF AInv, AttemptInv, Busy, Active, InFlight
<1>2. \A v, w \in Busy : worker[v].job = worker[w].job => v = w
  BY Zenon, <1>1 DEF AInv, OneAttempt
<1>3. f \in [Busy -> Active]
  BY Zenon, <1>1
<1>4. IsInjective(f)
  BY Zenon, <1>2 DEF IsInjective
<1>5. f \in Injection(Busy, Active)
  BY Zenon, <1>3, <1>4 DEF Injection
<1> HIDE DEF f
<1> QED
  BY Zenon, <1>5, ActiveFinite, FS_Injection, FS_CardinalityType

\* However jobs are cancelled, invalidated or retired under running requests, no
\* more attempts do I/O at once than the pool admits (claimAssessment,
\* registerAssessmentScope), for any number of workers and any limits.
THEOREM PoolBounded == Spec => []PoolIsBounded
<1>1. AInv /\ PoolInv => PoolIsBounded
  <2> SUFFICES ASSUME AInv, PoolInv PROVE PoolIsBounded
    BY Zenon
  <2>1. quota.concurrent \in Nat
    BY Zenon DEF AInv, Typed
  <2> QED
    BY <2>1, BusyWithinActive, ActiveFinite DEF PoolInv, PoolIsBounded
<1> QED
  BY <1>1, AlwaysAInv, AlwaysPoolInv, PTL
=============================================================================
