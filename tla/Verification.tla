---------------------------- MODULE Verification ----------------------------
(***************************************************************************)
(* Deterministic verification of one finding: a member submits a fixture   *)
(* as evidence, another approves it for a while, jobs are queued under the *)
(* approval and workers evaluate them.  The approval may be revoked, may   *)
(* expire, or may stop matching the finding at any moment of an attempt.   *)
(*                                                                         *)
(* Enqueueing reads the approval without a lock and inserts afterwards, so *)
(* it is two steps.  publishVerificationSuccess is two steps as well: its  *)
(* UPDATE, which locks the job, and its commit.                            *)
(***************************************************************************)
EXTENDS Naturals

CONSTANTS
    Verifiers,      \* verification worker processes
    Evidence,       \* submitted fixtures
    Condition,      \* the condition of each fixture, "true" or "false"
    Approvals,      \* approvals
    Jobs,           \* verification jobs, named by their idempotency key
    MaxAttempts,    \* verificationAttempts
    MaxRevision,    \* bound: evidence revisions of the finding
    MaxFaults       \* bound: failed reads, crashes and shutdowns

VARIABLES
    revision,   \* findings.evidence_revision
    evidence,   \* verification_evidence: the revision it was submitted for, or 0
    approval,   \* verification_approvals
    job,        \* verification_jobs
    asked,      \* approvals read by the enqueue requests in flight for a job
    worker,     \* process memory of the workers
    faults      \* faults so far

verificationVars == <<revision, evidence, approval, job, asked, worker, faults>>

-----------------------------------------------------------------------------
(* Rows *)

None == "none"

NoApproval == [state |-> "absent", expired |-> "no", evidence |-> None, rev |-> 0]
NoJob == [state |-> "absent", approval |-> None, rev |-> 0, attempts |-> 0, fence |-> 0,
          owner |-> None, lease |-> "none", ready |-> "yes", code |-> "none"]

Idle == [phase |-> "idle", job |-> None, fence |-> 0, result |-> "none"]

Active == {"queued", "processing"}
Settled == {"succeeded", "failed", "cancelled", "blocked"}

\* Fixture formats and digests, which the API produces itself, fail only with the storage.
Damage == {"fixture-format", "evidence-integrity"}

Outcome(e) == IF Condition[e] = "true" THEN "reproduced" ELSE "not-reproduced"

\* The approval is neither revoked nor expired, and the finding's evidence is the approved one.
Current(a) ==
    /\ approval[a].state = "granted"
    /\ approval[a].expired = "no"
    /\ approval[a].rev = revision

\* The worker still owns the job under the fence of its claim.
HoldsJob(w, j) ==
    /\ job[j].state = "processing"
    /\ job[j].owner = w
    /\ job[j].fence = worker[w].fence

\* Inside a publishing transaction the job's row is locked.
Locked(j) == \E w \in Verifiers : worker[w].phase = "publishing" /\ worker[w].job = j

Ended(j, state, code) ==
    [job[j] EXCEPT !.state = state, !.code = code, !.owner = None, !.lease = "none", !.ready = "yes"]

Queued(j, ready) ==
    [job[j] EXCEPT !.state = "queued", !.ready = ready, !.owner = None, !.lease = "none"]

-----------------------------------------------------------------------------
VerificationInit ==
    /\ revision = 1
    /\ evidence = [e \in Evidence |-> 0]
    /\ approval = [a \in Approvals |-> NoApproval]
    /\ job = [j \in Jobs |-> NoJob]
    /\ asked = [j \in Jobs |-> {}]
    /\ worker = [w \in Verifiers |-> Idle]
    /\ faults = 0

-----------------------------------------------------------------------------
(* The API *)

\* createVerificationEvidence
Submit(e) ==
    /\ evidence[e] = 0
    /\ evidence' = [evidence EXCEPT ![e] = revision]
    /\ UNCHANGED <<revision, approval, job, asked, worker, faults>>

\* createVerificationApproval: only evidence of the finding's current revision.
Approve(a, e) ==
    /\ approval[a].state = "absent"
    /\ evidence[e] = revision
    /\ approval' = [approval EXCEPT ![a] =
                        [state |-> "granted", expired |-> "no", evidence |-> e, rev |-> evidence[e]]]
    /\ UNCHANGED <<revision, evidence, job, asked, worker, faults>>

\* revokeVerificationApproval: waits for a publication of its jobs, cancels the others.
Revoke(a) ==
    /\ approval[a].state = "granted"
    /\ \A j \in Jobs : job[j].approval = a => ~Locked(j)
    /\ approval' = [approval EXCEPT ![a].state = "revoked"]
    /\ job' = [j \in Jobs |->
                  IF job[j].approval = a /\ job[j].state \in Active
                  THEN [Ended(j, "cancelled", "approval-revoked") EXCEPT !.fence = job[j].fence + 1]
                  ELSE job[j]]
    /\ UNCHANGED <<revision, evidence, asked, worker, faults>>

\* enqueueVerification up to its INSERT; a used key is only replayed.
AskJob(j, a) ==
    /\ job[j].state = "absent"
    /\ a \notin asked[j]
    /\ Current(a)
    /\ asked' = [asked EXCEPT ![j] = @ \cup {a}]
    /\ UNCHANGED <<revision, evidence, approval, job, worker, faults>>

\* INSERT ... ON CONFLICT DO NOTHING and the commit; the approval is not read again.
InsertJob(j, a) ==
    /\ a \in asked[j]
    /\ asked' = [asked EXCEPT ![j] = @ \ {a}]
    /\ job' = IF job[j].state = "absent"
              THEN [job EXCEPT ![j] = [NoJob EXCEPT !.state = "queued", !.approval = a,
                                                    !.rev = approval[a].rev]]
              ELSE job
    /\ UNCHANGED <<revision, evidence, approval, worker, faults>>

-----------------------------------------------------------------------------
(* The environment *)

\* An import changes the evidence of the finding.
ChangeEvidence ==
    /\ revision < MaxRevision
    /\ revision' = revision + 1
    /\ UNCHANGED <<evidence, approval, job, asked, worker, faults>>

ExpireApproval(a) ==
    /\ approval[a].state # "absent"
    /\ approval[a].expired = "no"
    /\ approval' = [approval EXCEPT ![a].expired = "yes"]
    /\ UNCHANGED <<revision, evidence, job, asked, worker, faults>>

ExpireLease(j) ==
    /\ job[j].lease = "live"
    /\ job' = [job EXCEPT ![j].lease = "expired"]
    /\ UNCHANGED <<revision, evidence, approval, asked, worker, faults>>

\* available_at passes.
Ripen(j) ==
    /\ job[j].state = "queued" /\ job[j].ready = "no"
    /\ job' = [job EXCEPT ![j].ready = "yes"]
    /\ UNCHANGED <<revision, evidence, approval, asked, worker, faults>>

-----------------------------------------------------------------------------
(* ProcessNext *)

Step(w, phase, result) == worker' = [worker EXCEPT ![w].phase = phase, ![w].result = result]
Leave(w) == worker' = [worker EXCEPT ![w] = Idle]
Fault == faults < MaxFaults /\ faults' = faults + 1

Overspent(j) ==
    /\ job[j].state = "processing"
    /\ job[j].lease = "expired"
    /\ job[j].attempts >= MaxAttempts
    /\ ~Locked(j)

\* failExhausted, a ProcessNext of its own when it settles a job
FailExhausted(w) ==
    /\ worker[w].phase = "idle"
    /\ \E j \in Jobs : Overspent(j)
    /\ job' = [j \in Jobs |-> IF Overspent(j) THEN Ended(j, "failed", "attempt-limit") ELSE job[j]]
    /\ UNCHANGED <<revision, evidence, approval, asked, worker, faults>>

\* Mutant: only queued jobs are looked for.
OnlyQueuedClaimable(j) ==
    /\ job[j].attempts < MaxAttempts
    /\ job[j].state = "queued" /\ job[j].ready = "yes"
    /\ ~Locked(j)

VerificationClaimable(j) ==
    /\ job[j].attempts < MaxAttempts
    /\ \/ job[j].state = "queued" /\ job[j].ready = "yes"
       \/ job[j].state = "processing" /\ job[j].lease = "expired"
    /\ ~Locked(j)

\* claimVerification
ClaimVerification(w, j) ==
    /\ worker[w].phase = "idle"
    /\ \A k \in Jobs : ~Overspent(k)
    /\ VerificationClaimable(j)
    /\ job' = [job EXCEPT ![j].state = "processing", ![j].owner = w, ![j].lease = "live",
                          ![j].fence = @ + 1, ![j].attempts = @ + 1]
    /\ worker' = [worker EXCEPT ![w] = [phase |-> "claimed", job |-> j,
                                        fence |-> job[j].fence + 1, result |-> "none"]]
    /\ UNCHANGED <<revision, evidence, approval, asked, faults>>

\* lookupVerificationApproval and matches: what the worker is told when the read succeeds.
Approved(j) ==
    /\ approval[job[j].approval].state = "granted"
    /\ approval[job[j].approval].expired = "no"
    /\ revision = job[j].rev

\* Verify up to the opening of the evidence.
Authorize(w) ==
    /\ worker[w].phase = "claimed"
    /\ Step(w, IF Approved(worker[w].job) THEN "reading" ELSE "refused", "none")
    /\ UNCHANGED <<revision, evidence, approval, job, asked, faults>>

\* The rest of Verify: the approval is looked up again, also while the evidence is read.
Evaluate(w) ==
    /\ worker[w].phase = "reading"
    /\ LET j == worker[w].job IN
       IF Approved(j) THEN Step(w, "verified", Outcome(approval[job[j].approval].evidence))
                      ELSE Step(w, "refused", "none")
    /\ UNCHANGED <<revision, evidence, approval, job, asked, faults>>

\* A lookup that fails or takes more than 500 ms refuses the attempt as well.
LookupFails(w) ==
    /\ worker[w].phase \in {"claimed", "reading"}
    /\ Fault
    /\ Step(w, "refused", "none")
    /\ UNCHANGED <<revision, evidence, approval, job, asked>>

\* Unusable evidence, or evidence that could not be read, settles or retries the job.
ReadFails(w, cause) ==
    /\ worker[w].phase \in {"claimed", "reading"}
    /\ Fault
    /\ Step(w, "failing", cause)
    /\ UNCHANGED <<revision, evidence, approval, job, asked>>

\* Mutant: a revocation is not told from an expiry.
PolicyOutcomeUntold(j, failed) ==
    IF failed \/ approval[job[j].approval].rev # revision THEN <<"blocked", "binding-changed">>
    ELSE <<"blocked", "approval-expired">>

\* verificationPolicyOutcome; failed: its query failed
PolicyOutcome(j, failed) ==
    IF failed \/ approval[job[j].approval].rev # revision THEN <<"blocked", "binding-changed">>
    ELSE IF approval[job[j].approval].state = "revoked" THEN <<"cancelled", "approval-revoked">>
    ELSE IF approval[job[j].approval].expired = "yes" THEN <<"blocked", "approval-expired">>
    ELSE <<"blocked", "binding-changed">>

\* settleVerificationFailure for a refused attempt: the fence, but not the lease, is required.
SettleRefused(w, failed) ==
    /\ worker[w].phase = "refused"
    /\ IF failed THEN Fault ELSE UNCHANGED faults
    /\ LET j == worker[w].job
           o == PolicyOutcome(j, failed)
       IN job' = IF HoldsJob(w, j) THEN [job EXCEPT ![j] = Ended(j, o[1], o[2])] ELSE job
    /\ Leave(w)
    /\ UNCHANGED <<revision, evidence, approval, asked>>

\* settleVerificationFailure and retryVerification under the live lease
SettleFailing(w) ==
    /\ worker[w].phase = "failing"
    /\ LET j == worker[w].job
           cause == worker[w].result
       IN job' = IF ~(HoldsJob(w, j) /\ job[j].lease = "live") THEN job
                 ELSE IF cause \in Damage THEN [job EXCEPT ![j] = Ended(j, "failed", cause)]
                 ELSE IF job[j].attempts >= MaxAttempts
                      THEN [job EXCEPT ![j] = Ended(j, "failed", "attempt-limit")]
                 ELSE [job EXCEPT ![j] = Queued(j, "no")]
    /\ Leave(w)
    /\ UNCHANGED <<revision, evidence, approval, asked, faults>>

\* Mutant: the result is written by the job's id alone.
PublishableById(w, j) == ~Locked(j)

\* The WHERE clause of the publishing UPDATE.
Publishable(w, j) ==
    /\ HoldsJob(w, j)
    /\ job[j].lease = "live"
    /\ Current(job[j].approval)
    /\ approval[job[j].approval].rev = job[j].rev

\* publishVerificationSuccess up to its commit; a refused UPDATE leaves the job as it is.
Publish(w) ==
    /\ worker[w].phase = "verified"
    /\ IF Publishable(w, worker[w].job)
       THEN Step(w, "publishing", worker[w].result)
       ELSE Leave(w)
    /\ UNCHANGED <<revision, evidence, approval, job, asked, faults>>

CommitResult(w) ==
    /\ worker[w].phase = "publishing"
    /\ job' = [job EXCEPT ![worker[w].job] = Ended(worker[w].job, "succeeded", worker[w].result)]
    /\ Leave(w)
    /\ UNCHANGED <<revision, evidence, approval, asked, faults>>

\* requeueCancelledVerification: a worker told to stop while it verifies gives the job back.
Shutdown(w) ==
    /\ worker[w].phase \in {"claimed", "reading"}
    /\ Fault
    /\ LET j == worker[w].job IN
       job' = IF HoldsJob(w, j) THEN [job EXCEPT ![j] = Queued(j, "yes")] ELSE job
    /\ Leave(w)
    /\ UNCHANGED <<revision, evidence, approval, asked>>

\* A crash, a cancelled publication or a failed statement leaves the job to its lease.
Crash(w) ==
    /\ worker[w].phase # "idle"
    /\ Fault
    /\ Leave(w)
    /\ UNCHANGED <<revision, evidence, approval, job, asked>>

-----------------------------------------------------------------------------
Work(w) ==
    \/ FailExhausted(w)
    \/ \E j \in Jobs : ClaimVerification(w, j)
    \/ Authorize(w)
    \/ Evaluate(w)
    \/ SettleRefused(w, FALSE)
    \/ SettleFailing(w)
    \/ Publish(w)
    \/ CommitResult(w)

Trouble(w) ==
    \/ LookupFails(w)
    \/ \E cause \in Damage \cup {"error"} : ReadFails(w, cause)
    \/ SettleRefused(w, TRUE)
    \/ Shutdown(w)
    \/ Crash(w)

Api ==
    \/ \E e \in Evidence : Submit(e)
    \/ \E a \in Approvals, e \in Evidence : Approve(a, e)
    \/ \E a \in Approvals : Revoke(a)
    \/ \E j \in Jobs, a \in Approvals : AskJob(j, a) \/ InsertJob(j, a)

VerificationNext ==
    \/ Api
    \/ ChangeEvidence
    \/ \E a \in Approvals : ExpireApproval(a)
    \/ \E j \in Jobs : ExpireLease(j) \/ Ripen(j)
    \/ \E w \in Verifiers : Work(w) \/ Trouble(w)

VerificationSpec == VerificationInit /\ [][VerificationNext]_verificationVars

-----------------------------------------------------------------------------
(* Properties *)

\* A result is committed only while its approval stands, and once a job has ended nothing
\* rewrites it: neither the revocation of the approval nor a worker whose fence is old, whatever
\* the order of revoke, claim, lookup and publication (revokeVerificationApproval,
\* publishVerificationSuccess, settleVerificationFailure).
RevocationEndsWork ==
    [][\A j \in Jobs :
         /\ job'[j].state = "succeeded" /\ job[j].state # "succeeded"
              => approval[job[j].approval].state = "granted"
         /\ job[j].state \in Settled => job'[j] = job[j]]_verificationVars

\* The reported ending is what happened: a result is the condition of the approved evidence, a
\* cancellation a revocation, an expiry an expiry, and the attempt limit the last attempt
\* (Verify, verificationPolicyOutcome, failExhausted).
EndingIsHonest ==
    \A j \in Jobs :
        LET a == approval[job[j].approval] IN
        /\ job[j].state = "succeeded" => job[j].code = Outcome(a.evidence) /\ a.rev = evidence[a.evidence]
        /\ job[j].state = "cancelled" => a.state = "revoked"
        /\ job[j].code = "approval-expired" => a.expired = "yes"
        /\ job[j].code = "attempt-limit" => job[j].attempts = MaxAttempts

\* A stopping worker gives a job back without its attempt: claimVerification does not take it
\* after the last one, and failExhausted looks only at processing jobs.
SpentInQueue(j) == job[j].state = "queued" /\ job[j].attempts >= MaxAttempts

\* Every job ends, whatever workers, leases and approvals do, except one that spent its last
\* attempt in the queue, which stays there until its approval is revoked (claimVerification).
EveryVerificationEnds ==
    []<>(\A j \in Jobs : job[j].state \in Active => SpentInQueue(j))
=============================================================================
