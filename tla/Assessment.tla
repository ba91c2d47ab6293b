----------------------------- MODULE Assessment -----------------------------
(***************************************************************************)
(* The advisory AI assessment of a finding: the workspace's AI             *)
(* configuration (profile, policy, egress grants), the consent previews,   *)
(* the queue of assessment jobs and the workers that dispatch them to a    *)
(* remote provider.                                                        *)
(*                                                                         *)
(* A job is dispatched at most once.  Admission reserves one place of a    *)
(* pool shared by all workers; the reservation belongs to the attempt's    *)
(* I/O, not to the job, and is given back when the attempt's sockets are   *)
(* closed or at the deadline persisted with it.  The job itself can be     *)
(* cancelled, invalidated or retired while that I/O is still running.      *)
(*                                                                         *)
(* Every transaction is one step.  Deadlines are flags that the clock      *)
(* flips: a lease, a consent, the I/O deadline and the request window.     *)
(***************************************************************************)
EXTENDS Naturals, FiniteSets

CONSTANTS
    Workers,      \* worker processes
    Limits,       \* [Workers -> [concurrent, requests]]: what each is started with
    Previews,     \* identifiers of consent previews
    Oversize,     \* previews whose context exceeds the workers' input bound
    Profiles,     \* the contents a profile may have: [usable, family] records
    Modes,        \* the policy modes considered
    Grants,       \* identifiers of egress grants
    MaxJobs,      \* jobs enqueued, in the order of their numbers
    MaxChanges    \* bound on the changes that take an authority away

ASSUME AssessmentConstants ==
    /\ MaxJobs \in Nat
    /\ Limits \in [Workers -> [concurrent : Nat, requests : Nat]]

None == "none"
Jobs == 1..MaxJobs

VARIABLES
    profile,   \* the AI profile row
    policy,    \* the AI policy row
    grant,     \* egress grants
    requester, \* the membership of the user who asks for the assessments
    preview,   \* consent previews
    job,       \* assessment_jobs
    quota,     \* the assessment_quotas singleton
    worker,    \* process memory of the workers
    posts      \* history: POSTs that left a worker, per job

config == <<profile, policy, grant, requester>>
vars == <<profile, policy, grant, requester, preview, job, quota, worker, posts>>

-----------------------------------------------------------------------------
(* Configuration *)

NoGrant == [state |-> "none", profile |-> 0, policy |-> 0]

\* Changes of the configuration and the role, and consents that ran out; bounds
\* the model.
Changes ==
    (profile.rev - 1) + (policy.rev - 1) + requester.demoted
    + Cardinality({g \in Grants : grant[g].state = "ended"})
    + Cardinality({p \in Previews : preview[p].consent = "expired"})

\* Any accepted change of a profile gives it a new revision.  "usable" stands
\* for enabled, complete and with structured output.
UpdateProfile(content) ==
    /\ Changes < MaxChanges
    /\ profile' = [rev |-> profile.rev + 1, usable |-> content.usable, family |-> content.family]
    /\ UNCHANGED <<policy, grant, requester, preview, job, quota, worker, posts>>

\* A policy gets a new revision only when its mode changes.
UpdatePolicy(mode) ==
    /\ policy.mode # mode
    /\ Changes < MaxChanges
    /\ policy' = [rev |-> policy.rev + 1, mode |-> mode]
    /\ UNCHANGED <<profile, grant, requester, preview, job, quota, worker, posts>>

CreateGrant(g) ==
    /\ grant[g].state = "none"
    /\ policy.mode = "approved-hosted"
    /\ profile.usable = "yes"
    /\ grant' = [grant EXCEPT ![g] = [state |-> "live", profile |-> profile.rev,
                                      policy |-> policy.rev]]
    /\ UNCHANGED <<profile, policy, requester, preview, job, quota, worker, posts>>

\* Revoked, or expired: a consent never outlives the grant it was given under,
\* so an expired grant has only expired consents.
RevokeGrant(g) ==
    /\ grant[g].state = "live"
    /\ Changes < MaxChanges
    /\ grant' = [grant EXCEPT ![g].state = "ended"]
    /\ UNCHANGED <<profile, policy, requester, preview, job, quota, worker, posts>>

\* changeUserRole: the requester becomes a viewer, or an analyst again.
ChangeRole(role) ==
    /\ role # requester.role
    /\ role = "viewer" => Changes < MaxChanges
    /\ requester' = [role |-> role,
                     demoted |-> requester.demoted + (IF role = "viewer" THEN 1 ELSE 0)]
    /\ UNCHANGED <<profile, policy, grant, preview, job, quota, worker, posts>>

\* readAIConfiguration: may the requester use the profile now, under grant g?
Resolves(g) ==
    /\ requester.role = "analyst"
    /\ profile.usable = "yes"
    /\ \/ /\ policy.mode = "local-only"
          /\ profile.family = "local" /\ g = None
       \/ /\ policy.mode = "approved-hosted"
          /\ g \in Grants
          /\ grant[g] = [state |-> "live", profile |-> profile.rev, policy |-> policy.rev]

\* assessmentAuthority: the binding the requester consented to is still the
\* configuration in force, and the consent has not expired.
Authority(p) ==
    /\ Resolves(preview[p].grant)
    /\ preview[p].profile = profile.rev
    /\ preview[p].policy = policy.rev
    /\ preview[p].consent = "live"

-----------------------------------------------------------------------------
(* Consent and the queue *)

NoPreview == [profile |-> 0, policy |-> 0, grant |-> None, consent |-> "none"]

CreatePreview(p, g) ==
    /\ preview[p].consent = "none"
    /\ Resolves(g)
    /\ preview' = [preview EXCEPT ![p] =
            [profile |-> profile.rev, policy |-> policy.rev, grant |-> g, consent |-> "live"]]
    /\ UNCHANGED <<config, job, quota, worker, posts>>

\* A row of assessment_jobs.  "io" is the reservation of the attempt's I/O, held
\* until it is released or its deadline passes; "window" says whether the dispatch still counts against the request window.
NoJob == [state |-> "none", preview |-> None, sent |-> "not-started", fence |-> 0,
          owner |-> None, lease |-> "none", io |-> "none", window |-> "none"]

\* A new idempotency key; a replay of a known key returns the stored job.
EnqueueAssessment(j, p) ==
    /\ job[j].state = "none"
    /\ \A k \in Jobs : k < j => job[k].state # "none"
    /\ preview[p].consent # "none"
    /\ Authority(p)
    /\ job' = [job EXCEPT ![j] = [NoJob EXCEPT !.state = "queued", !.preview = p]]
    /\ UNCHANGED <<config, preview, quota, worker, posts>>

Settled == {"succeeded", "failed", "cancelled", "invalidated", "uncertain"}

\* Every way out of the active states retires the owner and its fence, and
\* none of them touches the reservation.
Settle(r, state, sent) ==
    [r EXCEPT !.state = state, !.sent = sent, !.owner = None,
              !.lease = "none", !.fence = @ + 1]

CancelAssessment(j) ==
    /\ job[j].state \in {"queued", "dispatching"}
    /\ job' = [job EXCEPT ![j] = Settle(@, "cancelled", @.sent)]
    /\ UNCHANGED <<config, preview, quota, worker, posts>>

-----------------------------------------------------------------------------
(* The workers *)

\* "cut" says whether the attempt's request context has ended (by its deadline,
\* a shutdown or the monitor), "got" whether the provider's answer was read.
Closed == [phase |-> "closed", job |-> 0, fence |-> 0, cut |-> "no", got |-> "nothing"]
Idle == [Closed EXCEPT !.phase = "idle"]
InFlight == {"claimed", "posting", "returned", "released"}

\* The quota row before any worker has registered.
NoLimits == [concurrent |-> 0, requests |-> 0]

\* registerAssessmentScope: the first worker fixes the limits of the pool, and
\* one started with other limits is refused.
OpenWorker(w) ==
    /\ worker[w].phase = "closed"
    /\ quota \in {NoLimits, Limits[w]}
    /\ quota' = Limits[w]
    /\ worker' = [worker EXCEPT ![w] = Idle]
    /\ UNCHANGED <<config, preview, job, posts>>

IsLeast(j, S) == j \in S /\ \A k \in S : j <= k
Expired == {j \in Jobs : job[j].state = "dispatching" /\ job[j].lease = "expired"}
Queued == {j \in Jobs : job[j].state = "queued"}

\* The unlocked read at the head of claimAssessment: an expired dispatch
\* first, then the oldest queued job.
Pick(w) ==
    /\ worker[w].phase = "idle"
    /\ \E j \in Jobs :
         \/ /\ IsLeast(j, Expired)
            /\ worker' = [worker EXCEPT ![w] =
                  [Idle EXCEPT !.phase = "retiring", !.job = j, !.fence = job[j].fence]]
         \/ /\ Expired = {} /\ IsLeast(j, Queued)
            /\ worker' = [worker EXCEPT ![w] = [Idle EXCEPT !.phase = "claiming", !.job = j]]
    /\ UNCHANGED <<config, preview, job, quota, posts>>

\* Mutant: an expired dispatch is queued again.
RetireRequeues(w) ==
    LET j == worker[w].job IN
    /\ worker[w].phase = "retiring"
    /\ job' = IF job[j].fence = worker[w].fence /\ j \in Expired
              THEN [job EXCEPT ![j] = Settle(@, "queued", "possibly-sent")]
              ELSE job
    /\ worker' = [worker EXCEPT ![w] = Idle]
    /\ UNCHANGED <<config, preview, quota, posts>>

\* A dispatch whose lease ran out is never retried: its delivery is uncertain.
Retire(w) ==
    LET j == worker[w].job IN
    /\ worker[w].phase = "retiring"
    /\ job' = IF job[j].fence = worker[w].fence /\ j \in Expired
              THEN [job EXCEPT ![j] = Settle(@, "uncertain", "possibly-sent")]
              ELSE job
    /\ worker' = [worker EXCEPT ![w] = Idle]
    /\ UNCHANGED <<config, preview, quota, posts>>

\* Denied or oversize work is settled even when the pool is full.
Deny(w) ==
    LET j == worker[w].job IN
    /\ worker[w].phase = "claiming"
    /\ ~Authority(job[j].preview) \/ job[j].preview \in Oversize
    /\ job' = IF job[j].state # "queued" THEN job
              ELSE [job EXCEPT ![j] =
                        Settle(@, IF Authority(@.preview) THEN "failed" ELSE "invalidated", @.sent)]
    /\ worker' = [worker EXCEPT ![w] = Idle]
    /\ UNCHANGED <<config, preview, quota, posts>>

\* Mutant: a place is held by a dispatching job, not by its I/O.
ActiveByState == {j \in Jobs : job[j].state = "dispatching"}

\* Mutant: a reservation does not lapse.
ActiveForEver == {j \in Jobs : job[j].io # "none"}

Active == {j \in Jobs : job[j].io = "held"}
Spent == {j \in Jobs : job[j].window = "in"}
HasCapacity ==
    /\ Cardinality(Active) < quota.concurrent
    /\ Cardinality(Spent) < quota.requests

\* The row of an admitted job: its attempt is marked before it starts.
Dispatched(r, w) ==
    [r EXCEPT !.state = "dispatching", !.sent = "possibly-sent", !.fence = @ + 1,
              !.owner = w, !.lease = "live", !.io = "held", !.window = "in"]

\* The sole admission of a job.
Admit(w) ==
    LET j == worker[w].job IN
    /\ worker[w].phase = "claiming"
    /\ Authority(job[j].preview) /\ job[j].preview \notin Oversize
    /\ HasCapacity
    /\ job[j].state = "queued"
    /\ job' = [job EXCEPT ![j] = Dispatched(@, w)]
    /\ worker' = [worker EXCEPT ![w].phase = "claimed", ![w].fence = job[j].fence + 1]
    /\ UNCHANGED <<config, preview, quota, posts>>

\* No capacity, or the job is no longer queued: nothing is written.
Skip(w) ==
    LET j == worker[w].job IN
    /\ worker[w].phase = "claiming"
    /\ Authority(job[j].preview) /\ job[j].preview \notin Oversize
    /\ ~HasCapacity \/ job[j].state # "queued"
    /\ worker' = [worker EXCEPT ![w] = Idle]
    /\ UNCHANGED <<config, preview, job, quota, posts>>

\* The worker still owns the dispatch.
Owns(w) ==
    LET j == worker[w].job IN
    /\ job[j].state = "dispatching"
    /\ job[j].owner = w /\ job[j].fence = worker[w].fence
    /\ job[j].lease = "live"

\* The first refreshAssessment confirms the dispatch and the one POST of the
\* attempt leaves.
Post(w) ==
    LET j == worker[w].job IN
    /\ worker[w].phase = "claimed" /\ worker[w].cut = "no"
    /\ Owns(w) /\ Authority(job[j].preview)
    /\ worker' = [worker EXCEPT ![w].phase = "posting"]
    /\ posts' = [posts EXCEPT ![j] = @ + 1]
    /\ UNCHANGED <<config, preview, job, quota>>

\* refreshAssessment, now or from monitorAssessment, finds the authority gone:
\* the job is invalidated and the request aborted.
RefreshDenied(w) ==
    LET j == worker[w].job IN
    /\ worker[w].phase \in {"claimed", "posting", "returned"} /\ worker[w].cut = "no"
    /\ Owns(w) /\ ~Authority(job[j].preview)
    /\ job' = [job EXCEPT ![j] = Settle(@, "invalidated", @.sent)]
    /\ worker' = [worker EXCEPT
            ![w] = IF @.phase = "claimed" THEN [@ EXCEPT !.phase = "returned"]
                   ELSE [@ EXCEPT !.cut = "yes"]]
    /\ UNCHANGED <<config, preview, quota, posts>>

\* refreshAssessment fails: the dispatch is no longer this worker's, its
\* deadline has passed, or the database did not answer.
RefreshFails(w) ==
    /\ worker[w].phase = "claimed"
    /\ worker' = [worker EXCEPT ![w].phase = "returned"]
    /\ UNCHANGED <<config, preview, job, quota, posts>>

\* The provider call returns, with an answer or without one.
Respond(w, got) ==
    /\ worker[w].phase = "posting"
    /\ worker' = [worker EXCEPT ![w].phase = "returned", ![w].got = got]
    /\ UNCHANGED <<config, preview, job, quota, posts>>

\* The attempt's sockets are closed, then its reservation is given back.  If
\* either fails the reservation stays until its deadline.
Release(w, acknowledged) ==
    LET j == worker[w].job IN
    /\ worker[w].phase = "returned"
    /\ worker' = [worker EXCEPT ![w].phase = "released"]
    /\ job' = IF acknowledged /\ job[j].io = "held"
              THEN [job EXCEPT ![j].io = "free"] ELSE job
    /\ UNCHANGED <<config, preview, quota, posts>>

\* assessmentNativeOutcome, after the causes finalizeAssessment puts before it:
\* a context that ended is a cancellation or leaves the delivery uncertain, an
\* answer is usable or not.
Outcomes(m) ==
    IF m.cut = "yes" THEN {"cancelled", "uncertain"}
    ELSE IF m.got = "answer" THEN {"succeeded", "failed"} ELSE {"uncertain"}

\* Mutant: the result is written without the fence.
FinalizeUnfenced(w) ==
    LET j == worker[w].job
        m == worker[w] IN
    /\ m.phase = "released"
    /\ \E outcome \in IF Authority(job[j].preview) THEN Outcomes(m) ELSE {"invalidated"} :
        job' = [job EXCEPT ![j] =
            Settle(@, outcome, IF m.got = "answer" THEN "response-received" ELSE "possibly-sent")]
    /\ worker' = [worker EXCEPT ![w] = Idle]
    /\ UNCHANGED <<config, preview, quota, posts>>

Finalize(w) ==
    LET j == worker[w].job
        m == worker[w] IN
    /\ m.phase = "released"
    /\ Owns(w)
    /\ \E outcome \in IF Authority(job[j].preview) THEN Outcomes(m) ELSE {"invalidated"} :
        job' = [job EXCEPT ![j] =
            Settle(@, outcome, IF m.got = "answer" THEN "response-received" ELSE "possibly-sent")]
    /\ worker' = [worker EXCEPT ![w] = Idle]
    /\ UNCHANGED <<config, preview, quota, posts>>

\* The lease is lost, or the settling transaction fails.
FinalizeNothing(w) ==
    /\ worker[w].phase = "released"
    /\ worker' = [worker EXCEPT ![w] = Idle]
    /\ UNCHANGED <<config, preview, job, quota, posts>>

\* The request context ends: a shutdown, its own deadline, or the monitor whose
\* refreshAssessment failed.
Cut(w) ==
    /\ worker[w].phase \in InFlight /\ worker[w].cut = "no"
    /\ worker' = [worker EXCEPT ![w].cut = "yes"]
    /\ UNCHANGED <<config, preview, job, quota, posts>>

\* The process dies and is restarted with the limits it had.
Crash(w) ==
    /\ worker[w].phase \in InFlight
    /\ worker' = [worker EXCEPT ![w] = Idle]
    /\ UNCHANGED <<config, preview, job, quota, posts>>

-----------------------------------------------------------------------------
(* The clock *)

LeaseExpires(j) ==
    /\ job[j].lease = "live"
    /\ job' = [job EXCEPT ![j].lease = "expired"]
    /\ UNCHANGED <<config, preview, quota, worker, posts>>

\* The owner starts its own deadline before it writes the reservation, so that
\* one has passed when the persisted one does.
DeadlinePasses(j) ==
    /\ job[j].io = "held"
    /\ \A w \in Workers :
        worker[w].phase \in InFlight /\ worker[w].job = j => worker[w].cut # "no"
    /\ job' = [job EXCEPT ![j].io = "free"]
    /\ UNCHANGED <<config, preview, quota, worker, posts>>

WindowPasses(j) ==
    /\ job[j].window = "in"
    /\ job' = [job EXCEPT ![j].window = "out"]
    /\ UNCHANGED <<config, preview, quota, worker, posts>>

ConsentExpires(p) ==
    /\ preview[p].consent = "live"
    /\ Changes < MaxChanges
    /\ preview' = [preview EXCEPT ![p].consent = "expired"]
    /\ UNCHANGED <<config, job, quota, worker, posts>>

-----------------------------------------------------------------------------
Init ==
    /\ \E content \in Profiles :
        profile = [rev |-> 1, usable |-> content.usable, family |-> content.family]
    /\ \E m \in Modes : policy = [rev |-> 1, mode |-> m]
    /\ grant = [g \in Grants |-> NoGrant]
    /\ requester = [role |-> "analyst", demoted |-> 0]
    /\ preview = [p \in Previews |-> NoPreview]
    /\ job = [j \in Jobs |-> NoJob]
    /\ quota = NoLimits
    /\ worker = [w \in Workers |-> Closed]
    /\ posts = [j \in Jobs |-> 0]

Configure ==
    \/ \E content \in Profiles : UpdateProfile(content)
    \/ \E m \in Modes : UpdatePolicy(m)
    \/ \E g \in Grants : CreateGrant(g) \/ RevokeGrant(g)
    \/ \E role \in {"analyst", "viewer"} : ChangeRole(role)
    \/ \E p \in Previews : ConsentExpires(p)

Request ==
    \/ \E p \in Previews, g \in Grants \cup {None} : CreatePreview(p, g)
    \/ \E j \in Jobs, p \in Previews : EnqueueAssessment(j, p)
    \/ \E j \in Jobs : CancelAssessment(j)

\* What the worker's own loop does next.
Work(w) ==
    \/ OpenWorker(w) \/ Pick(w) \/ Retire(w) \/ Deny(w) \/ Admit(w) \/ Skip(w)
    \/ Post(w) \/ RefreshFails(w) \/ \E got \in {"nothing", "answer"} : Respond(w, got)
    \/ \E acknowledged \in BOOLEAN : Release(w, acknowledged)
    \/ Finalize(w) \/ FinalizeNothing(w)

Clock(j) == LeaseExpires(j) \/ DeadlinePasses(j) \/ WindowPasses(j)

Next ==
    \/ Configure \/ Request
    \/ \E j \in Jobs : Clock(j)
    \/ \E w \in Workers : Work(w) \/ RefreshDenied(w) \/ Cut(w) \/ Crash(w)

Spec == Init /\ [][Next]_vars

\* The workers keep polling, a provider call ends at the latest at its deadline,
\* and leases, reservations and the request window run out.
Fairness ==
    /\ \A w \in Workers : WF_vars(Work(w))
    /\ \A j \in Jobs : WF_vars(Clock(j))

FairSpec == Spec /\ Fairness

-----------------------------------------------------------------------------
(* Properties *)

\* An attempt that holds sockets, or may still open some.
Busy == {w \in Workers :
            /\ worker[w].phase \in {"claimed", "posting", "returned"}
            /\ worker[w].cut = "no"}

\* However jobs are cancelled, invalidated or retired under running requests,
\* and whichever workers crash, no more attempts do I/O at once than the pool
\* admits (claimAssessment counts reservations, not dispatching jobs).
PoolIsBounded == Cardinality(Busy) <= quota.concurrent

\* No job is sent twice, and its row never understates what may have left: no
\* POST without the mark "possibly-sent", no received answer without a POST.
DispatchIsHonest ==
    \A j \in Jobs :
        /\ posts[j] <= 1
        /\ posts[j] = 1 => job[j].sent # "not-started"
        /\ job[j].sent = "response-received" => posts[j] = 1

\* A settled job never changes its outcome, however late an answer comes, and
\* a job succeeds only while the consent it was queued under is in force.
ResultsAreConsented ==
    [][\A j \in Jobs :
        /\ job[j].state \in Settled =>
            job'[j].state = job[j].state /\ job'[j].sent = job[j].sent
        /\ job[j].state # "succeeded" /\ job'[j].state = "succeeded" =>
            job[j].state = "dispatching" /\ Authority(job[j].preview)]_vars

\* Every assessment is settled: a full pool, a crashed owner or a lost
\* authority never leaves one waiting for ever.
EveryAssessmentSettles ==
    []<>(\A j \in Jobs : job[j].state \notin {"queued", "dispatching"})
=============================================================================
