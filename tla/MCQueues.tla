------------------------------ MODULE MCQueues ------------------------------
(***************************************************************************)
(* Three queues of leases and attempts, each by itself.                    *)
(*                                                                         *)
(* JobQueue: two jobs of one workspace, two processes with different Store *)
(* limits, two envelopes with different budgets.                           *)
(*                                                                         *)
(* RetentionRuns: two workers over one run of no item, one item or two     *)
(* items, with the attempts of the code.                                   *)
(*                                                                         *)
(* Verification: one job, one approval and evidence of either condition.   *)
(* The three attempts of the code and two revisions are enough for         *)
(* reclaims, for an exhausted budget and for an approval that no longer    *)
(* matches; three faults for workers that fail one after the other.        *)
(***************************************************************************)
EXTENDS JobQueue, Verification, TLC

CONSTANTS k1, k2, w1, w2, big, small, ws1, obs, Runs, retentionAttempts, NoRun, e1, e2

VARIABLES part, run, task

MCKeys == {k1, k2}
MCWorkspaces == {ws1}
MCHome == [k \in MCKeys |-> ws1]
MCWorkers == {w1, w2}
MCConfigMax == w1 :> 2 @@ w2 :> 1
MCEnvelopes == {big, small}
MCBudget == big :> 2 @@ small :> 1

MCManifests ==
  {<<>>, <<<<"archive-history", obs>>>>, <<<<"archive-history", obs>>, <<"expire-archive", obs>>>>}

R == INSTANCE RetentionRuns WITH Manifests <- MCManifests

MCCondition == e1 :> "true" @@ e2 :> "false"

runVars == <<run, task>>

MCInit == Init /\ R!RunsInit /\ VerificationInit /\ part \in {"jobs", "runs", "verification"}

InRuns(step) == part = "runs" /\ step /\ UNCHANGED verificationVars
InVerification(step) == part = "verification" /\ step /\ UNCHANGED runVars

MCNext ==
  /\ \/ part = "jobs" /\ Next /\ UNCHANGED <<runVars, verificationVars>>
     \/ InRuns(R!RunsNext) /\ UNCHANGED jobVars
     \/ InVerification(VerificationNext) /\ UNCHANGED jobVars
  /\ UNCHANGED part

\* A worker polls in a loop and each of its calls returns or fails, for runs as
\* for verifications; the clock of the database runs.
MCFairness ==
  /\ \A w \in MCWorkers : WF_<<runVars, verificationVars>>(
       InRuns(R!WorkerStep(w)) \/ InVerification(Work(w)))
  /\ \A r \in Runs : WF_runVars(part = "runs" /\ R!LeaseEnds(r))
  /\ \A j \in Jobs : WF_verificationVars(part = "verification" /\ ExpireLease(j))
                  /\ WF_verificationVars(part = "verification" /\ Ripen(j))

MCSpec == MCInit /\ [][MCNext]_<<jobVars, runVars, verificationVars, part>> /\ MCFairness

\* Of two states that differ in the names of the workers only, one: the first
\* verification is claimed by w1.
Canonical == \A j \in Jobs : job[j].fence = 1 => job[j].owner # w2

\* R!EveryRunEnds: a queued run ends, however its claims were abandoned, retried
\* and taken over (claimRetentionItem, advanceRetentionRunTx).
EveryRunEnds == R!EveryRunEnds
=============================================================================
