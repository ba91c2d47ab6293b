---------------------------- MODULE MCReporting ----------------------------
(***************************************************************************)
(* The report queues of Reports and the reading of reports of Posture.     *)
(* They share no state but the findings, which Reports only counts the     *)
(* versions of: a behaviour is one of the queues or one of a reader.       *)
(***************************************************************************)
EXTENDS Reports, Posture

CONSTANTS w1, w2

VARIABLE part

MCTargets == {[critical |-> 1, low |-> 1], [critical |-> 1, low |-> 2]}

MCReported == <<[severity |-> "critical", first |-> 1], [severity |-> "low", first |-> 0],
                [severity |-> "low", first |-> 1]>>

MCDecisions ==
  {[workflow |-> "resolved", disposition |-> "none", expires |-> Never],
   [workflow |-> "open", disposition |-> "false-positive", expires |-> Never],
   [workflow |-> "open", disposition |-> "accepted-risk", expires |-> 2],
   [workflow |-> "open", disposition |-> "suppressed", expires |-> 3]}

MCInit == Init /\ PostureInit /\ part \in {"queues", "reader"}

MCNext ==
  /\ \/ part = "queues" /\ Next /\ UNCHANGED postureVars
     \/ part = "reader" /\ PostureNext /\ UNCHANGED vars
  /\ UNCHANGED part

\* Some workers keep running, others may stall at any point but in a transaction,
\* which reportWorkTime ends; time passes.
MCFairness ==
  /\ \A w \in Steady : WF_vars(part = "queues" /\ Work(w))
  /\ \A w \in Workers : WF_vars(part = "queues" /\ Publish(w))
  /\ \A j \in Jobs : WF_vars(part = "queues" /\ (ExpireLease(j) \/ Ripen(j)))

MCSpec == MCInit /\ [][MCNext]_<<vars, postureVars, part>> /\ MCFairness

\* The policy a workspace starts with; the third finding is not triaged; a change
\* of the posture is of no interest to the queues after a report was read.
Canonical ==
  /\ policy.rev = 1 => policy.days = [critical |-> 1, low |-> 1]
  /\ finding[3].workflow = "open" /\ finding[3].disposition = "none"
  /\ posture > 1 => \A j \in Jobs : report[j] = NoReport
=============================================================================
