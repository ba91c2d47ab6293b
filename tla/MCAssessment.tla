---------------------------- MODULE MCAssessment ----------------------------
(* Two workers share a pool of one place and one request per window; two     *)
(* jobs under one consent; at most one change that takes the authority away. *)
EXTENDS Assessment

CONSTANTS w1, w2

MCLimits == [w \in Workers |-> [concurrent |-> 1, requests |-> 1]]
MCProfiles == {[usable |-> "yes", family |-> "hosted"]}
MCInit == Init /\ policy.mode = "approved-hosted"
MCSpec == MCInit /\ [][Next]_vars /\ Fairness

\* Workers are alike: the first job is dispatched by the first worker.
Canonical == job[1].owner # w2
=============================================================================
