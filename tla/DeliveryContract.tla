-------------------------- MODULE DeliveryContract --------------------------
(***************************************************************************)
(* What the outbox promises about one intent: it has an effect on the remote *)
(* service at most once, and what is reported about it is true and final.   *)
(* "unknown" is the only report that leaves the effect open, and the effect  *)
(* may then still happen.                                                   *)
(***************************************************************************)
EXTENDS Naturals

CONSTANT Intents

VARIABLES
  status,   \* "none", "accepted", "delivered", "not-delivered" or "unknown"
  effect    \* how often the remote service acted on the intent

contractVars == <<status, effect>>

Init ==
  /\ status = [d \in Intents |-> "none"]
  /\ effect = [d \in Intents |-> 0]

Fresh == {d \in Intents : status[d] = "none"}

\* A request accepts one intent, an evaluated finding change one for each policy.
Accept(new) ==
  /\ status' = [d \in Intents |-> IF d \in new THEN "accepted" ELSE status[d]]
  /\ UNCHANGED effect

Act(d) ==
  /\ status[d] \in {"accepted", "unknown"}
  /\ effect[d] = 0
  /\ effect' = [effect EXCEPT ![d] = 1]
  /\ UNCHANGED status

Report(d, s) ==
  /\ status[d] = "accepted"
  /\ s = "delivered" => effect[d] = 1
  /\ s = "not-delivered" => effect[d] = 0
  /\ status' = [status EXCEPT ![d] = s]
  /\ UNCHANGED effect

Next ==
  \/ \E d \in Intents :
       Act(d) \/ \E s \in {"delivered", "not-delivered", "unknown"} : Report(d, s)
  \/ \E new \in SUBSET Fresh : Accept(new)

Spec == Init /\ [][Next]_contractVars
=============================================================================
