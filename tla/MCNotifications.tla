--------------------------- MODULE MCNotifications ---------------------------
(***************************************************************************)
(* One change, one finding, a Slack and a Jira connection, two workers.     *)
(***************************************************************************)
EXTENDS Notifications

CONSTANTS x1, m1, f1, slack, teams, jira, u1, w1, w2

MCPolicies == {1, 2}
MCChanges == {x1}
MCFindings == {f1}
MCFindingOf == [x \in MCChanges |-> f1]
MCKinds == {"new", "changed"}
MCKindOf == [x \in MCChanges |-> "new"]
MCPolicyKey == [k \in MCPolicies \X MCChanges |-> k]
MCIntents == (MCPolicies \X MCChanges) \cup {m1}
MCConnections == {slack, teams, jira}
MCProfile == [c \in MCConnections |->
  CASE c = slack -> "slack" [] c = teams -> "teams" [] OTHER -> "jira"]

MCSelections == {<<slack, {"new"}>>, <<jira, {"new"}>>, <<jira, {"changed"}>>}
MCUsers == {u1}
MCWorkers == {w1, w2}

\* Deliveries queued by hand under the keys of policies.
Occupants ==
  {p \in Policies : /\ delivery[PolicyKey[p, x1]].state # "absent"
                    /\ ~\E o \in outcomes : o.policy = p /\ o.outcome = "queued"}

\* A manual intent over any of the connections, without policies.
OneIntent ==
  /\ revisions = {}
  /\ event[x1].state = "none"
  /\ Occupants = {}

\* A policy that may move between two connections and change the kinds it
\* matches, up to the deliveries it queues; its key may be taken.
OnePolicy ==
  /\ Of(2) = {}
  /\ conn[teams].revision = 1
  /\ delivery[m1].state = "absent"
  /\ writers = Users
  /\ \A w \in Workers : proc[w].pc = "idle"
  /\ Occupants \subseteq {1} /\ (Occupants # {} => epoch = 1 /\ event[x1].unfit = {})

\* A ticket that two policies and a manual intent aim at, up to the request and
\* its effect on the remote service.
OneTicket ==
  /\ writers = Users
  /\ \A c \in Connections : conn[c].revision = 1
  /\ delivery[m1].state # "absent" => delivery[m1].conn = jira
  /\ Occupants = {}
  /\ \A r \in revisions : r.number = 1 /\ r.enabled = "yes" /\ r.conn = jira /\ r.kinds = {"new"}

Scenarios ==
  /\ OneIntent \/ OnePolicy \/ OneTicket
  /\ event[x1].unfit \in {{}, {slack, jira}} /\ (event[x1].epoch = 0 => event[x1].unfit = {})
  /\ Cardinality({c \in Connections : conn[c].revision > 1}) <= 1
=============================================================================
