CONSTANTS
  w2 = w2
  x1 = x1
  m1 = m1
  slack = slack
  teams = teams
  f1 = f1
  jira = jira
  u1 = u1
  w1 = w1
  Nobody = Nobody
  NoIntent = NoIntent
  MaxRevision = 2
  MaxEpoch = 2
  MaxClaims = 2
  Intents <- MCIntents
  Findings <- MCFindings
  Connections <- MCConnections
  Profile <- MCProfile
  Users <- MCUsers
  Workers <- MCWorkers
  Policies <- MCPolicies
  Changes <- MCChanges
  FindingOf <- MCFindingOf
  KindOf <- MCKindOf
  Kinds <- MCKinds
  Selections <- MCSelections
  PolicyKey <- MCPolicyKey

SPECIFICATION NFairSpec
CONSTRAINT Scenarios

INVARIANTS
  PolicyInForceDecides
  AtMostOnePost
  OneTicketPerFinding

PROPERTIES
  EveryChangeEvaluated
  EveryIntentSettles
  ImplementsContract

CHECK_DEADLOCK FALSE
