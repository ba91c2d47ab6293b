SPECIFICATION MCSpec
CONSTANTS
  k1 = k1
  k2 = k2
  w1 = w1
  w2 = w2
  big = big
  small = small
  ws1 = ws1
  obs = obs
  Keys <- MCKeys
  Workspaces <- MCWorkspaces
  Home <- MCHome
  Workers <- MCWorkers
  Verifiers <- MCWorkers
  ConfigMax <- MCConfigMax
  Envelopes <- MCEnvelopes
  Budget <- MCBudget
  Nobody = Nobody
  Runs = {r1}
  retentionAttempts = 3
  NoRun = NoRun
  e1 = e1
  e2 = e2
  Evidence = {e1, e2}
  Condition <- MCCondition
  Approvals = {a1}
  Jobs = {j1}
  MaxAttempts = 3
  MaxRevision = 2
  MaxFaults = 3
CONSTRAINT Canonical
INVARIANTS
  ReceiptIsExclusive
  EndingIsHonest
PROPERTIES
  EveryRunEnds
  RevocationEndsWork
  EveryVerificationEnds
CHECK_DEADLOCK FALSE
