CONSTANTS
  obs = obs
  rep = rep
  w1 = w1
  w2 = w2
  r1 = r1
  r2 = r2
  NoRun = NoRun
  Runs = {r1, r2}
  Workers = {w1, w2}
  Observations = {obs}
  Imports = {rep}
  Previews <- MCPreviews
  Manifests <- MCManifests
  Histories <- MCHistories
  retentionAttempts = 2
  MaxClaims = 3
  MaxProtections = 1
  MaxViews = 1

SPECIFICATION Spec
SYMMETRY Symmetry

INVARIANTS
  StoredIsReadable
  MissingIsAccident
  ExpiredIsGone
  LedgerKnowsOrphans

CHECK_DEADLOCK FALSE
