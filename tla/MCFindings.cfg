CONSTANTS
  NoDigest = NoDigest
  Identities = {f1, f2}
  Digests = {g1, g2}
  Migrated = {f2}
  MaxTime = 3
  MaxRuns = 3
  SourceOf <- MCSourceOf
  AssetOf <- MCAssetOf
  SourceReports <- MCReports
  Patches <- MCPatches
  Selections <- MCSelections
  Findings = {1, 2, 3, 4}
  Clients = {"c1", "c2"}
  Workers = {"w1"}
  Holder = "holder"
  Keys = {"k1", "k2"}
  Bulks = {{1, 3}, {1, 2}}
  Expiries = {3}
  MaxMembers = 3
  MaxRequests = 2
  MaxImports = 1
  MaxHolds = 1

SPECIFICATION MCSpec

CONSTRAINT Matters

INVARIANTS
  StateMatchesHistory
  GroupsAreSound
  DispositionIsApproved
  CirclesAreKnown

PROPERTIES
  ReviewedIsCurrent
  BulkSparesSecondaries

CHECK_DEADLOCK FALSE
