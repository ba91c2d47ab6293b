CONSTANTS
  q1 = q1
  q2 = q2
  q3 = q3
  q4 = q4
  u1 = u1
  u2 = u2
  s1 = s1
  s2 = s2
  w1 = w1
  w2 = w2
  f1 = f1
  f2 = f2
  g1 = g1
  Nobody = Nobody
  NoDigest = NoDigest
  importAttempts = 2
  MaxTime = 2
  MaxRuns = 2
  Uploads <- MCUploads
  ScanOf <- MCScanOf
  ContentOf <- MCContentOf
  ActorOf <- MCActorOf
  Users <- MCUsers
  Workers <- MCWorkers
  Identities <- MCIdentities
  Digests = {g1}
  Migrated = {}
  ReportOf <- MCReportOf

CONSTRAINT OneOther
SPECIFICATION IFairSpec

INVARIANTS
  ProjectionShowsSucceeded
  AcknowledgedIsDurable
  PendingHasAuthority

PROPERTIES
  EveryImportEnds
