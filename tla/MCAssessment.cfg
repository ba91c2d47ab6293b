SPECIFICATION MCSpec
CONSTANTS
    w1 = w1
    w2 = w2
    Workers = {w1, w2}
    Limits <- MCLimits
    Previews = {p1}
    Oversize = {}
    Profiles <- MCProfiles
    Modes = {"approved-hosted", "disabled"}
    Grants = {g1}
    MaxJobs = 2
    MaxChanges = 1
CONSTRAINT Canonical
INVARIANTS
    PoolIsBounded
    DispatchIsHonest
PROPERTIES
    ResultsAreConsented
    EveryAssessmentSettles
CHECK_DEADLOCK FALSE
