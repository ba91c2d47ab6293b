SPECIFICATION MCSpec
CONSTANTS
    w1 = w1
    w2 = w2
    Workers = {w1, w2}
    Steady = {w1}
    Snapshots = {s1, s2}
    Exports = {x1}
    Instants = {3}
    MaxAttempts = 2
    MaxPosture = 2
    MaxFaults = 1
    MaxFinding = 3
    Reported <- MCReported
    Decisions <- MCDecisions
    ScanTimes = {0, 2}
    Assets = {x}
    Scopes = {p, q}
    Window = 1
    Targets <- MCTargets
    PageSize = 1
    MaxTime = 3
    MaxChanges = 2
CONSTRAINT Canonical
INVARIANTS
    PagesMatchTheNumber
    PagesMissNothing
    MeasuresAreExact
PROPERTIES
    NeitherQueueStarves
CHECK_DEADLOCK FALSE
