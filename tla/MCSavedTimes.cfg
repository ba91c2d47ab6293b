SPECIFICATION Spec
CONSTANTS
    Workers = {w1}
    Steady = {w1}
    Snapshots = {s1, s2}
    Exports = {x1}
    Instants = {2, 3}
    MaxAttempts = 2
    MaxPosture = 2
    MaxFaults = 1
INVARIANT
    SavedTimesAgree
