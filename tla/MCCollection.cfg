SPECIFICATION FairSpec
CONSTANTS
    Workers <- MCWorkers
    Sources <- MCSources
    Repositories <- MCRepositories
    Pages = 2
    MaxJobs = 2
    MaxChanges = 1
CONSTRAINT Canonical
INVARIANTS
    EvidenceIsStored
PROPERTIES
    PublishedUnderAuthority
    EveryCollectionEnds
CHECK_DEADLOCK FALSE
