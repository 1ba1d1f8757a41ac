CONSTANTS
    Person = {p1, p2}
    NoOne = NoOne
    Nil = Nil
    T1 = T1
    T2 = T2
    TaskId = {T1, T2}
    TransportReports <- ManyReports
    StagePlans <- ManyStages
    Readings <- ManyReadings
    SentCorrections <- Uncoded
    TaskLists <- OneTask
    MaxRevision = 9
SPECIFICATION Spec
SYMMETRY People
CHECK_DEADLOCK FALSE
INVARIANTS
    ThawingHasNextStage
    ThawingIsClean
    AnomalyWasRemediated
    RiskMatchesEvidence
    PassAcceptedIsOffered
PROPERTIES
    SealOnlyWhenCleared
