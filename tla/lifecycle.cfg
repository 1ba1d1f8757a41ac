CONSTANTS
    Person = {p1, p2, p3}
    NoOne = NoOne
    Nil = Nil
    T1 = T1
    T2 = T2
    TaskId = {T1, T2}
    TransportReports <- OneReport
    StagePlans <- OneStage
    Readings <- GoodOrShort
    SentCorrections <- NoneSent
    TaskLists <- TwoTasks
    MaxRevision = 9
SPECIFICATION Spec
SYMMETRY People
CHECK_DEADLOCK FALSE
INVARIANTS
    TypeOK
    NamesDiffer
    PassedTasksVerifiedByAnother
    HistoryRecordsDecisions
PROPERTIES
    ApprovedPlanIsFrozen
    StatusFollowsTable
    HiddenTaskBlocksRelease
