\* Two deliveries of one registration, a rival and a review, with reports
\* of up to three intervals.
SPECIFICATION Spec
CONSTANTS
    first = first
    again = again
    rival = rival
    reviewer = reviewer
    r1 = r1
    r2 = r2
    r3 = r3
    Nobody = Nobody
    Call = {first, again, rival, reviewer}
    RequestId = {r1, r2, r3}
    Deliveries <- Sent
    MaxRevision = 4
INVARIANTS
    TypeOK
    TotalsMatchIntervals
    IntervalsDisjoint
    SeverityCoversDeviation
    SuccessAgreesWithEvidence
PROPERTIES
    EvidenceNeverChanges
    RetryDiffersOnlyInClaim
CHECK_DEADLOCK FALSE
