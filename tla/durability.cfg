\* Two failed writes and one interrupted operation, anywhere.  A process whose
\* clients have no request left that it accepts or replays does nothing.
SPECIFICATION Spec
CONSTANTS
    b1 = b1
    b2 = b2
    r1 = r1
    r2 = r2
    r3 = r3
    r4 = r4
    r5 = r5
    r6 = r6
    Batch = {b1, b2}
    RequestId = {r1, r2, r3, r4, r5, r6}
    Request <- TwoBatches
    MaxFaults = 2
    MaxCrashes = 1
INVARIANTS
    TypeOK
    LogNotAheadOfSnapshot
    AnswersMatchBatches
    UnharmedChainVerifies
PROPERTIES
    VerifiedStaysVerified
    ImplementsLedger
CHECK_DEADLOCK FALSE
