\* No write fails; one operation is interrupted.
SPECIFICATION Spec
CONSTANTS
    b1 = b1
    b2 = b2
    r1 = r1
    r2 = r2
    r3 = r3
    r4 = r4
    r5 = r5
    r6 = r6
    Batch = {b1}
    RequestId = {r1, r2}
    Request <- OneBatch
    MaxFaults = 0
    MaxCrashes = 1
INVARIANTS
    AppliedIsAccountedFor
CHECK_DEADLOCK FALSE
