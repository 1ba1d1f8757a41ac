\* A plan, a decision on it and a rival one, sent with and without its reason,
\* a revised plan or an observation and the release, with one reader.
SPECIFICATION Spec
CONSTANTS
    plan1 = plan1
    approve1 = approve1
    unsaid1 = unsaid1
    reject1 = reject1
    plan2 = plan2
    observe = observe
    seal = seal
    r1 = r1
    r2 = r2
    r3 = r3
    r4 = r4
    r5 = r5
    r6 = r6
    reader = reader
    Nobody = Nobody
    Call = {plan1, approve1, unsaid1, reject1, plan2, observe, seal}
    request <- Sent
    RequestId = {r1, r2, r3, r4, r5, r6}
    Reader = {reader}
INVARIANTS
    TypeOK
    TornViewOverlapped
    FailedCheckOverlapped
    DecisionHitsNamedVersion
PROPERTIES
    ImplementsAtomicService
    RetryRefusedOnlyAfterNewVersion
    EveryCallReturns
    ChecksSettle
