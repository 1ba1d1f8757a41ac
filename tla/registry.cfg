\* Three ids, three times of which the last has the text of the second and one
\* more digit, pages of one batch, two writes that fail.
SPECIFICATION Spec
CONSTANTS
    upper = upper
    lower = lower
    between = between
    unordered = unordered
    siteA = siteA
    siteB = siteB
    X = X
    Y = Y
    y = y
    Request = {upper, lower, between, unordered}
    body <- Asked
    ID <- Ids
    Generated <- MadeUp
    Site = {siteA, siteB}
    Code = {X, Y}
    Spelling = {X, Y, y}
    normal <- UpperCase
    Depth <- Depths
    DepthLimit = 4
    Time <- Times
    Places <- Decimals
    Limit = 1
    MaxSeen = 4
    MaxFaults = 2
INVARIANTS
    TypeOK
    NoConflicts
    AcknowledgedIsKept
    RetryMakesNoSecondBatch
    ListingInOrder
    SteadyBatchesListed
