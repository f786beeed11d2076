CONSTANTS
    k1 = k1
    k2 = k2
    Caller = {c1, c2}
    Key = {k1, k2}
    FirstKey = k1
    Asked <- MCAsked
    listTTL = 2
    fallbackTTL = 2
    minute = 1
    MaxTime = 2
    None = None
SPECIFICATION FairSpec
INVARIANT TypeOK
PROPERTIES
    ToldRevocationsStick
    RevocationIsSeen
    RotationCounts
    ListAskedOnceAMinute
    EveryVerificationAnswered
