SPECIFICATION FairSpec
CONSTANTS
    Runs = {s1, s2, m1}
    Scheduled = {s1, s2}
    TypeOf <- MCTypeOf
    LlmRetries = 2
    PushAttempts = 2
    KeyUsable = TRUE
    MaxFaults = 1
    MaxCrashes = 1
    s1 = s1
    s2 = s2
    m1 = m1
    m2 = m2
INVARIANTS
    TypeOK
    DeliveryRecord
    GivesUpOnlyAfterRetries
    LlmRetriesAgree
PROPERTIES
    LatestNeverOlder
    EveryRunEnds
