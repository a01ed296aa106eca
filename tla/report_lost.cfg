SPECIFICATION Spec
CONSTANTS
    Runs = {m1, m2}
    Scheduled = {}
    TypeOf <- MCTypeOf
    LlmRetries = 1
    PushAttempts = 2
    KeyUsable = TRUE
    MaxFaults = 0
    MaxCrashes = 0
    s1 = s1
    s2 = s2
    m1 = m1
    m2 = m2
INVARIANTS
    AnswerNeverLosesReport
