SPECIFICATION Spec
CONSTANTS
    NoValue = NoValue
    Payloads <- MCPayloads
    Batches = {b1, b2}
    PayloadOf <- MCPayloadOf
    Workers = {w1, w2, w3}
    BatchOf <- MCBatchOf
    DistanceOf <- MCDistanceOf
    AgeOf <- MCAgeOf
    AnomalyOf <- MCAnomalyOf
    Questions <- MCQuestions
    TopK = 3
    ContextSize = 2
    MaxFaults = 1
    b1 = b1
    b2 = b2
    w1 = w1
    w2 = w2
    w3 = w3
INVARIANT FiltersAreServed
