\* One run whose metrics raise, two workers, no fault and no cancellation.
SPECIFICATION Spec
CONSTANTS
    q1 = q1
    q2 = q2
    q3 = q3
    NoOne = NoOne
    Workers = {w1, w2}
    Requests = {}
    Runs <- OneRun
    RunOf <- EachRun
    KeyOf <- RetryKey
    Versions <- PlanVersion
    Unmeasurable = {1}
    MaxFaults = 0
    MaxAttempts = 3
INVARIANTS
    ReleasedOnlyAfterFault
