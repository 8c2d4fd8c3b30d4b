\* One run, two workers, one cancellation: two faults and up to three leases, or one
\* fault and a run whose metrics raise on every attempt.
SPECIFICATION FocusSpec
CONSTANTS
    q1 = q1
    q2 = q2
    q3 = q3
    NoOne = NoOne
    Workers = {w1, w2}
    Requests = {q1, q2}
    Runs <- TwoRuns
    RunOf <- EachRun
    KeyOf <- RetryKey
    Versions <- PlanVersion
    Unmeasurable = {2}
    MaxFaults = 2
    MaxAttempts = 3
INVARIANTS
    FencingInvariant
    OneCandidate
    AttemptsInOrder
PROPERTIES
    ImplementsLifecycle
    EveryRunEnds
