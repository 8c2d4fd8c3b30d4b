\* A cancellation, its retry and a rival under another key, against two workers.
SPECIFICATION Spec
CONSTANTS
    q1 = q1
    q2 = q2
    q3 = q3
    NoOne = NoOne
    Workers = {w1, w2}
    Requests = {q1, q2, q3}
    Runs <- OneRun
    RunOf <- RetryRun
    KeyOf <- RetryKey
    Versions <- PlanVersion
    Unmeasurable = {}
    MaxFaults = 0
    MaxAttempts = 0
SYMMETRY WorkerSymmetry
INVARIANTS
    AcceptedOnce
PROPERTIES
    RetryNeverRefused
