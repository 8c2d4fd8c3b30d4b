\* Imports, reads and metrics; governed solves; the projection's algorithms.
CONSTANTS
    None = None
    Missing = Missing
    Day = 8
    Scale = 60
    Importers = {"i1", "i2", "i3", "i4"}
    Readers = {r1}
    Computes = {c1}
    Offer <- OfferRace
    Payload <- MCPayload
    Schedules <- MCSchedules
    MetricRequests <- MCMetricRequests
    PageSize = 1
    MaxRows = 2
    Hour = 2
    HourScale = 60
    SlotLength = 4
    MinGap = 1
    MaxStarts = 3
    ShiftsPerDay = 2
    Slop = 1
    RateScale = 12
    Payloads <- MCPayloads
    Overrides <- MCOverrides
    FactPayloads <- MCFactPayloads
    Requests <- MCRequests
    Queries <- MCQueries
    WorkerRows <- MCWorkerRows
    AssignmentRows <- MCAssignmentRows
    Threads = {t1, t2}
    MaxCalls = 2
    RowLimit = 2
    Calculations <- MCCalculations
    Replies <- MCReplies
    Texts <- MCTexts
    TokenBudget = 3
    Threshold = 50
    CallIds = {k1, k2}
    MaxRepeat = 2
    Contexts <- MCContexts
    Records <- MCRecords
    Locks <- MCLocks
    Horizon <- MCHorizon
    DayMinutes = 8
    HardMaxHours = 56
    MaxConstraints = 2
    MaxLocks = 3
    LockPage = 2
    MaxCandidates = 3
    Proposals <- MCProposals
    Candidates <- MCCandidates
SPECIFICATION Spec
CHECK_DEADLOCK FALSE
INVARIANTS
    ImportsAreExact
    ReadsAreHonest
    SolveIsSound
    ProjectionIsExact
    AnswersAreGrounded
    CallsAreGoverned
    DraftsAreSolvable
