SPECIFICATION Spec
CONSTANTS
    Null = Null
    Files <- McFiles
    MigrationsAt <- McMigrationsAt
    GoldenAt <- McGoldenAt
    MaxCommits = 3
    MaxEdits = 2
    MaxTime = 2
    ChatGrant = {"read", "act"}
    AllowedTags = {"read", "act"}
    RequiredRuns = 2
    SpendCeiling = 5
    TurnLimit = 3
    CaseLimit = 2
    TurnsOf <- McTurnsOf
    PassOutcomes <- McPassOutcomes
    AuthoredTurns <- McAuthoredTurns
    RequiredReps = 2
    ExecutionRetries = 1
    SuiteSpend = 13
    AggregateFloor = 6
    Configs = {"config"}
    OperationsAt <- McOperationsAt
    UnreachableInChat = {"plan"}
    Meets <- McMeets
    MaxReports = 2
    Declared <- McDeclared
    XmlCases <- McXmlCases
    CaseFloor = 5
    CapabilityFloor = 1
    ProtectedFloor = 1
    ConsequentialCapabilities = {"act"}
    MaxMeasures = 2
    MaxMisses = 1
INVARIANT ReleaseIsEarned
CHECK_DEADLOCK FALSE
