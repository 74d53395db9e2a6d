\* Every deadline and a back-off that doubles twice.
CONSTANTS
    None = None
    ConnectTimeout = 2
    FirstFrame = 2
    DegradeAfter = 2
    StaleAfter = 3
    RecoverAfter = 5
    SyncTimeout = 5
    QueryTimeout = 2
    QueryAttempts = 2
    RefreshInterval = 4
    BackoffInitial = 1
    BackoffMax = 5
    HealthyReset = 4
    Modes = {"classic", "bwa"}
    Contents <- ManyContents
SPECIFICATION FairConnectionSpec
INVARIANTS
    ConnectionInv
    NothingLingers
PROPERTIES
    ProgressIsEarned
    ConnectionLives
CHECK_DEADLOCK FALSE
