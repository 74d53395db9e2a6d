\* One filter change and a guarded light.
CONSTANTS
    None = None
    Capabilities <- MCCapabilities
    SetupLimits <- MCSetupLimits
    FilterMaxAge = 3
    Controls = {"filters", "light1"}
    ConfirmationGuard = 1
    ConfirmationTimeout = 2
    FilterConfirmationTimeout = 3
    ResyncSettle = 1
    StateMaxAge = 4
    MaxActions = 2
    Goals <- LightGoals
    Deadlines = {0}
    Defers = {0}
    Statuses <- DarkStatuses
    Schedules = {}
    Availability = {TRUE}
    ReceiptLag = 0
    MaxTime = 4
    MaxRequests = 2
    MaxSequence = 2
    MaxEpoch = 2
    MaxSends = 1
    QueryTimeout = 1
    QueryAttempts = 2
    MetadataRefreshInterval = 3
    Cycles = {"a", "b"}
    FirstRecords <- SameRecords
    Changes <- FirstChange
    Granted = {TRUE}
    Lossy = {"filters"}
    LineDelay = 1
    Revisions = {1, 2}
    PanelTimes = {2}
    MaxVersions = 2
SPECIFICATION RuntimeSpec
INVARIANTS
    RuntimeInv
PROPERTIES
    ConditionsKept
    FreshRecord
    FilterConfirmed
CONSTRAINT Relevant
CHECK_DEADLOCK FALSE
