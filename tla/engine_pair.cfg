\* A reminder acknowledgement and a light share the one transaction slot.
CONSTANTS
    None = None
    Capabilities <- MCCapabilities
    SetupLimits <- MCSetupLimits
    FilterMaxAge = 3
    Controls = {"ack_reminder", "light1"}
    ConfirmationGuard = 1
    ConfirmationTimeout = 2
    FilterConfirmationTimeout = 3
    ResyncSettle = 1
    StateMaxAge = 2
    MaxActions = 2
    Goals <- PairGoals
    Deadlines = {0}
    Defers = {0}
    Statuses <- PairStatuses
    Schedules = {"late"}
    Availability = {TRUE}
    ReceiptLag = 0
    MaxTime = 3
    MaxRequests = 2
    MaxSequence = 3
    MaxEpoch = 2
    MaxSends = 2
SPECIFICATION Spec
INVARIANTS
    AcknowledgedOnce
    SettledBeforeRetry
CHECK_DEADLOCK FALSE
