\* Lost and delayed toggles, disconnections, replaced goals; free and forced circulation.
CONSTANTS
    None = None
    Capabilities <- MCCapabilities
    SetupLimits <- MCSetupLimits
    FilterMaxAge = 3
    Controls = {"pump1"}
    ConfirmationGuard = 1
    ConfirmationTimeout = 2
    FilterConfirmationTimeout = 2
    ResyncSettle = 2
    StateMaxAge = 2
    MaxActions = 2
    Goals <- OffHighGoals
    Deadlines = {0}
    Defers = {0}
    Statuses <- MCStatuses
    Schedules = {}
    Availability = {TRUE}
    ReceiptLag = 0
    MaxTime = 4
    MaxRequests = 2
    MaxSequence = 3
    MaxEpoch = 2
    MaxSends = 2
    LineDelay = 1
SPECIFICATION DeliverySpec
INVARIANTS
    PlanStillHolds
    JetsStayStopped
PROPERTIES
    SuccessIsReal
CHECK_DEADLOCK FALSE
