\* One goal, up to three physical actions, losses and reconnections.
CONSTANTS
    None = None
    Capabilities <- MCCapabilities
    SetupLimits <- MCSetupLimits
    FilterMaxAge = 3
    Controls = {"pump1"}
    ConfirmationGuard = 1
    ConfirmationTimeout = 2
    FilterConfirmationTimeout = 3
    ResyncSettle = 1
    StateMaxAge = 2
    MaxActions = 2
    Goals <- HighGoal
    Deadlines = {0}
    Defers = {0}
    Statuses <- PumpStatuses
    Schedules = {}
    Availability = {TRUE}
    ReceiptLag = 0
    MaxTime = 4
    MaxRequests = 1
    MaxSequence = 5
    MaxEpoch = 3
    MaxSends = 3
SPECIFICATION Spec
INVARIANTS
    NothingAfterAmbiguity
    BudgetRespected
PROPERTIES
    BarrierSpec
CHECK_DEADLOCK FALSE
