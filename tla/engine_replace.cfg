\* Two requests for one pump: deadlines, replacement, cancellation.
CONSTANTS
    None = None
    Capabilities <- MCCapabilities
    SetupLimits <- MCSetupLimits
    FilterMaxAge = 3
    Controls = {"pump1"}
    ConfirmationGuard = 1
    ConfirmationTimeout = 2
    FilterConfirmationTimeout = 3
    ResyncSettle = 1
    StateMaxAge = 2
    MaxActions = 2
    Goals <- PumpGoals
    Deadlines = {0, 2}
    Defers = {0}
    Statuses <- OffHighStatuses
    Schedules = {}
    Availability = {TRUE}
    ReceiptLag = 1
    MaxTime = 4
    MaxRequests = 2
    MaxSequence = 2
    MaxEpoch = 1
    MaxSends = 2
SPECIFICATION FairSpec
INVARIANTS
    TypeOK
    OneTransaction
    ActionsAreOwed
PROPERTIES
    TerminalIsFinal
    OutcomesStand
    EverythingResolves
CHECK_DEADLOCK FALSE
