\* The same instance, with errors that reading a record does not catch.
CONSTANTS
    None = None
    MaxGap = 2
    StaleAfter = 2
    Controls = {"pump1", "light1"}
    Pumps = {"pump1"}
    Asked <- Goals
    Ratings = {0, 1, 2}
    LoadFaults = {"caught", "uncaught"}
    Plans <- EveryPlan
SPECIFICATION FairCoordinatorSpec
PROPERTY UnreadableIsKept
CHECK_DEADLOCK FALSE
