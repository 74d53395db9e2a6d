\* Two controls, one of them a pump; each plan bounds its own hazards.
CONSTANTS
    None = None
    MaxGap = 2
    StaleAfter = 2
    Controls = {"pump1", "light1"}
    Pumps = {"pump1"}
    Asked <- Goals
    Ratings = {0, 1, 2}
    LoadFaults = {"caught"}
    Plans <- EveryPlan
SPECIFICATION FairCoordinatorSpec
INVARIANTS
    CoordinatorInv
    BooksAreHonest
PROPERTIES
    OthersGoalsSurvive
    EveryoneReturns
CHECK_DEADLOCK FALSE
