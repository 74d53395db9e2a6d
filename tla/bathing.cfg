\* One session and one more request, and one thing that goes wrong.
CONSTANTS
    None = None
    LowTargets = {1}
    HighTargets = {2, 3}
    Minimum = 3
    MaxTime = 2
    Longest = 1
    Kinds = {"range", "plain"}
    Disturbances = 1
    Requests = 2
    Found <- EitherRange
SPECIFICATION FairBathingSpec
INVARIANTS
    BathingInv
PROPERTIES
    SendsAreOwed
    
    Finishes
CHECK_DEADLOCK FALSE
