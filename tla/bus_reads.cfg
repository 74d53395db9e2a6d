\* Every mode, reads of up to two frames, on two sockets.
CONSTANTS
    None = None
    Foreign = Foreign
    Channels = {16, 17, 18}
    AssignmentWindow = 1
    ClassicAddress = 16
    OwnAddress = 10
    Pace = 1
    Modes = {"auto", "bwa", "channel", "classic", "direct"}
    Nonces = {n1, n2, n3}
    AssignmentBudget = 2
    Offerable = {17, 18}
    Traffic <- MixedTraffic
    MaxRead = 2
    MaxTime = 2
    MaxEpoch = 2
SPECIFICATION BusSpec
INVARIANTS
    AckAnswersRequest
    OneWrite
    SlotsRespected
PROPERTIES
    FailedIsSilent
SYMMETRY NonceSymmetry
CHECK_DEADLOCK FALSE
