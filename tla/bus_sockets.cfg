\* Reads of one frame, on three sockets.
CONSTANTS
    None = None
    Foreign = Foreign
    Channels = {16, 17, 18}
    AssignmentWindow = 2
    ClassicAddress = 16
    OwnAddress = 10
    Pace = 1
    Modes = {"channel"}
    Nonces = {n1, n2, n3}
    AssignmentBudget = 2
    Offerable = {17, 48}
    Traffic <- SlowTraffic
    MaxRead = 1
    MaxTime = 3
    MaxEpoch = 3
SPECIFICATION FairBusSpec
INVARIANTS
    BusTypeOK
    AssignmentsBounded
PROPERTIES
    HandshakeResolves
CHECK_DEADLOCK FALSE
