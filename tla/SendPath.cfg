\* Two controllers: safety, order and progress of the output.
SPECIFICATION FairSpec
CONSTANTS
    calibration = calibration
    firmware = firmware
    test = test
    Peer = {p1, p2}
    None = None
    Data = {d}
    Greeting = Greeting
    Report <- MCReport
    InitReports <- MCInitReports
    Volatile <- MCVolatile
    FifoCapacity = 2
    ControlLimit = 3
    EpochLimit = 3
INVARIANTS
    QueuesAreLive
    SessionsApart
PROPERTIES
    KeepsOrder
    OutputMoves
