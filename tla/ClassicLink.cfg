\* Two controllers, all commands, all events: safety, and progress under the
\* fairness of the main loop and of BTstack.
SPECIFICATION FairSpec
CONSTANTS
    p1 = p1
    p2 = p2
    NoPeer = NoPeer
    Peer = {p1, p2}
INVARIANTS
    RadioIsOwned
    NeverStranded
    SessionKeepsItsBond
PROPERTIES
    AttemptsAreWanted
    KeepsLifecycle
    BegunEnds
CHECK_DEADLOCK FALSE
