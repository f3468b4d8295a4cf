\* Does a later cancel call off an explicit forget?
SPECIFICATION Spec
CONSTANTS
    p1 = p1
    p2 = p2
    NoPeer = NoPeer
    Peer = {p1, p2}
PROPERTY ExplicitForgetStays
CHECK_DEADLOCK FALSE
