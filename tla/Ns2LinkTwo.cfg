\* Two controllers, a short set-up: whose link, key and target it is.
SPECIFICATION Spec
CONSTANTS
    Peer = {p1, p2}
    NoPeer = NoPeer
    FinalizeIndex = 0
    InitCount = 1
    MaxRetries = 0
    MaxServices = 0
    Preferences = {TRUE, FALSE}
    AutoSettings = {TRUE}
SYMMETRY Symmetry
CHECK_DEADLOCK FALSE
INVARIANTS
    LinkIsOneControllers
    EraseBeforeNewLink
PROPERTY OnlyPartnersKept
