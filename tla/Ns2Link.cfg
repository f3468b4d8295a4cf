\* One controller: set-up, pairing, saving and the commands, and that none of
\* it comes to a standstill.
SPECIFICATION FairSpec
CONSTANTS
    Peer = {p1}
    NoPeer = NoPeer
    FinalizeIndex = 1
    InitCount = 2
    MaxRetries = 1
    MaxServices = 1
    Preferences = {FALSE}
    AutoSettings = {TRUE, FALSE}
CHECK_DEADLOCK FALSE
INVARIANTS
    WaitsAreAnswered
    QuietWhenTold
PROPERTY NeverStuck
