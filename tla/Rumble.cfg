\* Lifetimes of a few ticks, up to three stop packets: safety and rest.
SPECIFICATION FairSpec
CONSTANTS
    Hold = 4
    AudioHold = 3
    Tick = 2
    AudioTick = 1
    MaxStops = 3
    DefaultStops = 3
INVARIANTS
    StopIsOwed
PROPERTIES
    SourcesAreApart
    ComesToRest
CHECK_DEADLOCK TRUE
