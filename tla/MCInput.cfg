\* Two states of a controller, pairs of held buttons with one binding at a time,
\* and every position of a stick around three centres.
SPECIFICATION MCSpec
CONSTANTS
    Ds5 = Ds5
    Ns2 = Ns2
    Nobody = Nobody
    Frames = {Up, Down}
    Neutral = Neutral
    Sequences = 3
    Clock = 2
    Stale = 1
    MaxSilence = 1
    Rebound = {"dpad_down", "left_trigger", "back", "touchpad", "capture"}
    MaxBindings = 1
    MaxPressed = 2
    Centres = {1600, 1999, 2495}
INVARIANTS
    ShownIsFresh
    ReadsBindings
    KeepsRestAndEnds
PROPERTIES
    Released
    Follows
CHECK_DEADLOCK TRUE
