\* Two roles, replies of two chunks, four commands: safety and progress.
SPECIFICATION FairSpec
CONSTANTS
    Role = {ds5, xinput}
    DefaultRole = ds5
    DebugOnly = DebugOnly
    None = None
    DetachAfter = 1
    AttachAfter = 2
    MaxChunks = 2
    MaxSets = 4
INVARIANTS
    IdentityIsOne
    OutputIsOwn
    RepliesAreWhole
PROPERTIES
    CommandsEnd
CHECK_DEADLOCK FALSE
