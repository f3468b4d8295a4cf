\* Power cuts, failed writes and slots that go bad: the promise, and the refinement.
SPECIFICATION StoreSpec
CONSTANTS
    Payload = {factory, a, b}
    Default = factory
    NoPayload = NoPayload
    Damaged = Damaged
    HalfRange = 3
    MayDecay = TRUE
INVARIANT RecordIsKept
PROPERTY SavesAtomically
