\* Short queues and two changes of each stream, and a ring of five samples:
\* safety, progress under the fairness of the two cores, and the refinement.
SPECIFICATION MCSpec
CONSTANTS
    MicFrames = 2
    SpeakerFrames = 1
    HasDecoder = TRUE
    HasEncoder = TRUE
    MaxMicEpoch = 3
    MaxSpeakerEpoch = 1
    Sample = {0, 1}
    Capacity = 5
    Prime = 4
    PacketLen = 2
INVARIANTS
    StreamsAreCurrent
    MicFollowsHost
PROPERTIES
    FramesServed
    KeepsOrder
