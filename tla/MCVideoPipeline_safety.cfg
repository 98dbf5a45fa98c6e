\* Numbers and times that wrap, frames of one or two packets, lost and failed ones.
SPECIFICATION Spec
CONSTANTS
    Gop = 2
    SeqMod = 4
    TimeMod = 4
    Gaps = {1, 3}
    MaxInside = 1
    MaxParts = 2
    MaxCaptures = 4
    MaxMissed = 2
INVARIANTS
    VideoTypeOK
    EveryFrameAccounted
    AtMostAFrameBehind
    WholeFrames
    CleanWithinGop
PROPERTIES
    TimestampsFollow
CHECK_DEADLOCK FALSE
