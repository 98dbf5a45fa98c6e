\* A viewer joins when the screen has stopped changing.
SPECIFICATION FairSpec
CONSTANTS
    Gop = 2
    SeqMod = 4
    TimeMod = 4
    Gaps = {1}
    MaxInside = 0
    MaxParts = 1
    MaxCaptures = 3
    MaxMissed = 0
PROPERTIES
    PictureInTheEnd
CHECK_DEADLOCK FALSE
