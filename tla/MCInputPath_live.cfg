\* Two fingers and a mouse, two sessions, a page that may vanish, a host that may
\* restart, presses that may fail.
SPECIFICATION PathSpec
CONSTANTS
    Finger = {f1, f2}
    Channel = {1, 2}
    ViewerEvent = {}
    Grain = 1
    FrameSide = 1
    FrameOther = 1
    DisplaySide = 1
    DisplayOther = 1
    CanFail = {"press"}
    MaxQueue = 1
    MaxWire = 2
INVARIANTS
    PathTypeOK
    EveryTapCounts
    NothingStuck
PROPERTIES
    LettingGoReleases
CHECK_DEADLOCK FALSE
