\* Two sessions' channels, any events, and any call to the system may fail.
SPECIFICATION Spec
CONSTANTS
    Channel = {c1, c2}
    ViewerEvent <- SomeEvents
    Grain = 4
    FrameSide = 6
    FrameOther = 4
    DisplaySide = 4
    DisplayOther = 4
    CanFail = {"move", "press", "release", "reset", "key"}
    MaxQueue = 2
SYMMETRY ChannelSymmetry
INVARIANTS
    InjectorTypeOK
    NobodyHolds
    ModifiersReleased
PROPERTIES
    MovesAddUp
CHECK_DEADLOCK FALSE
