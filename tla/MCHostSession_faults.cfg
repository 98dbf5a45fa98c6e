\* One restart of the host while viewers stay, one failed save, and signaling
\* that may drop.
SPECIFICATION Spec
CONSTANTS
    Device = {d1, d2}
    NoDevice = none
    MaxSession = 2
    MaxInbox = 2
    MaxCommands = 1
    MaxRestarts = 1
    MaxSaveFaults = 1
    CanLoseSignaling = TRUE
SYMMETRY DeviceSymmetry
INVARIANTS
    LoopInv
    AccessKept
    TruthfulUntilRestart
PROPERTIES
    ClickActsOnItsDevice
    RestartKeepsList
