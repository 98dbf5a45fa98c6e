\* Signaling drops, then a connected device is removed.
SPECIFICATION Spec
CONSTANTS
    Device = {d1, d2}
    NoDevice = none
    MaxSession = 1
    MaxInbox = 2
    MaxCommands = 2
    MaxRestarts = 0
    MaxSaveFaults = 0
    CanLoseSignaling = TRUE
INVARIANTS
    LiveIsPaired
