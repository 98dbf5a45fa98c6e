\* No failures: two devices, three sessions, every interleaving.
SPECIFICATION Spec
CONSTANTS
    Device = {d1, d2}
    NoDevice = none
    MaxSession = 3
    MaxInbox = 2
    MaxCommands = 2
    MaxRestarts = 0
    MaxSaveFaults = 0
    CanLoseSignaling = FALSE
SYMMETRY DeviceSymmetry
INVARIANTS
    TypeOK
    OneLiveSession
    LiveIsPaired
    AnswerMatchesPeer
    PendingIsCurrent
    BadgeIsTruthful
