\* Fair scheduling, no failures: what must happen, and the refinement.
SPECIFICATION FairSpec
CONSTANTS
    Device = {d1, d2}
    NoDevice = none
    MaxSession = 2
    MaxInbox = 2
    MaxCommands = 2
    MaxRestarts = 0
    MaxSaveFaults = 0
    CanLoseSignaling = FALSE
PROPERTIES
    CloseHitsItsDevice
    RemovalDisconnects
    ApprovalTakesEffect
    GateKept
