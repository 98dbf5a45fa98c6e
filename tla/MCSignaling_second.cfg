\* A second host process starts beside the first one and ends.
SPECIFICATION Spec
CONSTANTS
    Host = {h1, h2}
    Viewer = {v1}
    None = none
    Stranger = {}
    SecondHost = TRUE
    Overtaking = FALSE
INVARIANTS
    HeardOfEveryViewer
CHECK_DEADLOCK FALSE
