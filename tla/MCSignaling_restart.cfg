\* A host and its restart, two page loads, registering in any order.
SPECIFICATION Spec
CONSTANTS
    Host = {h1, h2}
    Viewer = {v1, v2}
    None = none
    Stranger = {h2}
    SecondHost = FALSE
    Overtaking = TRUE
SYMMETRY ViewerSymmetry
INVARIANTS
    TypeOK
    AcceptedIsNewest
PROPERTIES
    AnsweredOnce
CHECK_DEADLOCK FALSE
