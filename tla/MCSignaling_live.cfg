\* One host and two page loads, which register in the order they were made.
SPECIFICATION FairSpec
CONSTANTS
    Host = {h1}
    Viewer = {v1, v2}
    None = none
    Stranger = {}
    SecondHost = FALSE
    Overtaking = FALSE
INVARIANTS
    SlotIsNewest
    Introduced
    ConfigFirst
    AnswersInOrder
PROPERTIES
    NewestServed
CHECK_DEADLOCK FALSE
