\* Two processes that may overlap and end anywhere, three starts.
SPECIFICATION Spec
CONSTANTS
    Process = {p1, p2}
    Device = {d1, d2}
    Name = {n1, n2}
    Unpaired = unpaired
    Absent = absent
    Torn = torn
    MaxStarts = 3
SYMMETRY StoreSymmetry
INVARIANTS
    ListSurvives
    MemoryIsTruth
    CertificateKept
CHECK_DEADLOCK FALSE
