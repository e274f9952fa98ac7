SPECIFICATION FilesSpec
CHECK_DEADLOCK FALSE
CONSTANTS
    a = a
    b = b
    v1 = v1
    v2 = v2
    Entries = {a, b}
    Values = {v1, v2}
    Newest = v1
    Unpinned = v2
    Requests = {r1, r2}
    Installs = {i1, i2}
    Nodes = {n1, n2, n3, n4, n5, n6, n7, n8}
    Cut = Cut
    None = None
    Scenes <- MCScenes
    MaxDequeues = 2
    MaxCalls = 3
    MaxBreaks = 2
SYMMETRY Symmetry
INVARIANTS
    FilesInv
    ChangesStay
