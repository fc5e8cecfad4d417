CONSTANTS
    Procs = {q1, q2}
    Maker = q1
    Names = {n1, n2}
    Sizes = {1, 2}
    entry_number = 1
    MaxDeaths = 1
    MaxSegments = 3
    NoName = NoName
    NoOne = NoOne
    q1 = q1
    q2 = q2
    n1 = n1
    n2 = n2
SPECIFICATION DASpec
SYMMETRY Symmetry
CHECK_DEADLOCK FALSE
INVARIANTS DATypeOK RefsCountHolders SharedSegment MappedWithinSegment SegmentsAccounted TableOutlivesOwners
