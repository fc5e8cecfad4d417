CONSTANTS
    Processes = {parent, child}
    First = parent
    Handles = {h1, h2, h3}
    Chunks = {c1, c2}
    NoChunk = NoChunk
    Nobody = Nobody
    parent = parent
    child = child
    h1 = h1
    h2 = h2
    h3 = h3
    c1 = c1
    c2 = c2
SPECIFICATION Spec
SYMMETRY Symmetry
CHECK_DEADLOCK FALSE
INVARIANTS TypeOK ArcCountsOwners OwnedIsMapped
