CONSTANTS
    Procs = {parent, child}
    First = parent
    Vars = {a, b}
    Rings = {r1, r2}
    Null = Null
    MaxCopies = 2
    parent = parent
    child = child
    a = a
    b = b
    r1 = r1
    r2 = r2
SPECIFICATION Spec
CHECK_DEADLOCK FALSE
SYMMETRY Symmetry
INVARIANTS TypeOK FlagFollowsRing NoSecondEnd MappedByOneOwner
