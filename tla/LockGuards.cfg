CONSTANTS
    Threads = {t1, t2}
    Places = {v, w}
    Aligned = {a}
    Packed = {b}
    Entries = {e, f}
    MaxWraps = 2
    Null = Null
    t1 = t1
    t2 = t2
    v = v
    w = w
    a = a
    b = b
    e = e
    f = f
SPECIFICATION Spec
SYMMETRY Symmetry
CHECK_DEADLOCK FALSE
INVARIANTS OneGuardPerLock FindingsStayTrue AdvancedOnce
