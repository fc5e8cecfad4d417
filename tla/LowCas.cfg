CONSTANTS
    Producers = {p1, p2}
    Consumer = c
    Size = 2
    MaxWrites = 2
    MaxTickets = 4
    MaxDeaths = 1
    p1 = p1
    p2 = p2
    c = c
SPECIFICATION Spec
SYMMETRY Symmetry
CHECK_DEADLOCK FALSE
INVARIANTS TypeOK NothingPassedOver ReaderAheadBounded

