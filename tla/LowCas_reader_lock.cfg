CONSTANTS
    Producers = {p1, p2}
    Consumer = c
    Size = 2
    MaxWrites = 2
    MaxTickets = 4
    MaxDeaths = 0
    p1 = p1
    p2 = p2
    c = c
SPECIFICATION Spec
INVARIANT ReaderLocksCell
