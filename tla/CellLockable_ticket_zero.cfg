CONSTANTS
    Producers = {p1, p2}
    Consumer = c
    Size = 2
    MaxIndex = 1023
    MaxWrites = 1
    MaxDeaths = 0
    Empty = Empty
    NoTicket = NoTicket
    p1 = p1
    p2 = p2
    c = c
CHECK_DEADLOCK FALSE
SPECIFICATION FairSpec
PROPERTY EveryItemRead
