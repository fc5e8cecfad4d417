CONSTANTS
    Producers = {p1, p2}
    Consumer = c
    Size = 2
    MaxIndex = 1023
    MaxWrites = 2
    MaxDeaths = 1
    Empty = Empty
    NoTicket = NoTicket
    p1 = p1
    p2 = p2
    c = c
SPECIFICATION FairSpec
CHECK_DEADLOCK FALSE
INVARIANTS TypeOK CellExclusive NothingLeftBehind ReaderBehindTickets
PROPERTIES RefinesPool LaterItemsRead
