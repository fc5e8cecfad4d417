CONSTANTS
    Producers = {p1, p2}
    Consumer = c
    Size = 2
    MaxWrites = 3
    MaxDeaths = 1
    Empty = Empty
    p1 = p1
    p2 = p2
    c = c
SPECIFICATION FairSpec
CHECK_DEADLOCK FALSE
INVARIANTS HeadsOrdered
PROPERTIES RefinesPool InOrderUnlessStale DrainedUnlessStale
