CONSTANTS
    Producers = {p1, p2}
    Consumer = c
    Size = 2
    MaxWrites = 2
    MaxCrashes = 2
    SpuriousFailure = FALSE
    NoItem = NoItem
    p1 = p1
    p2 = p2
    c = c
SPECIFICATION FairSpec
INVARIANTS TypeOK NoCellRace FifoDelivery IndInv
PROPERTIES RefinesQueue StallOnlyFromAbandonedTicket
