CONSTANTS
    Size = 2
    MaxWrites = 6
    MaxDeaths = 2
    NoItem = NoItem
SPECIFICATION FairSpec
INVARIANTS TypeOK NoCellRace ExactlyOnceUpToDeaths
PROPERTIES RefinesChannel AllDrained
