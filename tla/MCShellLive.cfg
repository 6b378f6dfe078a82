SPECIFICATION FairSpec
CONSTANTS
    Capacity = 1
    Word <- Words
    Grid = 2
    Lanes = {l1, l2}
    PollDelay = 3
    StagesEarly = FALSE
    OneStatus = TRUE
    Entries <- OneEntry
    Jobs <- GoodHandleJobs
PROPERTY JobEnds
