SPECIFICATION Spec
CONSTANTS
    Capacity = 1
    Word <- Words
    Grid = 2
    Lanes = {l1}
    PollDelay = 0
    StagesEarly = FALSE
    OneStatus = FALSE
    Entries <- TwoGenerations
    Jobs <- GoodHandleJobs
INVARIANT DoneIsDone
