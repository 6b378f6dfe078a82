SPECIFICATION Spec
CONSTANTS
    Capacity = 1
    Word <- Words
    Grid = 2
    Lanes = {l1}
    PollDelay = 3
    StagesEarly = FALSE
    OneStatus = FALSE
    Entries <- TwoGenerations
    Jobs <- HandleJobs
INVARIANTS TypeOK DoneIsDone ResetLosesNothing GridEnforced
PROPERTY KeepsPromise
