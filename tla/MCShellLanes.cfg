SPECIFICATION Spec
CONSTANTS
    Capacity = 0
    Word <- Words
    Grid = 2
    Lanes = {l1, l2}
    PollDelay = 0
    StagesEarly = FALSE
    OneStatus = FALSE
    Entries <- NoEntries
    Jobs <- AddressJobs
INVARIANTS StartsClean ResetLosesNothing GoodLaneHasItsBatch
