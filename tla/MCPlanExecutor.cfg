SPECIFICATION FairSpec
CONSTANTS
    Boards = {"card1", "card2"}
    Spellings = {"0a", "0A", "0b"}
    NoBdf = NoBdf
    Lower <- MCLower
    BoardAt <- MCBoardAt
    Runs = {r1, r2}
    NoRun = NoRun
    Requests <- MCRequests
INVARIANTS TypeOK RunExclusion OverlapNeedsOrphan StepsNeedTheirPrefix FailedRunReleases
PROPERTIES ExclusiveBoard EveryRunEnds
CHECK_DEADLOCK FALSE
