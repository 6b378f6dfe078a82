SPECIFICATION Spec
CONSTANTS
    Boards = {"card1", "card2"}
    Spellings = {"0a", "0A", "0b"}
    NoBdf = NoBdf
    Lower <- MCLower
    BoardAt <- MCBoardAt
    Runs = {r1, r2}
    NoRun = NoRun
    Requests <- MCRequests
INVARIANT StepExclusion
CHECK_DEADLOCK FALSE
