SPECIFICATION FairSession
CONSTANTS
    Boards = {"card1"}
    Spellings = {"0a", "0A"}
    NoBdf = NoBdf
    Lower <- MCLower
    BoardAt <- MCBoardAt
    Runs = {r1}
    NoRun = NoRun
    Requests <- AllPlans
    Outlasting = {r1}
    HotPlug = {"card1"}
    Matches <- Alone
    Twins <- Alone
PROPERTY WedgeSelfRecovers
CHECK_DEADLOCK FALSE
