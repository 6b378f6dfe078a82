SPECIFICATION SessionSpec
CONSTANTS
    Boards = {"card1"}
    Spellings = {"0a", "0A"}
    NoBdf = NoBdf
    Lower <- MCLower
    BoardAt <- MCBoardAt
    Runs = {r1, r2}
    NoRun = NoRun
    Requests <- OneBoard
    Outlasting = {}
    HotPlug = {"card1"}
    Matches <- Alone
    Twins <- Alone
INVARIANTS CardStaysPowered WindowIsCovered RecoveryRescansGood NoStaleEndpoint
PROPERTY SuccessIsAlive
CHECK_DEADLOCK FALSE
