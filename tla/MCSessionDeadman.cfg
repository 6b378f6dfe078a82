SPECIFICATION SessionSpec
CONSTANTS
    Boards = {"card1", "card2"}
    Spellings = {"0a", "0A", "0b"}
    NoBdf = NoBdf
    Lower <- MCLower
    BoardAt <- MCBoardAt
    Runs = {r1, r2}
    NoRun = NoRun
    Requests <- Both
    Outlasting = {}
    HotPlug = {"card1", "card2"}
    Matches <- Alone
    Twins <- Alone
INVARIANT WindowIsCovered
CHECK_DEADLOCK FALSE
