SPECIFICATION FairSpec
CONSTANTS
    Terminal = 3
    Draining = {1}
    Late = {1}
    QuietError = TRUE
INVARIANTS TypeOK StartsFresh
PROPERTIES LateErrorIsReported LaneEnds KeepsOneCloseOut
