SPECIFICATION Spec
CONSTANTS
    Versions = {v1, v2}
    NoDesign = NoDesign
    NoFile = NoFile
    Empty = Empty
    Written = Written
    Slots = {t1}
    MaxBuilds = 2
    Sites = {"X0Y0", "X0Y1", "X0Y2"}
    NoSite = "none"
    Targets <- MCTargets
    registry <- MCRegistry
    request <- MCRequest
    NoCore = NoCore
    Unset = Unset
    Blank = Blank
    Longer <- MCLonger
SYMMETRY VersionSymmetry
INVARIANTS
    FlashedIsTrue BuiltManifestIsTrue HookPlacesLanes
    ReportIsTrue JudgesTheRegistry SelectedIsFresh
PROPERTY PackagesWhatIsStaged
CHECK_DEADLOCK FALSE
