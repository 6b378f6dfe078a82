SPECIFICATION FairSpec
CONSTANTS
    NoTile = NoTile
    Compositions <- Candidates
    Lengths <- Bytes
    Retries = 1
INVARIANTS
    TypeOK
    ShapeIsCoherent
    GoodJobSawEverything
    WholeJobsAreTaken
PROPERTIES
    StartsFresh
    HostHears
