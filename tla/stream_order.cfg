CONSTANTS
    Start <- Origin
    Steps <- Ways
    Looks <- Directions
    Views = {2, 4}
    MaxStreamed = 4
    UnloadTicks = 6
    None = None
    MaxTurns = 1
SPECIFICATION FairSpec
INVARIANTS
    DoneMeansLoadedButOpposites
PROPERTIES
    OwnChunkGiven
    StandingIsDone
