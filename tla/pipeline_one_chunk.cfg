CONSTANTS
    Coords = {c1}
    Clients = {k1}
    Players = {p1}
    Mobs = {m1}
    BlockEntities = {c1}
    Liquids = {c1}
    None = None
    SkipLimit = 0
    MaxStays = 1
    MaxEdits = 2
    MaxRegens = 1
    MaxSaveQueue = 2
SPECIFICATION Spec
INVARIANTS
    TypeOK
    OneJobPerQueuedChunk
    QueuedHasJobUnlessSkipped
    SavesPresentUnlessOverlapped
    CleanIsSavedUnlessDoubted
