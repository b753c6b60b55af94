CONSTANTS
    Coords = {c1, c2}
    Clients = {}
    Players = {}
    Mobs = {m1}
    BlockEntities = {}
    Liquids = {c1}
    None = None
    SkipLimit = 2
    MaxStays = 0
    MaxEdits = 1
    MaxRegens = 0
    MaxSaveQueue = 2
SPECIFICATION FairSpec
PROPERTIES
    WorldPromise
    QueuedGetsLoaded
    DirtyGetsSaved
