CONSTANTS
    Coords = {c1}
    Clients = {k1}
    Players = {}
    Mobs = {}
    BlockEntities = {c1}
    Liquids = {}
    None = None
    SkipLimit = 9
    MaxStays = 0
    MaxEdits = 1
    MaxRegens = 0
    MaxSaveQueue = 2
SPECIFICATION Spec
INVARIANTS
    CleanIsSaved
