CONSTANTS
    a = a
    b = b
    far = far
    near = near
    off = off
    Chunks = {a, b, far}
    Regions = {near, off}
    RegionOf <- Where
    None = None
    MaxFiles = 1
    MaxLen = 2
    Sizes = {1, 2, 3}
    Saved = {a, b}
    MaxSaves = 3
    MaxLost = 1
    MaxSeek = 5
    LastSector = 6
SYMMETRY Symmetry
SPECIFICATION Spec
INVARIANTS
    SectorsDisjointUnlessLost
    WritesOwnSectorsUnlessLost
    OnlyLastSaveHeldBackUnlessLost
PROPERTIES
    StorePromiseUnlessLost
