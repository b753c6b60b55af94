CONSTANTS
    here = here
    away = away
    Coords = {here}
    Clients = {k1, k2}
    View <- OwnChunk
    None = None
    MaxMoves = 0
    MaxChanges = 1
SPECIFICATION FairSpec
INVARIANTS
    ClientSeesBlocksUnlessRaced
PROPERTIES
    LoadedGetsSent
