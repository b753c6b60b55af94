CONSTANTS
    here = here
    away = away
    Coords = {here, away}
    Clients = {k1}
    View <- OwnChunk
    None = None
    MaxMoves = 1
    MaxChanges = 1
SYMMETRY Symmetry
SPECIFICATION Spec
INVARIANTS
    TypeOK
    WantedWillBeSent
    ListsAgree
    ClientSeesBlocksUnlessRaced
    LightReadsPresentUnlessRegenerated
