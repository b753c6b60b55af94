CONSTANTS
    k1 = k1
    k2 = k2
    over = over
    under = under
    Clients = {k1, k2}
    Configures = {k1}
    Worlds = {over, under}
    None = None
    MaxPlayers = 1
    CountRange = 4
    MaxWarps = 1
SYMMETRY Symmetry
CHECK_DEADLOCK FALSE
SPECIFICATION Spec
INVARIANTS
    TypeOK
    InOnePlace
    HasOneTickerUnlessJoining
    CountIsPlayersUnlessRaced
    DestroyFindsPlayerUnlessRaced
PROPERTIES
    NoJoinWhenFullUnlessRaced
