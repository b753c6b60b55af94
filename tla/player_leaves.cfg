CONSTANTS
    k1 = k1
    k2 = k2
    over = over
    under = under
    Clients = {k1}
    Configures = {k1}
    Worlds = {over, under}
    None = None
    MaxPlayers = 1
    CountRange = 4
    MaxWarps = 2
CHECK_DEADLOCK FALSE
SPECIFICATION FairSpec
PROPERTIES
    TickedLeavesUnlessRaced
INVARIANTS
    OneWarpInFlightUnlessRaced
