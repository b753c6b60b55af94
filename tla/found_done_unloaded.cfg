CONSTANTS
    Start <- Origin
    Steps <- Ways
    Looks <- Directions
    Views = {1}
    MaxStreamed = 4
    UnloadTicks = 6
    None = None
    MaxTurns = 0
SPECIFICATION Spec
INVARIANT DoneMeansLoaded
