CONSTANTS
    c1 = c1
    Chunks = {c1}
    None = None
    MaxRequests = 2
CHECK_DEADLOCK FALSE
SPECIFICATION FairSpec
INVARIANTS
    NoLostWakeUp
    SavesAreWrittenUnlessRefused
PROPERTIES
    StopEndsUnlessMet
    SendIsTaken
