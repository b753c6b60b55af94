CONSTANTS
    server = server
    world = world
    loop = loop
    Server = server
    World = world
    Loop = loop
    Others = {}
    None = None
    MaxPackets = 2
SPECIFICATION FairSpec
INVARIANTS
    WireInOrderUnlessMet
    WireDecryptsUnlessMet
    PacketsAreWhole
    AllWrittenBeforeFinUnlessMet
PROPERTIES
    KickedIsToldUnlessMet
    DestroyedIsShutUnlessMissed
