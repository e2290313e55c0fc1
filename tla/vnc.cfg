SPECIFICATION FairSpec
CONSTANTS
    Host = {h1, h2}
    NoHost = NoHost
    Usable = {g1, g2}
    MaxRects = 2
    MaxFrames = 1
INVARIANTS
    TypeOK
    StatusTruth
    NoLostRequest
    BufferFits
    InStep
    StoppedIsQuiet
PROPERTIES
    ImplementsSession
    SelfHeals
    KeepsAsking
