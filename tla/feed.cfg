SPECIFICATION FairSpec
CONSTANTS
    Content = {c1, c2}
    Garbage = garbage
    NoFrame = none
    Streamers = {s1}
    Pollers = {p1}
    MaxEvents = 3
INVARIANTS
    TypeOK
    NoLostWakeup
    PictureMatchesNumber
    OneRequestOut
    TouchesReachASession
PROPERTIES
    CatchUp
