SPECIFICATION FairSpec
CONSTANTS
    Sup = {s1}
    Service = {keepalive, gateway}
    Keepalive = keepalive
    Holder = {keepalive, gateway}
    NoSup = none
    FailLimit = 2
    MaxEvents = 1
PROPERTY StallsAreCycledAway
CHECK_DEADLOCK FALSE
