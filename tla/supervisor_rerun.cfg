SPECIFICATION Spec
CONSTANTS
    Sup = {s1, s2}
    Service = {relay, keepalive, gateway}
    Keepalive = keepalive
    Holder = {keepalive, gateway}
    NoSup = none
    FailLimit = 2
    MaxEvents = 0
INVARIANT NothingDuplicated
CHECK_DEADLOCK FALSE
