SPECIFICATION FairSpec
CONSTANTS
    Sup = {s1, s2}
    Service = {keepalive, gateway}
    Keepalive = keepalive
    Holder = {keepalive, gateway}
    NoSup = none
    FailLimit = 2
    MaxEvents = 3
INVARIANTS
    TypeOK
    OneSupervisor
    NoDuplicates
PROPERTIES
    ServicesComeBack
    CaptureComesBack
CHECK_DEADLOCK FALSE
