SPECIFICATION FairSpec
CONSTANTS
    Client = client
    Server = server
    MaxSent = 3
    Window = 1
INVARIANTS
    TypeOK
PROPERTIES
    ImplementsTunnel
    BytesGetThrough
    EndsReachBoth
CHECK_DEADLOCK FALSE
