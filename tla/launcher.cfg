SPECIFICATION AppSpec
CONSTANTS
    h1 = h1
    h2 = h2
    ipA = ipA
    ipB = ipB
    g1 = g1
    g2 = g2
    NoHost = NoHost
    Host <- MCHost
    IpOf <- MCIpOf
    Usable <- MCUsable
    MaxRects = 2
    MaxFrames = 1
INVARIANTS
    IInv
    SocketIsPaired
    DisconnectLasts
    LinkIsUsed
PROPERTIES
    UserReconnects
    SessionStands
