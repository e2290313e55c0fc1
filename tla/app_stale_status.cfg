SPECIFICATION Spec
CONSTANTS
    h1 = h1
    h2 = h2
    ipA = ipA
    ipB = ipB
    NoHost = NoHost
    Host <- MCHost
    IpOf <- MCIpOf
INVARIANT StatusLive
