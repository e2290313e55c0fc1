SPECIFICATION FairSpec
CONSTANTS
    h1 = h1
    h2 = h2
    h3 = h3
    ipA = ipA
    ipB = ipB
    NoHost = NoHost
    Host <- MCHost
    IpOf <- MCIpOf
INVARIANTS
    TypeOK
    ProbeIsTimed
    StatusHonest
    Remembered
    OneRowPerAddress
PROPERTIES
    PairingIsTheUsers
    StatusSettles
