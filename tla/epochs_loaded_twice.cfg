SPECIFICATION FairSpec
CONSTANTS
    p1 = p1
    u1 = u1
    Peers = {p1}
    Updates = {u1}
    MaxEpoch = 2
    Instances = {1, 2, 3}
    NoInstance = NoInstance
    Faults = {}
PROPERTY RetiredConnectionsClose
