SPECIFICATION FairSpec
CONSTANTS
    p1 = p1
    p2 = p2
    u1 = u1
    Peers = {p1, p2}
    Updates = {u1}
    MaxEpoch = 2
    Instances = {1, 2, 3, 4}
    NoInstance = NoInstance
    Faults = {"crash"}
INVARIANT TypeOK
INVARIANT LossExplained
INVARIANT EpochsTracked
INVARIANT OneInstance
PROPERTY ArmedTimerActivates
PROPERTY SharedRetiredConnectionsClose
