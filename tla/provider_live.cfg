SPECIFICATION FairSpec
CONSTANTS
    a = a
    r = r
    LocalUpdates = {a}
    RemoteUpdates = {r}
    Deletions = {}
    Levels = {"full"}
    Transports = {TRUE, FALSE}
    Retries = 1
    MaxConns = 1
    MaxLifecycle = 1
    MaxFaults = 1
INVARIANT ConnectedSeesAll
PROPERTY LocalChangesArrive
PROPERTY RemoteChangesArrive
CHECK_DEADLOCK FALSE
