SPECIFICATION Spec
CONSTANTS
    a = a
    r = r
    LocalUpdates = {a}
    RemoteUpdates = {r}
    Deletions = {}
    Levels = {"full", "read-only"}
    Transports = {TRUE}
    Retries = 2
    MaxConns = 2
    MaxLifecycle = 1
    MaxFaults = 1
INVARIANT AcknowledgedMeansSaved
CHECK_DEADLOCK FALSE
