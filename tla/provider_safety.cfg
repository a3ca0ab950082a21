SPECIFICATION Spec
CONSTANTS
    a = a
    LocalUpdates = {a}
    RemoteUpdates = {}
    Deletions = {}
    Levels = {"full", "read-only"}
    Transports = {TRUE, FALSE}
    Retries = 2
    MaxConns = 2
    MaxLifecycle = 0
    MaxFaults = 2
INVARIANT TypeOK
INVARIANT AcknowledgedMeansSaved
PROPERTY VerifiedSinceLoss
CHECK_DEADLOCK FALSE
