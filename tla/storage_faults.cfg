SPECIFICATION Spec
CONSTANTS
    u1 = u1
    u2 = u2
    p = p
    Updates = {u1, u2, p}
    Unintegrable = {p}
    LegacyContents = {u1}
    ImportContents = {u2}
    MaxGeneration = 2
    MaxLogRecords = 2
    CompactAfter = 2
    MaxEntries = 3
    Faults = {"append", "truncate", "reload", "write"}
    Short = Short
    Zeros = Zeros
INVARIANT TypeOK
INVARIANT AckedDurable
INVARIANT NoRecordBehindTorn
INVARIANT CrashLeavesLoadable
PROPERTY ImplementsDurable
