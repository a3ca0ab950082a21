SPECIFICATION Spec
CONSTANTS
    u1 = u1
    u2 = u2
    Updates = {u1, u2}
    Unintegrable = {}
    LegacyContents = {}
    ImportContents = {}
    MaxGeneration = 2
    MaxLogRecords = 2
    CompactAfter = 1
    MaxEntries = 3
    Faults = {"dirsync"}
    Short = Short
    Zeros = Zeros
INVARIANT AckedDurable
