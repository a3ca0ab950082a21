SPECIFICATION Spec
CONSTANTS
    u1 = u1
    p = p
    Updates = {u1, p}
    Unintegrable = {p}
    LegacyContents = {}
    ImportContents = {}
    MaxGeneration = 1
    MaxLogRecords = 3
    CompactAfter = 3
    MaxEntries = 3
    Faults = {"discard"}
    Short = Short
    Zeros = Zeros
INVARIANT AckedDurable
