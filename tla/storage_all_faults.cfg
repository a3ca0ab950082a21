SPECIFICATION Spec
CONSTANTS
    u1 = u1
    p = p
    Updates = {u1, p}
    Unintegrable = {p}
    LegacyContents = {}
    ImportContents = {u1}
    MaxGeneration = 2
    MaxLogRecords = 2
    CompactAfter = 1
    MaxEntries = 2
    Faults = {"append", "truncate", "discard", "reload", "write", "dirsync", "cancel"}
    Short = Short
    Zeros = Zeros
INVARIANT GenerationsInUsePresent
PROPERTY GenerationNeverBack
