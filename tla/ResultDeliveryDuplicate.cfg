SPECIFICATION FairSpec
CONSTANTS
    p = p
    s = s
    Streams = {p, s}
    Caller = p
    Duplicates = {s}
    None = None
    Buffer = 2
    MaxRetries = 1
    Panics = FALSE
    MayStop = FALSE
    MaxCrashes = 0
PROPERTY DuplicateStreamEnds
CHECK_DEADLOCK FALSE
