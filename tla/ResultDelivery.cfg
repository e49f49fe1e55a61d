SPECIFICATION FairSpec
CONSTANTS
    p = p
    s = s
    Streams = {p, s}
    Caller = p
    Duplicates = {s}
    None = None
    Buffer = 2
    MaxRetries = 1
    Panics = TRUE
    MayStop = TRUE
    MaxCrashes = 1
INVARIANTS OutcomeDelivered ToldIsStored
PROPERTIES OutcomeSettles StreamEnds
CHECK_DEADLOCK FALSE
