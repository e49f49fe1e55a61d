SPECIFICATION FairSpec
CONSTANTS
    a = a
    b = b
    c = c
    k = k
    Requests = {a, b, c}
    Keys = {k, l}
    KeyOf <- OneKey
    Proxy = {a, b}
    DirectOnly = {b}
    None = None
    MaxCrashes = 1
INVARIANTS DuplicateIsReal NoGhostRow AcceptedKept OneLivePerKey
PROPERTY Answered
CHECK_DEADLOCK FALSE
