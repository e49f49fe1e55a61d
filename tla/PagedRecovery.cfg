SPECIFICATION Spec
CONSTANTS
    Old <- MCOld
    Live <- MCLive
    Keyings <- MCKeyings
    PageSize = 1
    MaxConc = 1
    MaxTroubles = 1
INVARIANTS
    NothingLost
    BacklogExact
    NotRunAgain
PROPERTY BacklogDrains
