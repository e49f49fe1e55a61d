SPECIFICATION DrainFairSpec
CONSTANTS
    j1 = j1
    j2 = j2
    j3 = j3
    Jobs = {j1, j2, j3}
    Direct = {j3}
    Unlocked = Unlocked
    BatchMax = 1
    MaxFailures = 1
INVARIANTS EventKept BatchIsHead
PROPERTY IdleIsUnassigned
CHECK_DEADLOCK FALSE
