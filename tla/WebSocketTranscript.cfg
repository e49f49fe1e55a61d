SPECIFICATION TranscriptFairSpec
CONSTANTS
  Conns = {a, b}
  MaxEntries = 3
  Client = {3}
  ReadBatch = 1
  MaxDrops = 1

INVARIANTS NoSilentGap FollowersSubscribed
PROPERTY CaughtUp
CHECK_DEADLOCK FALSE
