\* Two connections; each channel has room for one and the pool a goroutine, so
\* that every one of them is full at times.
SPECIFICATION FairSyncSpec
CONSTANTS
  Conn = {c1, c2}
  ChanCap = 1
  PoolSize = 1
INVARIANTS
  Tracked
  ExitsAreReal
PROPERTIES
  Released
  ToldTheTime
CHECK_DEADLOCK FALSE
