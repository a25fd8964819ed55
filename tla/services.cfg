SPECIFICATION ServicesSpec
CONSTANTS
  i1 = i1  i2 = i2  i3 = i3
  Items = {i1, i2}
  BatchSize = 1
  MaxTexts = 2
  MaxSteps = 2
  Pics = {i1, i2}
  Shared = {i2}
  MaxOdds = 1
  Asks = {i1, i2, i3}
  Twins = {i1, i2}
  MaxPings = 1
  MaxDrops = 1
  Pages = {i1, i2}
  MaxMoves = 4
  MaxMail = 3
  Posters = {i1, i2}
  ChanSize = 1
  MaxQueueSize = 2
  MaxPosts = 5
  PerSec = 3
  Burst = 3
  Second = 10
  MinRetry = 4
  MaxTime = 18
INVARIANTS ServicesTypeOK LinkedIsKept InOrder LimiterKeepsWord
PROPERTIES  FlushReaches DeadIsNoticed GhostsFade HubGoesOn
CHECK_DEADLOCK FALSE
