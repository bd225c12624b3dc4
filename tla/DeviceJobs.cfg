SPECIFICATION FairSpec
CONSTANTS
  w1 = w1
  w2 = w2
  NoDevice = NoDevice
  NoServer = NoServer
  Jobs = {1, 2}
  Devices = {d1, d2}
  Steady = {d1}
  Orders = {9}
  SelfUpdates = {2}
  Observing = {9}
  Servers = {w1, w2}
  Role <- Split
  MaxAttempts = 2
  LastTry = 3
  Stock = 1
  Capacity = 1
  Upsets = 1
INVARIANTS
  SucceededIsProven
  AttemptsBounded
  SelfUpdatesRationed
PROPERTIES
  EndedUnlessLate
  LetGoForCause
  EveryJobEnds
