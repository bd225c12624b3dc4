SPECIFICATION FairSpec
CONSTANTS
  ask1 = ask1
  sms1 = sms1
  t1 = t1
  NoEvent = NoEvent
  NoThread = NoThread
  Events = {ask1, sms1}
  Consumer <- Kinds
  Threads = {t1}
  ThreadOf <- OneTalk
  Order <- ById
  Linked = {t1}
  Drains = {d1, d2}
  Operators = {o1}
  MaxAttempts = 2
  Limit = 2
  Faults = 2
  Moves = 2
  Stock = 1
INVARIANTS
  RepeatedForCause
  DeliveredIsTrue
  AttemptsBounded
PROPERTIES
  SpeaksOverOnlyIfLate
  EveryEventEnds
  ImplementsAtLeastOnce
