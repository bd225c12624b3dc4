SPECIFICATION FairSpec
CONSTANTS
  j1 = j1
  j2 = j2
  j3 = j3
  NoJob = NoJob
  NoDevice = NoDevice
  Jobs = {j1, j2}
  DefaultTimeout = 3
  Timeout <- General
  Key <- OwnKey
  MaxAttempts <- Single
  Devices = {d1}
  Requests = {r1, r2}
  Lane <- OneLane
  Concurrency <- Two
  LEASE = 5
  ASSIGNMENT = 2
  SLACK = 1
  GlobalMax = 1
  ModelMax = 2
  Overtime = 1
  LastStart = 0
  Events = {"beat"}
INVARIANTS
  DispatchedWithinCap
PROPERTIES
  EveryQuestionAnswered
