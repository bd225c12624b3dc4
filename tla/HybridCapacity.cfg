SPECIFICATION Spec
CONSTANTS
  j1 = j1
  j2 = j2
  j3 = j3
  n1 = n1
  n2 = n2
  NoJob = NoJob
  NoNode = NoNode
  Jobs = {j1, j2, j3}
  Nodes = {n1}
  Requests = {r1, r2}
  MaxAttempts <- Limit1
  Supports <- AllSupport
  Corrupt = {}
  Concurrency = {1}
  AutoNodes = {n1}
  Prompt = {}
  Events = {"defer", "silence", "revoke"}
CHECK_DEADLOCK FALSE
SYMMETRY CapacitySymmetry
INVARIANTS
  OvercommitBounded
  OneShotRunsOnce
