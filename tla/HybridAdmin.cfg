SPECIFICATION Spec
CONSTANTS
  j1 = j1
  j2 = j2
  j3 = j3
  n1 = n1
  n2 = n2
  NoJob = NoJob
  NoNode = NoNode
  Jobs = {j1}
  Nodes = {n1, n2}
  Requests = {r1, r2}
  MaxAttempts <- Limit2
  Supports <- AllSupport
  Corrupt = {j1}
  Concurrency = {1}
  AutoNodes = {n1}
  Prompt = {}
  Events = {"pause", "patch", "cancel", "dashboard", "crash"}
SYMMETRY SlotSymmetry
INVARIANTS
  RowsCoherent
PROPERTIES
  ImplementsJobQueue
  LiveLeaseEndsByHolder
