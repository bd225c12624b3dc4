SPECIFICATION Spec
CONSTANTS
  a1 = a1
  a2 = a2
  cron = cron
  o1 = o1
  o2 = o2
  NoTask = NoTask
  Tasks = {o1, o2}
  Gated = {o2}
  Handoff = {o1}
  Delegated = {o1, o2}
  Orders = {o1, o2}
  Runners = {a1, a2, cron}
  Desks = {a1, a2}
  Role <- Split
  Cron = cron
  MaxAttempts = 2
  Faults = 1
  Asks = 2
PROPERTIES
  CancelsOnlyPending
