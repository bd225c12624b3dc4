SPECIFICATION FairSpec
CONSTANTS
  e1 = e1
  e2 = e2
  e3 = e3
  NoEdition = NoEdition
  Editions = {e1, e2, e3}
  Rank <- ById
  Runs = {t1}
  Admins = {a1}
  Askers = {}
  Limit = 2
  Horizon = 2
  Faults = 1
  Overlaps = 1
PROPERTIES
  DueIsReleased
