SPECIFICATION Spec
CONSTANTS
  e1 = e1
  e2 = e2
  e3 = e3
  NoEdition = NoEdition
  Editions = {e1}
  Rank <- ById
  Runs = {t1, t2}
  Admins = {a1}
  Askers = {q1}
  Limit = 1
  Horizon = 3
  Faults = 2
  Overlaps = 1
INVARIANTS
  LedgerBehindStorefronts
  ExposureIsJoint
  AuditIsTheHistory
PROPERTIES
  OneWay
  WithdrawnStaysPrivate
  ImplementsJointRelease
