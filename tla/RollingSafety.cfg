CONSTANTS
  Issues <- Issues3
  LaneCap = 2
  MaxIterations = 3
  Limits = {2}
  MaxStrikes = 2
  SerialWork = FALSE
  Contested <- OneContested
  Faults <- AllFaults
SPECIFICATION Spec
INVARIANTS
  TypeOK
  PendingEmptyMeansQuiescent
  LeaseOnlyWhileOwned
  UnitsNeverOverspent
PROPERTIES
  ImplementsPromise
  StopStartsNothing
