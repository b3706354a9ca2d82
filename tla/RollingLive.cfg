CONSTANTS
  Issues <- Issues3
  LaneCap = 2
  MaxIterations = 3
  Limits = {0, 2}
  MaxStrikes = 1
  SerialWork = TRUE
  Contested <- NoneContested
  Faults <- NoFault
SPECIFICATION FairSpec
INVARIANTS
  SerialOwnsBaseAlone
  NoLostWakeup
PROPERTIES
  EveryContributionCloses
  SerialDemandServed
