CONSTANTS
  Issues <- Issues3
  LaneCap = 2
  MaxIterations = 4
  Limits = {2}
  MaxStrikes = 2
  SerialWork = FALSE
  Contested <- NoneContested
  Faults <- Timeouts
SPECIFICATION Spec
INVARIANTS
  OpenContributionIsLeased
