CONSTANTS
  Loader = {l1}
  Pids = {p1}
  NoPid = none
  LockField = none
  TouchLockOS = TRUE
  MaxFailedTouches = 2
  MaxOpenFailures = 2
  StuckTicks = 1
  HealPeriod = 1
  OpenResults = {"ok", "error"}
  WaitErrors = FALSE
  Stored = {TRUE}
  Boot <- ArmedBoot
  Budget <- LiveBudget
SPECIFICATION FairSpec
PROPERTIES YieldConfirmed EpisodeGetsSensor SessionReleased TouchToLockReturns
INVARIANT YieldedSensorFree
