CONSTANTS
  Loader = {l1}
  Pids = {p1}
  NoPid = none
  LockField = none
  TouchLockOS = TRUE
  MaxFailedTouches = 2
  MaxOpenFailures = 1
  StuckTicks = 1
  HealPeriod = 1
  OpenResults = {"ok", "refused"}
  WaitErrors = TRUE
  Stored = {TRUE}
  Boot <- ArmedBoot
  Budget <- SafeBudget
SPECIFICATION Spec
INVARIANTS TypeOK RejectsBounded
PROPERTY EpisodeKept
