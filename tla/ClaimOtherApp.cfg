CONSTANTS
  Loader = {l1}
  Pids = {p1}
  LoginPid = login
  NoPid = none
  LoginWindowSeen = FALSE
  Tahoe = TRUE
  MaxFailedSwipes = 2
  MaxSwipeRetries = 1
  HealTicks = 2
  HealPeriod = 1
  MaxTemplates = 1
  Volumes <- FewVolumes
  SwipeKinds <- FewSwipes
  Scores = {19, 20}
  ConfValues = {20}
  Boot <- PlainBoot
  Budget <- LockoutBudget
SPECIFICATION Spec
PROPERTY NeverTypesIntoOtherApp
