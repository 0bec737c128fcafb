CONSTANTS
  Loader = {l1, l2}
  Pids = {p1}
  LoginPid = login
  NoPid = none
  LoginWindowSeen = FALSE
  Tahoe = TRUE
  MaxFailedSwipes = 2
  MaxSwipeRetries = 1
  HealTicks = 1
  HealPeriod = 1
  MaxTemplates = 1
  Volumes <- Contents
  SwipeKinds <- Swipes
  Scores = {19, 20, 30}
  ConfValues = {5, 30}
  Boot <- PlainBoot
  Budget <- AuthBudget
SPECIFICATION Spec
INVARIANTS TypeOK TypesOnlyForOwner RejectsBounded OneEpisodePerPrompt
SYMMETRY LoaderSymmetry
