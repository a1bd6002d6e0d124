SPECIFICATION Spec
CONSTANTS
  MaxActivities = 1
  MaxServices = 1
  DEBUG = FALSE
  LateDestroy = FALSE
INVARIANT ExitsWithoutSession
CHECK_DEADLOCK FALSE
