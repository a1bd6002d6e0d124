SPECIFICATION FairSpec
CONSTANTS
  MaxActivities = 3
  MaxServices = 2
  DEBUG = FALSE
  LateDestroy = FALSE
INVARIANTS TypeOK CallbackConnected OneMachine NoOrphans 
PROPERTY ShutdownCompletes
CHECK_DEADLOCK FALSE
