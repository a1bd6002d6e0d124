SPECIFICATION FairSpec
CONSTANTS
  runtimeDataFiles <- MCFiles
  HDD_IMAGE_NAME = "hdd"
  Chunks = 1
  MaxVersion = 2
  MaxActivities = 3
  MaxRecreations = 2
  MaxErrors = 1
  MaxCrashes = 1
INVARIANT OneMachine
 
CHECK_DEADLOCK FALSE
