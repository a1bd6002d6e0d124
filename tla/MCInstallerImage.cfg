SPECIFICATION Spec
CONSTANTS
  runtimeDataFiles <- MCFiles
  HDD_IMAGE_NAME = "hdd"
  Chunks = 2
  MaxVersion = 1
  MaxActivities = 2
  MaxRecreations = 0
  MaxErrors = 0
  MaxCrashes = 1
INVARIANT UserImageComplete
CHECK_DEADLOCK FALSE
