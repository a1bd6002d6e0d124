SPECIFICATION Spec
CONSTANTS
  runtimeDataFiles <- MCFiles
  HDD_IMAGE_NAME = "hdd"
  Chunks = 2
  MaxVersion = 3
  MaxActivities = 3
  MaxRecreations = 0
  MaxErrors = 2
  MaxCrashes = 2
INVARIANTS TypeOK SystemFilesComplete
PROPERTY UserDataKept
CHECK_DEADLOCK FALSE
