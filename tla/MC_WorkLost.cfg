\* A goal whose start is killed.
SPECIFICATION StartSpec
CONSTANTS
  None = None
  Configs <- MCConfigs
  Cap = 1
  UnknownAttempts = 1
  PendingAttempts = 0
  MaxRev = 1
  MaxEvents = 1
PROPERTIES SurvivorResumes
CHECK_DEADLOCK FALSE
