SPECIFICATION FairSpec
CONSTANTS
  None = None
  Goal <- MCGoal
  Retries = 2
  Settings <- MCReadOnly
  MaxFaults = 0
  MaxRuns = 1

PROPERTY RunEnds
CHECK_DEADLOCK FALSE
