SPECIFICATION FairSpec
CONSTANTS
  None = None
  Goal <- MCGoal
  Retries = 2
  Settings <- MCSettings
  MaxFaults = 1
  MaxRuns = 2
INVARIANT DoneIsClosed
PROPERTIES SettledStaysOut RunEnds
CHECK_DEADLOCK FALSE
