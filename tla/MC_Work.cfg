\* One goal, four configurations, a reviewer and a colleague.
SPECIFICATION FairSpec
CONSTANTS
  None = None
  Configs <- MCConfigs
  Cap = 2
  UnknownAttempts = 2
  PendingAttempts = 1
  MaxRev = 2
  MaxEvents = 2
INVARIANTS FixesWithinCap
PROPERTIES NothingOlderIsArmed UnseenWorkSurvives StandingSignalStops OwnWorkSurvives VerbEnds
CHECK_DEADLOCK FALSE
