SPECIFICATION Spec
CONSTANTS
  Session = {s1, s2}
  NGoals = 1
  Pid = {p1, p2}
  None = None
  Mate = Mate
  FailOpen = {}
  LedgerEnabled = TRUE
  MaxConcurrent = 1
  MaxIterations = 0
  Outcome = {"done"}
  MaxFaults = 0
INVARIANTS NoGoalInTwoSessions
