\* One session with two slots and a ceiling of two goals.
SPECIFICATION Spec
CONSTANTS
  Session = {s1}
  NGoals = 3
  Pid = {p1}
  None = None
  Mate = Mate
  FailOpen = {}
  LedgerEnabled = TRUE
  MaxConcurrent = 2
  MaxIterations = 2
  Outcome = {"done"}
  MaxFaults = 0
INVARIANTS RunWithinBudget
