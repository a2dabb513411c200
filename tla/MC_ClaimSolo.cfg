\* One session, two slots, every environment event: recovery and progress.
SPECIFICATION FairSpec
CONSTANTS
  Session = {s1}
  NGoals = 3
  Pid = {p1, p2}
  None = None
  Mate = Mate
  FailOpen = {s1}
  LedgerEnabled = TRUE
  MaxConcurrent = 2
  MaxIterations = 0
  Outcome = {"done", "parked"}
  MaxFaults = 1
INVARIANTS NoSlotCollision SlotGoalInProgress
PROPERTIES OpenGoalSettles
