\* Two sessions of one person on one directory.
SPECIFICATION Spec
CONSTANTS
  Session = {s1, s2}
  NGoals = 2
  Pid = {p1, p2}
  None = None
  Mate = Mate
  FailOpen = {}
  LedgerEnabled = TRUE
  MaxConcurrent = 2
  MaxIterations = 1
  Outcome = {"done"}
  MaxFaults = 1
INVARIANTS TypeOK LockFollowsSection
PROPERTIES SectionShieldsClaim MateClaimRespected
SYMMETRY Symmetry
