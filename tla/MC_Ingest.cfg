SPECIFICATION FairSpec
CONSTANTS
  None = None
  Actors = {1, 2}
  Globs <- MCGlobs
  Owner <- MCOwner
  Lifecycle <- MCLifecycle
  Kinds <- MCKinds
  MaxTime = 2
  MaxLines = 3
  MaxFaults = 2
  RollbackMayFail = FALSE
INVARIANTS NoDuplicate NoGap RowIsCurrent
PROPERTIES LandsInOrder AllLanded
