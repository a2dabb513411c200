\* Three processes, calls of every kind, any of them dying anywhere.
SPECIFICATION FairSpec
CONSTANTS
  Proc = {p1, p2, p3}
  Amount = {2}
  None = None
  FailOpen = {}
  MaxCalls = 4
CHECK_DEADLOCK FALSE
INVARIANTS NoStalePatch
PROPERTIES Linearizable CallEnds
