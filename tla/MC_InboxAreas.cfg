SPECIFICATION Spec
CONSTANTS
  None = None
  Mine = {"m"}
  Theirs = {"b1", "b2"}
  Askers = {"n"}
  Goals = {"g"}
  Issues = {}
  Areas = {"api", "web"}
  Held = "g"
  Raises <- MCAreaRaises
  Acks <- MCAreaAcks
  Deaths = {}
  Comments = {}
  Email = TRUE
  MaxEntries = 2
  MaxFaults = 0
INVARIANTS BlockerIsTold
CHECK_DEADLOCK FALSE
