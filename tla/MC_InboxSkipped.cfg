\* A dead agent whose note the ledger does not take.
SPECIFICATION Spec
CONSTANTS
  None = None
  Mine = {"m"}
  Theirs = {"b1"}
  Askers = {"n"}
  Goals = {"g"}
  Issues = {"#7"}
  Areas = {"api"}
  Held = "g"
  Raises <- MCRaises
  Acks <- MCAcks
  Deaths = {"d1"}
  Comments = {"c1"}
  Email = FALSE
  MaxEntries = 1
  MaxFaults = 1
INVARIANTS NeverNeither
CHECK_DEADLOCK FALSE
