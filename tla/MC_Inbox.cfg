SPECIFICATION FairSpec
CONSTANTS
  None = None
  Mine = {"m"}
  Theirs = {"b1", "b2"}
  Askers = {"n"}
  Goals = {"g"}
  Issues = {"#7"}
  Areas = {"api"}
  Held = "g"
  Raises <- MCRaises
  Acks <- MCAcks
  Deaths = {"d1", "d2"}
  Comments = {"c1"}
  Email = TRUE
  MaxEntries = 2
  MaxFaults = 1
INVARIANTS NothingForgotten ToldOnce
PROPERTIES NewsIsSurfaced DeathIsTold AnswerUnblocks
CHECK_DEADLOCK FALSE
