\* Two triggers, one of them suspended while it decides.
SPECIFICATION WatcherSpec
CONSTANTS
  Proc = {p1, p2}
  None = None
  MayStall = TRUE
  MaxMishaps = 1
INVARIANTS OneWatcher
