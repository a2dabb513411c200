\* Three triggers, any of them killed anywhere, and none of them suspended.
SPECIFICATION WatcherFairSpec
CONSTANTS
  Proc = {p1, p2, p3}
  None = None
  MayStall = FALSE
  MaxMishaps = 3
INVARIANTS OneWatcher PidfileNamesWatcher
PROPERTIES WatcherComesBack
