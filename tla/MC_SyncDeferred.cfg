\* One outage while a clone publishes.
SPECIFICATION FairSpec
CONSTANTS
  Clone = {c1, c2}
  Mortal = {}
  Attempts = 5
  MaxEntries = 2
  MaxFaults = 1
PROPERTIES DeferredIsRetried
