\* Two clones that contend for the ops branch.
SPECIFICATION FairSpec
CONSTANTS
  Clone = {c1, c2}
  Mortal = {c1, c2}
  Attempts = 5
  MaxEntries = 3
  MaxFaults = 1
PROPERTIES RemoteKeepsEntries TeamViewKeepsUp CommittedStays SharesLedger CommitReachesTeam
