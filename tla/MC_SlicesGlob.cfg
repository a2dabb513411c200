SPECIFICATION Spec
CONSTANTS
  a = a  b = b  c = c  d = d  gone = gone
  api = api  web = web  models = models  views = views
  None = None
  Star = Star
  Id <- MCId
  Segment <- MCSegment
  Depth = 2
  File <- MCFile
  Manifests <- MCLeading
  MaxConcurrent = 2
  MaxFaults = 1
CHECK_DEADLOCK FALSE
INVARIANT NoLostEdit
