CONSTANTS
  Agents = {a1}
  Channels = {x1}
  Disturbances = {}
  None = None
SPECIFICATION FairSpec
CHECK_DEADLOCK FALSE
PROPERTY ReleasedAfterCall
