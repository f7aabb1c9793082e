CONSTANTS
  Agents = {a1, a2}
  Channels = {x1, x2}
  Disturbances = {"agentRequests"}
  None = None
SPECIFICATION FairSpec
PROPERTY ParkedCallDecided
