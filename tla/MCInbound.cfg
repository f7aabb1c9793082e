CONSTANTS
  Agents = {a1, a2}
  Channels = {x1, x2}
  Disturbances = {"storeError", "eslError", "disconnect", "restart", "agentRequests"}
  None = None
SYMMETRY Symmetry
SPECIFICATION Spec
INVARIANTS TypeOK ClaimsAccountedFor OneCallPerClaim DecidedOnce
