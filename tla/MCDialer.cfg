CONSTANTS
  k1 = k1
  k2 = k2
  Agents = {a1, a2}
  Carriers = {k1, k2}
  Calls = {u1, u2, u3}
  Requests = {r1, r2}
  Order <- MCOrder
  MaxChannels <- MCMaxChannels
  Attempts = 2
  Disturbances = {"redisError", "eslError", "farHangup"}
  None = None
SYMMETRY Symmetry
CONSTRAINT Bounded
SPECIFICATION Spec
INVARIANTS TypeOK LegsWithinLimit HangsUpOwnCall UpLegTracked CountExact
PROPERTY FreedAfterKill
