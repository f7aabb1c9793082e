CONSTANTS
  c1 = c1
  h1 = h1
  Carriers = {c1, c2}
  Hosts = {h1, h2}
  Requests = {r1}
  MaxPending = 1
  Disturbances = {"failure", "lost", "restart"}
  None = None
  Deleted = Deleted
CONSTRAINT Bounded
SPECIFICATION Spec
INVARIANTS TypeOK CaughtUp NoGhosts
