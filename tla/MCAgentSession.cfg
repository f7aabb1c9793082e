CONSTANTS
  Requests = {r1, r2, r3}
  Passwords = {p1, p2}
  Disturbances = {"failure", "restart", "late"}
  None = None
SYMMETRY Symmetries
SPECIFICATION Spec
INVARIANTS TypeOK Settled DirectoryLoaded
