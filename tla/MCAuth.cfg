CONSTANTS
  Requests = {r1, r2}
  Tokens = {t1, t2}
  Secrets = {s1, s2}
  MaxFailedLogins = 3
  RequireAdmin2FA = TRUE
  None = None
SYMMETRY Symmetries
SPECIFICATION Spec
INVARIANTS TypeOK TotpConfirmed LockComes
PROPERTIES EnrolmentHolds LockHolds
