CONSTANTS
  Agents = {a1, a2}
  Campaigns = {c1}
  Leads = {l1, l2}
  Requests = {r1, r2}
  Dispositions <- MCDispositions
  None = None
SYMMETRY Symmetry
CONSTRAINT Bounded
SPECIFICATION Spec
INVARIANTS TypeOK HandedToItsAgent LogsAgree
PROPERTIES ImplementsLeadPool StoppedStays
