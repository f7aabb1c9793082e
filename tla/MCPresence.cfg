CONSTANTS
  Agents = {a1, a2}
  Clients = {c1, c2, c3}
  NoAgent = NoAgent
SYMMETRY Symmetry
SPECIFICATION Spec
INVARIANTS TypeOK WatchedValueHolds
PROPERTIES ClaimWinsOnce 
