CONSTANTS
  u1 = u1
  u2 = u2
  r1 = r1
  r2 = r2
  w1 = w1
  w2 = w2
  s1 = s1
  s2 = s2
  None = None
  Users <- MCUsers
  Requests <- MCRequests
  Writers <- MCWriters
  Salts <- MCSalts
  Payloads <- MCPayloads
  MaxFaults = 1
  MaxRestarts = 1
  MaxBatches = 2
SPECIFICATION Spec
SYMMETRY Symmetry
INVARIANTS TypeOK Extended
PROPERTIES RowsKept BatchLanded
CHECK_DEADLOCK FALSE
