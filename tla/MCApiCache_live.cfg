SPECIFICATION HFairSpec
CONSTANTS
  p1 = p1
  r1 = r1
  r2 = r2
  None = None
  Procs = {p1}
  Readers = {r1, r2}
  Home <- HomeSame
  MaxEpoch = 1
  MaxRows = 1
  MaxUsers = 0
  MaxLate = 0
  Appears = 1
  Faults <- NoFaults
PROPERTIES RequestCompletes EventuallyCurrent ImplementsProtocol
