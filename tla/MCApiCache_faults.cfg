SPECIFICATION HSpec
CONSTANTS
  p1 = p1
  r1 = r1
  r2 = r2
  None = None
  Procs = {p1}
  Readers = {r1, r2}
  Home <- HomeSame
  MaxEpoch = 1
  MaxRows = 1
  MaxUsers = 1
  MaxLate = 0
  Appears = 1
  Faults <- AllFaults
INVARIANTS TypeOK CacheFloor
SYMMETRY SameReaders
