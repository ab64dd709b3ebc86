SPECIFICATION LiveSpec
CONSTANTS
  r1 = r1
  r2 = r2
  r3 = r3
  overview = overview
  trace = trace
  hot = hot
  idle = idle
  None = None
  Requests = {r1, r2, r3}
  Suffixes = {overview, trace}
  Regions = {hot, idle}
  Kinds <- AllKinds
  Mixes <- SomeMixes
  GlobalMax = 2
  ServerMax = 1
  Big <- BigOnes
  Huge <- HugeOnes
  MaxUpdates = 1
  MaxFaults = 1
INVARIANTS TypeOK Readable VariantsAgree PermitsMatch
PROPERTIES RequestCompletes
CHECK_DEADLOCK FALSE
