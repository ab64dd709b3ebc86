SPECIFICATION FairSpec
CONSTANTS
  u1 = u1 u2 = u2 c1 = c1 None = None
  TopRanks = {1} BorderRanks = {2}
  Users = {u1, u2} Nameless = {}
  WlKeys <- OneChapter
  MaxScore = 2 InFlight = FALSE Recur = FALSE
  Faults <- EveryFault
  MaxFaults = 2 MaxChanges = 1
INVARIANTS TypeOK RememberedLanded HashLanded CaughtUp
PROPERTY Converges
