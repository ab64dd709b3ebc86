SPECIFICATION Spec
CONSTANTS
  u1 = u1 u2 = u2 c1 = c1 None = None
  TopRanks = {1} BorderRanks = {2}
  Users = {u1, u2} Nameless = {}
  WlKeys <- OneChapter
  MaxScore = 2 InFlight = FALSE Recur = FALSE
  Faults <- SameSecond
  MaxFaults = 0 MaxChanges = 2
INVARIANT WlRememberedLanded
