SPECIFICATION Spec
CONSTANTS
  None = None c1 = c1
  Chapters <- MCChapters Payloads <- MCPayloads Calls <- MCCalls
  TopLimit = 1 LineRanks = {2} MaxNow = 4 MaxFaults = 1
  Hour = 2 Window = 1 Lookback = 3 Idle = 1 MaxLag = 2 Rounds = 1
INVARIANTS TypeOK MonotoneTimes PagesLoseOnlyCursors ReplaySettled LaterReadsAgree GrowthIsSnapshot
CHECK_DEADLOCK FALSE
