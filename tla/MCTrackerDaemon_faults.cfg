SPECIFICATION FairSpec
CONSTANTS
  c1 = c1 c2 = c2 None = None
  Events = {1, 2} Chapters = {c1, c2}
  Schedule <- TwoEvents
  Grace = 2 Horizon = 15 MaxRows = 2
  Interval = 2
  Faults <- PassingFaults MaxFaults = 2
INVARIANTS TypeOK ChapterSettled FlagRespected NeverBehind
PROPERTY ChaptersConverge
