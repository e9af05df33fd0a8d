SPECIFICATION FairSpec
CONSTANTS
  Base = 8
  Starts <- MCStarts
  Settings <- MCSettings
  EpsNum = 1
  EpsDen = 10
  Works = {20}
  WorkTicks = {0, 2}
  TickCost = 6
  OtherCosts = {2}
  LoopCost = 1
  THRESHOLD = 2
  RECORDTHRESH = 5
  NEVENT = 2
  MaxRuns = 2
INVARIANTS KBest StopsWhenBestAgree CountsCycles TicksAreDeducted
PROPERTY Returns
