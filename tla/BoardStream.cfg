CONSTANTS
  p1 = p1
  Pages = {p1}
  MaxVersion = 3
  MaxEvents = 2
  MaxFetches = 3
SPECIFICATION FairStreamSpec
CHECK_DEADLOCK FALSE
INVARIANTS EveryChangeComes
PROPERTIES ShowsTheBoard
