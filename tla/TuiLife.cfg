SPECIFICATION FairSpec
CONSTANTS
  None = None
  Cards = {1, 2}
  Event <- LogEvents
  RingSize = 2
PROPERTIES
  DialogTrue
  KeepsNewest
  DeletionReported
CHECK_DEADLOCK FALSE
