SPECIFICATION FairSpec
CONSTANTS
  task = task
  view = view
  None = None
  Calls = {task, view}
  Parent <- ParentOf
  Turns = {1, 2}
  MaxSessions = 2
INVARIANTS
  AnsweredIsFinished
PROPERTIES
  LabelsTrue
  LogClosedLast
  WaitEnds
CHECK_DEADLOCK FALSE
