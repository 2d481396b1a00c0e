CONSTANTS
  k1 = k1  k2 = k2
  plan = plan  action = action  done = done
  m1 = m1  m2 = m2  m3 = m3  n1 = n1  c1 = c1  c2 = c2
  NoColumn = NoColumn
  Cards = {k1, k2}
  Columns = {plan, action, done}
  FirstCol = plan
  Calls = {m1, m2, m3, n1, c1, c2}
  Human = {m1, n1, c1}
  Op <- Ops
  CardOf <- CallCards
  TargetOf <- Targets
  Instants <- Readings
SPECIFICATION Spec
CONSTRAINT OneFailure
CHECK_DEADLOCK FALSE
INVARIANTS EventsMatchChanges MoveEventsTrue AgentAnswersTrue LatestUnlessPrefix
