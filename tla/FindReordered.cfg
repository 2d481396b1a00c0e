CONSTANTS
  d1 = d1  d2 = d2  d3 = d3  d4 = d4
  a1 = a1  a2 = a2
  NoAction = NoAction
  Deliveries = {d1, d3}
  Actions = {a1, a2}
  ActionOf <- Redelivered
  Malformed = {}
  TTL = 1
  MaxTime = 1
SPECIFICATION Spec
CHECK_DEADLOCK FALSE
INVARIANT QueuedInOrder
