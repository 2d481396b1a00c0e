CONSTANTS
  d1 = d1  d2 = d2  d3 = d3  d4 = d4
  a1 = a1  a2 = a2
  NoAction = NoAction
  Deliveries = {d1, d2, d3, d4}
  Actions = {a1, a2}
  ActionOf <- Thrice
  Malformed = {d4}
  TTL = 1
  MaxTime = 2
SPECIFICATION Spec
SYMMETRY Redeliveries
CHECK_DEADLOCK FALSE
INVARIANTS OncePerWindow DuplicateHasOriginal AuditDirAccounted
