CONSTANTS
  g1 = g1  g2 = g2  g3 = g3
  h1 = h1  h2 = h2  h3 = h3  h4 = h4
  Operator = Operator
  NoHook = NoHook
  Gateways = {g1, g2}
  Hooks = {h1, h2, h3}
  Provisioned = {h1}
SPECIFICATION FairSpec
CHECK_DEADLOCK FALSE
INVARIANTS NoSecondHook ServedByItsTunnel DeadUrlExplained NoOrphanTunnel
PROPERTIES DeletesOnlyItsOwn SignalEnds
