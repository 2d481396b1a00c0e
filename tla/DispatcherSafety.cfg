CONSTANTS
  a = a
  e1 = e1  e2 = e2  e3 = e3
  stop1 = stop1  del1 = del1
  NoHandle = NoHandle
  Cards = {a}
  Events = {e1, e2}
  Stoppers = {stop1}
  Deleters = {del1}
  CardOf <- AllOnA
  InboxBuf = 1
  IdleReaping = TRUE
SPECIFICATION FairSpec
CHECK_DEADLOCK FALSE
INVARIANTS SingleWorker RegistryLive AtMostOnce StopQuiesces SessionHasWorkDir
PROPERTIES RemovesAfterDone TeardownReturns ImplementsCardQueue AcceptedIsTaken
