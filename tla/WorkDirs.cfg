SPECIFICATION FairSpec
CONSTANTS
  a1 = a1
  a2 = a2
  a = a
  None = None
  Sessions = {a1, a2}
  Cards = {a}
  CardOf <- CardOfSession
  Left <- LeftIn
  GitHub = {a}
  Provider = {a}
INVARIANTS
  OwnInstaller
  TempDirsTidied
PROPERTIES
  WholeRepository
  PrepareReturns
CHECK_DEADLOCK FALSE
