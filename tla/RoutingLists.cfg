SPECIFICATION RoutingSpec
CONSTANTS
  Roles <- MCRoles
  Category <- MCCategory
  Configs <- MCConfigs
  Lists = {l1, l2, l3, l4, l5}
  NoList = NoList
  Letters <- MCLetters
  NoName = "none"
  Renames = 1
SYMMETRY ListSymmetry
CHECK_DEADLOCK FALSE
INVARIANTS
  RoutedByItsList
  IdsSurviveRenames
  EveryListHasACategory
