CONSTANTS
  worker = worker  bug = bug  review = review  notes = notes
  column = column
  plain = plain  links = links  typo = typo
  one = one  two = two  broken = broken
  fresh = fresh  known = known
  w1 = w1  w2 = w2
  c1 = c1
  NoText = NoText
  Files = {worker, bug, review, notes}
  Md = {worker, bug, review}
  Skeletons = {worker}
  Texts = {plain, links, typo}
  Keys = {column}
  Routers = {one, two, broken}
  Router = one
  Workers = {w1, w2}
  CardOf <- CardsOf
  Signals = {fresh, known}
  MaxEdits = 2
  Refs <- References
  Default <- Defaults
  RulesOf <- RuleSets
  Source <- AtFirst
SPECIFICATION Spec
CHECK_DEADLOCK FALSE
SYMMETRY SameCard
INVARIANTS PromptsAsRendered ReferencesLive
