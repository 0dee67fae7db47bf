CONSTANTS
  h1 = h1
  h2 = h2
  e1 = e1
  e2 = e2
  e3 = e3
  Sentinel = {h1, h2}
  Node = {e1, e2, e3}
  Null = Null
  Rank <- MCRank
SPECIFICATION Spec
INVARIANTS
  LinksMatch
  MiddleIsMiddle
  Sorted
PROPERTIES
  ImplementsLists
  SortEnds
