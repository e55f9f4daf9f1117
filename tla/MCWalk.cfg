CONSTANTS
  None = None
  Index = {1, 2, 3, 4, 5, 6}
  Keys = {1, 2, 3, 4, 5, 6, 7}
  Values = {1, 2}
  Trees = {1, 2}
  HasCumulant = TRUE
  Cumulants <- MCCumulants
  DefaultCumulant = 0
  Combine <- SumModulo
  Merged <- LeftValue
SPECIFICATION MCSpec
VIEW WalkView
INVARIANTS WalkTypeOK SlotsAccounted WalkCumulants
PROPERTIES OnlyTheirOwnTree ImplementsTraversal
