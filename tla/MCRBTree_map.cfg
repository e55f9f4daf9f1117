CONSTANTS
  None = None
  Index = {n1, n2, n3, n4, n5}
  Keys = {1, 2, 3, 4, 5}
  Values = {0, 1}
  Trees = {t1}
  HasCumulant = FALSE
  Cumulants <- MCCumulants
  DefaultCumulant = 0
  Combine <- SumModulo
SPECIFICATION Spec
VIEW KeyView
INVARIANTS LawsOnSubtrees
PROPERTIES ImplementsOrderedMap
