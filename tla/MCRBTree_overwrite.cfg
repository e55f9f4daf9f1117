CONSTANTS
  None = None
  Index = {n1, n2, n3}
  Keys = {1, 2, 3}
  Values = {1, 2}
  Trees = {t1}
  HasCumulant = TRUE
  Cumulants <- MCCumulants
  DefaultCumulant = 0
  Combine <- SumModulo
SPECIFICATION Spec
INVARIANTS CumulantsCurrent
