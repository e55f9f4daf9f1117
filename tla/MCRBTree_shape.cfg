CONSTANTS
  None = None
  Index = {n1, n2, n3, n4, n5, n6, n7, n8, n9}
  Keys = {1, 2, 3, 4, 5, 6, 7, 8, 9}
  Values = {1, 2, 3, 4, 5, 6, 7, 8, 9}
  Trees = {1, 2}
  HasCumulant = TRUE
  Cumulants <- MCCumulants
  DefaultCumulant = 0
  Combine <- SumModulo
SPECIFICATION FreshSpec
VIEW KeyView
INVARIANTS TypeOK LinksAgree RedBlack Threaded NoPanic CumulantsCurrent CumulantLaws
PROPERTIES OtherTreesUntouched CallReturns
