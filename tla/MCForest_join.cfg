CONSTANTS
  None = None
  Index = {1,2,3,4,5,6,7,8,9,10,11,12,13,14,15,16,17,18,19,20,21,22,23,24}
  Keys = {1,2,3,4,5,6,7,8,9,10,11,12,13,14,15,16,17,18,19,20,21,22,23,24}
  Values = {1, 2, 3, 4}
  Trees = {1, 2, 3, 4, 5, 6, 7, 8}
  HasCumulant = TRUE
  Cumulants <- MCCumulants
  DefaultCumulant = 0
  Combine <- SumModulo
  Merged <- MergeBySize
SPECIFICATION JoinSpec
VIEW ForestView
INVARIANTS RedBlack
