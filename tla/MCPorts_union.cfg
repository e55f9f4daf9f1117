CONSTANTS
  None = None
  Threads = {t1, t2}
  Depth = 2
  Trees = {p, q, r}
  Nested <- UnionNested
  Borrowed = TRUE
  MaxItems = 1
SPECIFICATION FairSpec
CHECK_DEADLOCK FALSE
PROPERTIES Granted
