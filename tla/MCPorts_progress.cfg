CONSTANTS
  None = None
  Threads = {t1, t2, t3}
  Depth = 1
  Trees = {p, q}
  Nested <- NothingNested
  Borrowed = TRUE
  MaxItems = 1
SPECIFICATION FairSpec
PROPERTIES Granted
