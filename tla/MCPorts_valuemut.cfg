CONSTANTS
  None = None
  Threads = {t1}
  Depth = 2
  Trees = {p, q}
  Nested <- ValueMutNested
  Borrowed = TRUE
  MaxItems = 2
SPECIFICATION FairSpec
CHECK_DEADLOCK FALSE
PROPERTIES Granted
