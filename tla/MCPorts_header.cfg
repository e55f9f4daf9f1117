CONSTANTS
  None = None
  Threads = {t1, t2}
  Depth = 1
  Trees = {p, q}
  Nested <- NothingNested
  Borrowed = TRUE
  MaxItems = 2
SPECIFICATION Spec
CHECK_DEADLOCK FALSE
PROPERTIES OnlyOwnItemsChange
