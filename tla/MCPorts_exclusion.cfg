CONSTANTS
  None = None
  Threads = {t1, t2}
  Depth = 2
  Trees = {p, q}
  Nested <- AnyNested
  Borrowed = FALSE
  MaxItems = 3
SPECIFICATION Spec
SYMMETRY Symmetry
CHECK_DEADLOCK FALSE
INVARIANTS TypeOK OneAllocator ChangesAlone SpaceReserved
PROPERTIES GrowsAlone
