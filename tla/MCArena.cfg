CONSTANTS
  None = None
  Values = {a, b}
  MaxItems = 5
SPECIFICATION Spec
VIEW ArenaView
INVARIANTS TypeOK FreeListExact
PROPERTIES ImplementsPool
