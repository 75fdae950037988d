CONSTANTS
  Thread = {t1, t2}
  Name = {f, g}
  MaxNest = 2
  MAX_STACK_DEPTH = 2
  MAX_THREADS = 1
  max_trace_entries = 2
  NULL = NULL
SPECIFICATION Spec
SYMMETRY Symmetry
VIEW Seen
INVARIANTS
  StackFollows
  LockOrder
PROPERTIES
  ImplementsRecent
