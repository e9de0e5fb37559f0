SPECIFICATION Spec
CONSTANTS
  Objects = {o1, o2, o3, o4}
  Queues = {q1, q2}
  NULL = NULL
INVARIANTS
  Inv
PROPERTIES
  ImplementsLists
CHECK_DEADLOCK FALSE
