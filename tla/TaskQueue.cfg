SPECIFICATION Spec
CONSTANTS
  Tasks = {t1, t2, t3}
  Priorities = {1, 2}
  MaxTime = 1
SYMMETRY Symmetric
PROPERTIES
  ImplementsOrderedWork
CHECK_DEADLOCK FALSE
