SPECIFICATION Spec
CONSTANTS
  N = 2
  Tries = 5
INVARIANT ConnOfItsListener
CHECK_DEADLOCK FALSE
