SPECIFICATION Spec
CONSTANTS
  a = a
  b = b
  f1 = f1
  f2 = f2
  Agents = {a, b}
  Files = {f1, f2}
  Orders <- OneOrder
  MaxMarks = 2
  MaxOutside = 1
SYMMETRY Swapped
CHECK_DEADLOCK FALSE
PROPERTY ReadBeforeOverwritten
