SPECIFICATION Spec
CONSTANTS
  a = a
  b = b
  NoInv = NoInv
  Invs = {a, b}
  Faults = {"lastEvent"}
INVARIANT ResultIsOwn
CHECK_DEADLOCK FALSE
