SPECIFICATION Spec
CONSTANTS
  Calls = {c1, c2, c3}
  Prefixes = {"trigger", "system"}
  NoRef = NoRef
  MaxEvents = 6
SYMMETRY CallSymmetry
INVARIANT TypeOK
INVARIANT SeqDense
INVARIANT RefIsInnermost
INVARIANT ClosePairsItsOpen
INVARIANT DeathClosesEveryFrame
