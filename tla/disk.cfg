SPECIFICATION Spec
CONSTANTS
  Proc = {p1, p2, p3}
  Block = {a, b, c, d}
  NBUF = 3
  NUM = 7
  None = None
INVARIANT Coherent
INVARIANT DescriptorsAccounted
INVARIANT NoLostCompletion
VIEW Shape
SYMMETRY Sym
CHECK_DEADLOCK FALSE
