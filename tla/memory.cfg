SPECIFICATION Spec
CONSTANTS
  Proc = {init, p1, p2}
  init = init
  Page <- MCPages
  PGSIZE = 2
  FAN = 3
  Segment <- Segments
  MaxSegs = 2
  SbrkBytes <- Bytes
  None = None
VIEW Shape
INVARIANT PagesOwned
INVARIANT ImageExact
INVARIANT NoPanic
CHECK_DEADLOCK FALSE
