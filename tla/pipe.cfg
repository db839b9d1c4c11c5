SPECIFICATION Spec
CONSTANTS
  Proc = {p1, p2}
  First = p1
  PIPESIZE = 2
  UintSize = 4
  NOFILE = 2
  MaxN = 3
  Smp = FALSE
  None = None
INVARIANT RingOrder
INVARIANT SleepersJustified
INVARIANT PipeKept
PROPERTY KilledEnds
CHECK_DEADLOCK FALSE
