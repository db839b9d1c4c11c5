SPECIFICATION Spec
CONSTANTS
  Proc = {p1, p2}
  Block = {a, b, c}
  MAXOPBLOCKS = 2
  LOGSIZE = 4
  Torn = Torn
  NotCached = NotCached
  NoBlock = NoBlock
  MaxOps = 2
  MaxCrashes = 2
INVARIANT QuietIsDurable
PROPERTY CrashAtomic
PROPERTY BeginOpReturns
CHECK_DEADLOCK FALSE
