SPECIFICATION FairSpec
CONSTANTS
  Slot = {init, p1, p2}
  initproc = init
  Cpu = {c1, c2}
  None = None
INVARIANT StackOwned
INVARIANT NoMissedZombie
INVARIANT ParentLives
PROPERTY WaitReturns
CHECK_DEADLOCK FALSE
