\* Two processes whose evictions and retrievals interleave.
SPECIFICATION Spec
CONSTANTS
  p1 = p1
  p2 = p2
  Procs <- TwoProcs
  MaxHeap = 2
  MaxRes = 1
  BPP = 2
  NGroups = 3
  PerTable = 8
  MaxPage = 4
  MaxTick = 0
  MaxVer = 1
  MaxExec = 1
  SbrkPages <- SbrkTwo
VIEW RunningState
CONSTRAINT NoClashYet
SYMMETRY ProcSymmetry
INVARIANTS SwapExclusive FirstBlockKept
