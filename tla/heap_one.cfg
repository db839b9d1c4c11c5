\* One process, every operation: victims are chosen among several pages.
SPECIFICATION Spec
CONSTANTS
  p1 = p1
  p2 = p2
  Procs <- OneProc
  MaxHeap = 3
  MaxRes = 2
  BPP = 4
  NGroups = 2
  PerTable = 5
  MaxPage = 6
  MaxTick = 1
  MaxVer = 1
  MaxExec = 1
  SbrkPages <- SbrkAny
VIEW RunningState
INVARIANTS TypeOK ResidentAccounting MappedIffLoaded
PROPERTY FaultServed
