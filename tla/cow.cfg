\* init and two programs, four pages, at most four processes in all.
SPECIFICATION Spec
CONSTANTS
  NPROC = 3
  Pages = {g1, g2, g3, g4}
  MaxVA = 2
  ImgSize = 1
  SHMEM_MAX = 2
  MaxPid = 4
  Values = {1}
VIEW RunningState
CONSTRAINT MemoryIntact
SYMMETRY PageSymmetry
INVARIANTS WritableIsPrivate Isolated
CHECK_DEADLOCK FALSE
