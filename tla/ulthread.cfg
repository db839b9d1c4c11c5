SPECIFICATION Spec
CONSTANTS
  MAXULTHREADS = 4
  Priorities = {1, 2}
  Algorithms <- AllAlgorithms
  MaxCreate = 4
  MaxInit = 2
INVARIANTS OneSlotEach ResumesInPlace
PROPERTIES PriorityRespected ReturnsWhenDone RoundRobinServes
