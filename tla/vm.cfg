\* Two slots, two trap addresses.
SPECIFICATION Spec
CONSTANTS
  NPROC = 2
  RegSize = 16
  IntSize = 4
  SppUnit = 1
  MppUnit = 1
  InstrLen = 1
  Sz = 3
  Base = 4
  Final = 6
  PGSIZE = 1
  MAXVA = 8
  VendorId = 5
  Entry = 0
  Codes = {"mstatus", "mepc", "sstatus", "stvec", "sepc", "pmpaddr0", "pmpaddr1", "mvendorid", "time"}
  Addrs = {0}
  Operand <- MCOperand
VIEW RunningState
INVARIANTS RegionNamed
PROPERTIES MachineModeLeft KillTerminates
