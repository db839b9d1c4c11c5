SPECIFICATION FsSpec
CONSTANTS
  Proc = {p1, p2}
  Inum = {1, 2, 3}
  Block = {1, 2}
  Name <- Names
  Path <- Paths
  Call = {"open", "create", "mkdir", "link", "unlink", "chdir", "close", "write"}
  MaxCalls = 4
  None = None
VIEW Live
SYMMETRY Sym
INVARIANT NamesValid
INVARIANT BlocksOwned
INVARIANT RefsExact
INVARIANT InUseKept
INVARIANT NoLockCycle
INVARIANT NoPanic
CHECK_DEADLOCK FALSE
