----------------------------- MODULE ProcProofs -----------------------------
(* Proofs about Proc, for every number of slots and CPUs. *)
EXTENDS Proc, TLAPS

\* Between acquire() and release() of wait_lock.
Locked == {"exit1", "exit2", "exit3", "scan", "sleep"}

\* Where no interrupt takes the CPU from the process.
Busy == Locked \cup {"fork1", "fork2", "wait"}

Exiting == {"exit1", "exit2", "exit3", "zombie"}

\* A process that a CPU has switched to is RUNNING, on that CPU alone; the lock of a process is held
\* only by the CPU that switches to it or from it.
CpuInv ==
  /\ \A c, d \in Cpu : run[c] # None /\ run[c] = run[d] => c = d
  /\ \A c \in Cpu : run[c] = None => ~back[c]
  /\ \A c \in Cpu : run[c] # None /\ ~back[c] => state[run[c]] = "RUNNING"
  /\ \A c \in Cpu : back[c] => /\ lock[run[c]] = c
                               /\ state[run[c]] \in {"RUNNABLE", "SLEEPING", "ZOMBIE"}
  /\ \A p \in Slot : state[p] = "RUNNING" => \E c \in Cpu : run[c] = p /\ ~back[c]
  /\ \A p \in Slot : lock[p] # None => run[lock[p]] = p

\* What the state of a process says of where it is in the kernel.
PcInv ==
  /\ \A p \in Slot : pc[p] \in Busy => state[p] = "RUNNING" /\ lock[p] = None
  /\ \A p \in Slot : state[p] = "SLEEPING" => pc[p] = "asleep" /\ chan[p] = p
  /\ \A p \in Slot : pc[p] = "zombie" <=> state[p] = "ZOMBIE"
  /\ \A p \in Slot : state[p] \in {"UNUSED", "USED"} => pc[p] = "user"

\* wait_lock excludes.
WaitLockInv == \A c \in Cpu : run[c] # None /\ pc[run[c]] \in Locked => waitLock = c

\* init does not exit, a process that exits has given its children away, and a slot that fork() fills
\* belongs to one parent.
FamilyInv ==
  /\ state[initproc] \notin {"UNUSED", "USED", "ZOMBIE"} /\ pc[initproc] \notin Exiting
  /\ parent[initproc] = None
  /\ \A p \in Slot : pc[p] \in {"exit2", "exit3", "zombie"} => Children(p) = {}
  /\ \A p \in Slot : pc[p] \in {"fork1", "fork2"} =>
       /\ child[p] \in Slot /\ state[child[p]] = "USED"
       /\ \A q \in Slot : pc[q] \in {"fork1", "fork2"} /\ child[q] = child[p] => q = p
       /\ pc[p] = "fork2" => parent[child[p]] = p
  /\ ParentLives

\* Nobody is about to sleep, or left asleep, with a zombie child.
ZombieInv ==
  /\ \A p \in Slot : pc[p] = "sleep" => \A q \in Children(p) : state[q] # "ZOMBIE"
  /\ \A q \in Slot : pc[q] = "exit3" => state[parent[q]] # "SLEEPING"
  /\ NoMissedZombie

IInv == TypeOK /\ CpuInv /\ PcInv /\ WaitLockInv /\ FamilyInv /\ ZombieInv

----------------------------------------------------------------------------

\* A process that executes in the kernel is RUNNING and nobody holds its lock.
LEMMA AtFacts ==
  ASSUME IInv, NEW p \in Slot, NEW c \in Cpu, NEW s, At(p, c, s)
  PROVE  run[c] = p /\ ~back[c] /\ state[p] = "RUNNING" /\ lock[p] = None /\ pc[p] = s /\ ~panicked
BY ConstAssumption DEF At, On, IInv, CpuInv, TypeOK

\* Types.
LEMMA TypeStep ==
  ASSUME IInv, [Next]_vars
  PROVE  TypeOK'
<1> USE ConstAssumption DEF IInv, TypeOK
<1>1. ASSUME NEW c \in Cpu, SchedRelease(c) PROVE TypeOK'
  BY <1>1 DEF SchedRelease
<1>2. ASSUME NEW c \in Cpu, InitExits(c) PROVE TypeOK'
  BY <1>2 DEF InitExits, At, On
<1>3. ASSUME NEW c \in Cpu, NEW p \in Slot, SchedRun(p, c) PROVE TypeOK'
  BY <1>3 DEF SchedRun
<1>4. ASSUME NEW c \in Cpu, NEW p \in Slot, Resume(p, c) PROVE TypeOK'
  BY <1>4 DEF Resume, On, Goto
<1>5. ASSUME NEW c \in Cpu, NEW p \in Slot, Yield(p, c) PROVE TypeOK'
  BY <1>5 DEF Yield, On, Sched
<1>6. ASSUME NEW c \in Cpu, NEW p \in Slot, Enter(p, c) PROVE TypeOK'
  BY <1>6, AtFacts DEF Enter, Goto
<1>7. ASSUME NEW c \in Cpu, NEW p \in Slot, Fork(p, c) PROVE TypeOK'
  BY <1>7, AtFacts DEF Fork
<1>8. ASSUME NEW c \in Cpu, NEW p \in Slot, ForkParent(p, c) PROVE TypeOK'
  BY <1>8, AtFacts DEF ForkParent, Goto
<1>9. ASSUME NEW c \in Cpu, NEW p \in Slot, ForkRunnable(p, c) PROVE TypeOK'
  BY <1>9, AtFacts DEF ForkRunnable, Goto
<1>10. ASSUME NEW c \in Cpu, NEW p \in Slot, Exit(p, c) PROVE TypeOK'
  BY <1>10, AtFacts DEF Exit, Goto
<1>11. ASSUME NEW c \in Cpu, NEW p \in Slot, Reparent(p, c) PROVE TypeOK'
  BY <1>11, AtFacts DEF Reparent, Goto, Wakeup, Adopted
<1>12. ASSUME NEW c \in Cpu, NEW p \in Slot, WakeParent(p, c) PROVE TypeOK'
  BY <1>12, AtFacts, ZenonT(60) DEF WakeParent, Goto, Wakeup
<1>13. ASSUME NEW c \in Cpu, NEW p \in Slot, Zombie(p, c) PROVE TypeOK'
  BY <1>13, AtFacts DEF Zombie, Goto, Sched
<1>14. ASSUME NEW c \in Cpu, NEW p \in Slot, Wait(p, c) PROVE TypeOK'
  BY <1>14, AtFacts DEF Wait, Goto
<1>15. ASSUME NEW c \in Cpu, NEW p \in Slot, WaitLock(p, c) PROVE TypeOK'
  BY <1>15, AtFacts DEF WaitLock, Goto
<1>16. ASSUME NEW c \in Cpu, NEW p \in Slot, Reap(p, c) PROVE TypeOK'
  BY <1>16, AtFacts DEF Reap, Dead, Children
<1>17. ASSUME NEW c \in Cpu, NEW p \in Slot, NoZombie(p, c) PROVE TypeOK'
  BY <1>17, AtFacts DEF NoZombie, Goto, LockKept
<1>18. ASSUME NEW c \in Cpu, NEW p \in Slot, Sleep(p, c) PROVE TypeOK'
  BY <1>18, AtFacts DEF Sleep, Goto, Sched
<1>19. ASSUME NEW c \in Cpu, NEW p \in Slot, WaitFault(p, c) PROVE TypeOK'
  BY <1>19, AtFacts DEF WaitFault, Goto
<1>20. ASSUME NEW c \in Cpu, NEW p \in Slot, NEW q \in Slot, Kill(p, c, q) PROVE TypeOK'
  BY <1>20, AtFacts DEF Kill, Goto
<1>21. CASE UNCHANGED vars
  BY <1>21 DEF vars
<1> QED BY <1>1, <1>2, <1>3, <1>4, <1>5, <1>6, <1>7, <1>8, <1>9, <1>10, <1>11, <1>12,
          <1>13, <1>14, <1>15, <1>16, <1>17, <1>18, <1>19, <1>20, <1>21
       DEF Next, ExitStep, WaitStep

\* A switch to or from a process happens under its lock, and nobody else touches the state of a
\* process while the lock is held; fork() makes only a slot RUNNABLE that it has filled itself.
LEMMA CpuStep ==
  ASSUME IInv, [Next]_vars
  PROVE  CpuInv'
<1> USE ConstAssumption DEF IInv, TypeOK, CpuInv
<1>1. ASSUME NEW c \in Cpu, SchedRelease(c) PROVE CpuInv'
  BY <1>1 DEF SchedRelease
<1>2. ASSUME NEW c \in Cpu, InitExits(c) PROVE CpuInv'
  BY <1>2 DEF InitExits, At, On
<1>3. ASSUME NEW c \in Cpu, NEW p \in Slot, SchedRun(p, c) PROVE CpuInv'
  BY <1>3 DEF SchedRun
<1>4. ASSUME NEW c \in Cpu, NEW p \in Slot, Resume(p, c) PROVE CpuInv'
  BY <1>4 DEF Resume, On, Goto
<1>5. ASSUME NEW c \in Cpu, NEW p \in Slot, Yield(p, c) PROVE CpuInv'
  BY <1>5 DEF Yield, On, Sched
<1>6. ASSUME NEW c \in Cpu, NEW p \in Slot, Enter(p, c) PROVE CpuInv'
  BY <1>6, AtFacts DEF Enter, Goto
<1>7. ASSUME NEW c \in Cpu, NEW p \in Slot, Fork(p, c) PROVE CpuInv'
  BY <1>7, AtFacts DEF Fork
<1>8. ASSUME NEW c \in Cpu, NEW p \in Slot, ForkParent(p, c) PROVE CpuInv'
  BY <1>8, AtFacts DEF ForkParent, Goto
<1>9. ASSUME NEW c \in Cpu, NEW p \in Slot, ForkRunnable(p, c) PROVE CpuInv'
  BY <1>9, AtFacts DEF ForkRunnable, Goto, FamilyInv
<1>10. ASSUME NEW c \in Cpu, NEW p \in Slot, Exit(p, c) PROVE CpuInv'
  BY <1>10, AtFacts DEF Exit, Goto
<1>11. ASSUME NEW c \in Cpu, NEW p \in Slot, Reparent(p, c) PROVE CpuInv'
  BY <1>11, AtFacts DEF Reparent, Goto, Wakeup, Adopted
<1>12. ASSUME NEW c \in Cpu, NEW p \in Slot, WakeParent(p, c) PROVE CpuInv'
  BY <1>12, AtFacts DEF WakeParent, Goto, Wakeup
<1>13. ASSUME NEW c \in Cpu, NEW p \in Slot, Zombie(p, c) PROVE CpuInv'
  BY <1>13, AtFacts DEF Zombie, Goto, Sched
<1>14. ASSUME NEW c \in Cpu, NEW p \in Slot, Wait(p, c) PROVE CpuInv'
  BY <1>14, AtFacts DEF Wait, Goto
<1>15. ASSUME NEW c \in Cpu, NEW p \in Slot, WaitLock(p, c) PROVE CpuInv'
  BY <1>15, AtFacts DEF WaitLock, Goto
<1>16. ASSUME NEW c \in Cpu, NEW p \in Slot, Reap(p, c) PROVE CpuInv'
  BY <1>16, AtFacts DEF Reap, Dead, Children
<1>17. ASSUME NEW c \in Cpu, NEW p \in Slot, NoZombie(p, c) PROVE CpuInv'
  BY <1>17, AtFacts DEF NoZombie, Goto, LockKept
<1>18. ASSUME NEW c \in Cpu, NEW p \in Slot, Sleep(p, c) PROVE CpuInv'
  BY <1>18, AtFacts DEF Sleep, Goto, Sched
<1>19. ASSUME NEW c \in Cpu, NEW p \in Slot, WaitFault(p, c) PROVE CpuInv'
  BY <1>19, AtFacts DEF WaitFault, Goto
<1>20. ASSUME NEW c \in Cpu, NEW p \in Slot, NEW q \in Slot, Kill(p, c, q) PROVE CpuInv'
  BY <1>20, AtFacts DEF Kill, Goto
<1>21. CASE UNCHANGED vars
  BY <1>21 DEF vars
<1> QED BY <1>1, <1>2, <1>3, <1>4, <1>5, <1>6, <1>7, <1>8, <1>9, <1>10, <1>11, <1>12,
          <1>13, <1>14, <1>15, <1>16, <1>17, <1>18, <1>19, <1>20, <1>21
       DEF Next, ExitStep, WaitStep

\* States and places in the kernel stay together: wakeup() and kill() change only SLEEPING processes.
LEMMA PcStep ==
  ASSUME IInv, [Next]_vars
  PROVE  PcInv'
<1> USE ConstAssumption DEF IInv, TypeOK, CpuInv, PcInv, Busy, Locked
<1>1. ASSUME NEW c \in Cpu, SchedRelease(c) PROVE PcInv'
  BY <1>1 DEF SchedRelease
<1>2. ASSUME NEW c \in Cpu, InitExits(c) PROVE PcInv'
  BY <1>2 DEF InitExits, At, On
<1>3. ASSUME NEW c \in Cpu, NEW p \in Slot, SchedRun(p, c) PROVE PcInv'
  BY <1>3 DEF SchedRun
<1>4. ASSUME NEW c \in Cpu, NEW p \in Slot, Resume(p, c) PROVE PcInv'
  BY <1>4 DEF Resume, On, Goto
<1>5. ASSUME NEW c \in Cpu, NEW p \in Slot, Yield(p, c) PROVE PcInv'
  BY <1>5 DEF Yield, On, Sched
<1>6. ASSUME NEW c \in Cpu, NEW p \in Slot, Enter(p, c) PROVE PcInv'
  BY <1>6, AtFacts DEF Enter, Goto
<1>7. ASSUME NEW c \in Cpu, NEW p \in Slot, Fork(p, c) PROVE PcInv'
  BY <1>7, AtFacts DEF Fork
<1>8. ASSUME NEW c \in Cpu, NEW p \in Slot, ForkParent(p, c) PROVE PcInv'
  BY <1>8, AtFacts DEF ForkParent, Goto
<1>9. ASSUME NEW c \in Cpu, NEW p \in Slot, ForkRunnable(p, c) PROVE PcInv'
  BY <1>9, AtFacts DEF ForkRunnable, Goto, FamilyInv
<1>10. ASSUME NEW c \in Cpu, NEW p \in Slot, Exit(p, c) PROVE PcInv'
  BY <1>10, AtFacts DEF Exit, Goto
<1>11. ASSUME NEW c \in Cpu, NEW p \in Slot, Reparent(p, c) PROVE PcInv'
  BY <1>11, AtFacts DEF Reparent, Goto, Wakeup, Adopted
<1>12. ASSUME NEW c \in Cpu, NEW p \in Slot, WakeParent(p, c) PROVE PcInv'
  BY <1>12, AtFacts DEF WakeParent, Goto, Wakeup
<1>13. ASSUME NEW c \in Cpu, NEW p \in Slot, Zombie(p, c) PROVE PcInv'
  BY <1>13, AtFacts DEF Zombie, Goto, Sched
<1>14. ASSUME NEW c \in Cpu, NEW p \in Slot, Wait(p, c) PROVE PcInv'
  BY <1>14, AtFacts DEF Wait, Goto
<1>15. ASSUME NEW c \in Cpu, NEW p \in Slot, WaitLock(p, c) PROVE PcInv'
  BY <1>15, AtFacts DEF WaitLock, Goto
<1>16. ASSUME NEW c \in Cpu, NEW p \in Slot, Reap(p, c) PROVE PcInv'
  BY <1>16, AtFacts DEF Reap, Dead, Children
<1>17. ASSUME NEW c \in Cpu, NEW p \in Slot, NoZombie(p, c) PROVE PcInv'
  BY <1>17, AtFacts DEF NoZombie, Goto, LockKept
<1>18. ASSUME NEW c \in Cpu, NEW p \in Slot, Sleep(p, c) PROVE PcInv'
  BY <1>18, AtFacts DEF Sleep, Goto, Sched
<1>19. ASSUME NEW c \in Cpu, NEW p \in Slot, WaitFault(p, c) PROVE PcInv'
  BY <1>19, AtFacts DEF WaitFault, Goto
<1>20. ASSUME NEW c \in Cpu, NEW p \in Slot, NEW q \in Slot, Kill(p, c, q) PROVE PcInv'
  BY <1>20, AtFacts DEF Kill, Goto
<1>21. CASE UNCHANGED vars
  BY <1>21 DEF vars
<1> QED BY <1>1, <1>2, <1>3, <1>4, <1>5, <1>6, <1>7, <1>8, <1>9, <1>10, <1>11, <1>12,
          <1>13, <1>14, <1>15, <1>16, <1>17, <1>18, <1>19, <1>20, <1>21
       DEF Next, ExitStep, WaitStep

\* A process is not switched away from between acquire() and release() of wait_lock.
LEMMA WaitLockStep ==
  ASSUME IInv, [Next]_vars
  PROVE  WaitLockInv'
<1> USE ConstAssumption DEF IInv, TypeOK, CpuInv, PcInv, WaitLockInv, Busy, Locked
<1>1. ASSUME NEW c \in Cpu, SchedRelease(c) PROVE WaitLockInv'
  BY <1>1 DEF SchedRelease
<1>2. ASSUME NEW c \in Cpu, InitExits(c) PROVE WaitLockInv'
  BY <1>2 DEF InitExits, At, On
<1>3. ASSUME NEW c \in Cpu, NEW p \in Slot, SchedRun(p, c) PROVE WaitLockInv'
  BY <1>3 DEF SchedRun
<1>4. ASSUME NEW c \in Cpu, NEW p \in Slot, Resume(p, c) PROVE WaitLockInv'
  BY <1>4 DEF Resume, On, Goto
<1>5. ASSUME NEW c \in Cpu, NEW p \in Slot, Yield(p, c) PROVE WaitLockInv'
  BY <1>5 DEF Yield, On, Sched
<1>6. ASSUME NEW c \in Cpu, NEW p \in Slot, Enter(p, c) PROVE WaitLockInv'
  BY <1>6, AtFacts DEF Enter, Goto
<1>7. ASSUME NEW c \in Cpu, NEW p \in Slot, Fork(p, c) PROVE WaitLockInv'
  BY <1>7, AtFacts DEF Fork
<1>8. ASSUME NEW c \in Cpu, NEW p \in Slot, ForkParent(p, c) PROVE WaitLockInv'
  BY <1>8, AtFacts DEF ForkParent, Goto
<1>9. ASSUME NEW c \in Cpu, NEW p \in Slot, ForkRunnable(p, c) PROVE WaitLockInv'
  BY <1>9, AtFacts DEF ForkRunnable, Goto
<1>10. ASSUME NEW c \in Cpu, NEW p \in Slot, Exit(p, c) PROVE WaitLockInv'
  BY <1>10, AtFacts DEF Exit, Goto
<1>11. ASSUME NEW c \in Cpu, NEW p \in Slot, Reparent(p, c) PROVE WaitLockInv'
  BY <1>11, AtFacts DEF Reparent, Goto, Wakeup, Adopted
<1>12. ASSUME NEW c \in Cpu, NEW p \in Slot, WakeParent(p, c) PROVE WaitLockInv'
  BY <1>12, AtFacts DEF WakeParent, Goto, Wakeup
<1>13. ASSUME NEW c \in Cpu, NEW p \in Slot, Zombie(p, c) PROVE WaitLockInv'
  BY <1>13, AtFacts DEF Zombie, Goto, Sched
<1>14. ASSUME NEW c \in Cpu, NEW p \in Slot, Wait(p, c) PROVE WaitLockInv'
  BY <1>14, AtFacts DEF Wait, Goto
<1>15. ASSUME NEW c \in Cpu, NEW p \in Slot, WaitLock(p, c) PROVE WaitLockInv'
  BY <1>15, AtFacts DEF WaitLock, Goto
<1>16. ASSUME NEW c \in Cpu, NEW p \in Slot, Reap(p, c) PROVE WaitLockInv'
  BY <1>16, AtFacts DEF Reap, Dead, Children
<1>17. ASSUME NEW c \in Cpu, NEW p \in Slot, NoZombie(p, c) PROVE WaitLockInv'
  BY <1>17, AtFacts DEF NoZombie, Goto, LockKept
<1>18. ASSUME NEW c \in Cpu, NEW p \in Slot, Sleep(p, c) PROVE WaitLockInv'
  BY <1>18, AtFacts DEF Sleep, Goto, Sched
<1>19. ASSUME NEW c \in Cpu, NEW p \in Slot, WaitFault(p, c) PROVE WaitLockInv'
  BY <1>19, AtFacts DEF WaitFault, Goto
<1>20. ASSUME NEW c \in Cpu, NEW p \in Slot, NEW q \in Slot, Kill(p, c, q) PROVE WaitLockInv'
  BY <1>20, AtFacts DEF Kill, Goto
<1>21. CASE UNCHANGED vars
  BY <1>21 DEF vars
<1> QED BY <1>1, <1>2, <1>3, <1>4, <1>5, <1>6, <1>7, <1>8, <1>9, <1>10, <1>11, <1>12,
          <1>13, <1>14, <1>15, <1>16, <1>17, <1>18, <1>19, <1>20, <1>21
       DEF Next, ExitStep, WaitStep

\* Processes become children only of a process that runs in fork(), or of init.
LEMMA FamilyStep ==
  ASSUME IInv, [Next]_vars
  PROVE  FamilyInv'
<1> USE ConstAssumption DEF IInv, TypeOK, CpuInv, PcInv, WaitLockInv, FamilyInv, Busy, Locked,
                             Exiting, Children, ParentLives
<1>1. ASSUME NEW c \in Cpu, SchedRelease(c) PROVE FamilyInv'
  BY <1>1 DEF SchedRelease
<1>2. ASSUME NEW c \in Cpu, InitExits(c) PROVE FamilyInv'
  BY <1>2 DEF InitExits, At, On
<1>3. ASSUME NEW c \in Cpu, NEW p \in Slot, SchedRun(p, c) PROVE FamilyInv'
  BY <1>3 DEF SchedRun
<1>4. ASSUME NEW c \in Cpu, NEW p \in Slot, Resume(p, c) PROVE FamilyInv'
  BY <1>4 DEF Resume, On, Goto
<1>5. ASSUME NEW c \in Cpu, NEW p \in Slot, Yield(p, c) PROVE FamilyInv'
  BY <1>5 DEF Yield, On, Sched
<1>6. ASSUME NEW c \in Cpu, NEW p \in Slot, Enter(p, c) PROVE FamilyInv'
  BY <1>6, AtFacts DEF Enter, Goto
<1>7. ASSUME NEW c \in Cpu, NEW p \in Slot, Fork(p, c) PROVE FamilyInv'
  BY <1>7, AtFacts DEF Fork
<1>8. ASSUME NEW c \in Cpu, NEW p \in Slot, ForkParent(p, c) PROVE FamilyInv'
  BY <1>8, AtFacts DEF ForkParent, Goto
<1>9. ASSUME NEW c \in Cpu, NEW p \in Slot, ForkRunnable(p, c) PROVE FamilyInv'
  BY <1>9, AtFacts DEF ForkRunnable, Goto
<1>10. ASSUME NEW c \in Cpu, NEW p \in Slot, Exit(p, c) PROVE FamilyInv'
  BY <1>10, AtFacts DEF Exit, Goto
<1>11. ASSUME NEW c \in Cpu, NEW p \in Slot, Reparent(p, c) PROVE FamilyInv'
  BY <1>11, AtFacts DEF Reparent, Goto, Wakeup, Adopted
<1>12. ASSUME NEW c \in Cpu, NEW p \in Slot, WakeParent(p, c) PROVE FamilyInv'
  BY <1>12, AtFacts DEF WakeParent, Goto, Wakeup
<1>13. ASSUME NEW c \in Cpu, NEW p \in Slot, Zombie(p, c) PROVE FamilyInv'
  BY <1>13, AtFacts DEF Zombie, Goto, Sched
<1>14. ASSUME NEW c \in Cpu, NEW p \in Slot, Wait(p, c) PROVE FamilyInv'
  BY <1>14, AtFacts DEF Wait, Goto
<1>15. ASSUME NEW c \in Cpu, NEW p \in Slot, WaitLock(p, c) PROVE FamilyInv'
  BY <1>15, AtFacts DEF WaitLock, Goto
<1>16. ASSUME NEW c \in Cpu, NEW p \in Slot, Reap(p, c) PROVE FamilyInv'
  BY <1>16, AtFacts DEF Reap, Dead
<1>17. ASSUME NEW c \in Cpu, NEW p \in Slot, NoZombie(p, c) PROVE FamilyInv'
  BY <1>17, AtFacts DEF NoZombie, Goto, LockKept
<1>18. ASSUME NEW c \in Cpu, NEW p \in Slot, Sleep(p, c) PROVE FamilyInv'
  BY <1>18, AtFacts DEF Sleep, Goto, Sched
<1>19. ASSUME NEW c \in Cpu, NEW p \in Slot, WaitFault(p, c) PROVE FamilyInv'
  BY <1>19, AtFacts DEF WaitFault, Goto
<1>20. ASSUME NEW c \in Cpu, NEW p \in Slot, NEW q \in Slot, Kill(p, c, q) PROVE FamilyInv'
  BY <1>20, AtFacts DEF Kill, Goto
<1>21. CASE UNCHANGED vars
  BY <1>21 DEF vars
<1> QED BY <1>1, <1>2, <1>3, <1>4, <1>5, <1>6, <1>7, <1>8, <1>9, <1>10, <1>11, <1>12,
          <1>13, <1>14, <1>15, <1>16, <1>17, <1>18, <1>19, <1>20, <1>21
       DEF Next, ExitStep, WaitStep

\* While a process is between its scan and its sleep, or between the wakeup of its parent and its
\* end, it holds wait_lock, so nobody else changes parents, becomes a zombie or falls asleep.
LEMMA ZombieStep ==
  ASSUME IInv, [Next]_vars
  PROVE  ZombieInv'
<1> USE ConstAssumption DEF IInv, TypeOK, CpuInv, PcInv, WaitLockInv, FamilyInv, ZombieInv, Busy,
                             Locked, ParentLives, Children, NoMissedZombie
<1>1. ASSUME NEW c \in Cpu, SchedRelease(c) PROVE ZombieInv'
  BY <1>1 DEF SchedRelease
<1>2. ASSUME NEW c \in Cpu, InitExits(c) PROVE ZombieInv'
  BY <1>2 DEF InitExits, At, On
<1>3. ASSUME NEW c \in Cpu, NEW p \in Slot, SchedRun(p, c) PROVE ZombieInv'
  BY <1>3 DEF SchedRun
<1>4. ASSUME NEW c \in Cpu, NEW p \in Slot, Resume(p, c) PROVE ZombieInv'
  BY <1>4 DEF Resume, On, Goto
<1>5. ASSUME NEW c \in Cpu, NEW p \in Slot, Yield(p, c) PROVE ZombieInv'
  BY <1>5 DEF Yield, On, Sched
<1>6. ASSUME NEW c \in Cpu, NEW p \in Slot, Enter(p, c) PROVE ZombieInv'
  BY <1>6, AtFacts DEF Enter, Goto
<1>7. ASSUME NEW c \in Cpu, NEW p \in Slot, Fork(p, c) PROVE ZombieInv'
  BY <1>7, AtFacts DEF Fork
<1>8. ASSUME NEW c \in Cpu, NEW p \in Slot, ForkParent(p, c) PROVE ZombieInv'
  BY <1>8, AtFacts DEF ForkParent, Goto
<1>9. ASSUME NEW c \in Cpu, NEW p \in Slot, ForkRunnable(p, c) PROVE ZombieInv'
  BY <1>9, AtFacts DEF ForkRunnable, Goto
<1>10. ASSUME NEW c \in Cpu, NEW p \in Slot, Exit(p, c) PROVE ZombieInv'
  BY <1>10, AtFacts DEF Exit, Goto
<1>11. ASSUME NEW c \in Cpu, NEW p \in Slot, Reparent(p, c) PROVE ZombieInv'
  BY <1>11, AtFacts DEF Reparent, Goto, Wakeup, Adopted
<1>12. ASSUME NEW c \in Cpu, NEW p \in Slot, WakeParent(p, c) PROVE ZombieInv'
  <2>1. /\ state[p] = "RUNNING" /\ pc[p] = "exit2" /\ p # initproc /\ parent[p] \in Slot
        /\ \A q \in Slot : pc[q] \in Locked => q = p
    BY <1>12, AtFacts DEF WakeParent, Exiting
  <2>2. /\ \A q \in Slot : \/ state'[q] = state[q] /\ (q = parent[p] => state[q] # "SLEEPING")
                           \/ state[q] = "SLEEPING" /\ state'[q] = "RUNNABLE"
        /\ pc' = [pc EXCEPT ![p] = "exit3"] /\ UNCHANGED parent
    BY <1>12, <2>1 DEF WakeParent, Goto, Wakeup
  <2> QED BY <2>1, <2>2
<1>13. ASSUME NEW c \in Cpu, NEW p \in Slot, Zombie(p, c) PROVE ZombieInv'
  BY <1>13, AtFacts DEF Zombie, Goto, Sched
<1>14. ASSUME NEW c \in Cpu, NEW p \in Slot, Wait(p, c) PROVE ZombieInv'
  BY <1>14, AtFacts DEF Wait, Goto
<1>15. ASSUME NEW c \in Cpu, NEW p \in Slot, WaitLock(p, c) PROVE ZombieInv'
  BY <1>15, AtFacts DEF WaitLock, Goto
<1>16. ASSUME NEW c \in Cpu, NEW p \in Slot, Reap(p, c) PROVE ZombieInv'
  BY <1>16, AtFacts DEF Reap, Dead
<1>17. ASSUME NEW c \in Cpu, NEW p \in Slot, NoZombie(p, c) PROVE ZombieInv'
  BY <1>17, AtFacts DEF NoZombie, Goto, LockKept
<1>18. ASSUME NEW c \in Cpu, NEW p \in Slot, Sleep(p, c) PROVE ZombieInv'
  BY <1>18, AtFacts DEF Sleep, Goto, Sched
<1>19. ASSUME NEW c \in Cpu, NEW p \in Slot, WaitFault(p, c) PROVE ZombieInv'
  BY <1>19, AtFacts DEF WaitFault, Goto
<1>20. ASSUME NEW c \in Cpu, NEW p \in Slot, NEW q \in Slot, Kill(p, c, q) PROVE ZombieInv'
  BY <1>20, AtFacts DEF Kill, Goto
<1>21. CASE UNCHANGED vars
  BY <1>21 DEF vars
<1> QED BY <1>1, <1>2, <1>3, <1>4, <1>5, <1>6, <1>7, <1>8, <1>9, <1>10, <1>11, <1>12,
          <1>13, <1>14, <1>15, <1>16, <1>17, <1>18, <1>19, <1>20, <1>21
       DEF Next, ExitStep, WaitStep

----------------------------------------------------------------------------
(* Theorems *)

\* The inductive invariant.
THEOREM Invariance == Spec => []IInv
<1>1. Init => IInv
  <2> SUFFICES ASSUME Init PROVE IInv
    OBVIOUS
  <2> USE ConstAssumption DEF Init
  <2>1. TypeOK
    BY DEF TypeOK
  <2>2. CpuInv /\ PcInv /\ WaitLockInv
    BY DEF CpuInv, PcInv, WaitLockInv, Busy, Locked
  <2>3. FamilyInv /\ ZombieInv
    BY DEF FamilyInv, ZombieInv, ParentLives, NoMissedZombie, Children, Exiting
  <2> QED BY <2>1, <2>2, <2>3 DEF IInv
<1>2. IInv /\ [Next]_vars => IInv'
  BY TypeStep, CpuStep, PcStep, WaitLockStep, FamilyStep, ZombieStep DEF IInv
<1> QED BY <1>1, <1>2, PTL DEF Spec

\* No two CPUs are on one kernel stack, and a slot is not freed or filled while one is
\* (scheduler(), exit(), wait(), proc.c:379-387, 407-425, 459-472).
THEOREM StackCorrect == Spec => []StackOwned
<1>1. IInv => StackOwned
  BY DEF IInv, TypeOK, CpuInv, StackOwned
<1> QED BY <1>1, Invariance, PTL

\* Nobody sleeps in wait() with a zombie child: the wakeup of exit() is not lost, and init hears of
\* the zombies it inherits (proc.c:371-384, 436, 539-568).
THEOREM ZombieCorrect == Spec => []NoMissedZombie
<1>1. IInv => NoMissedZombie
  BY DEF IInv, ZombieInv
<1> QED BY <1>1, Invariance, PTL

\* Every process has a parent that has not exited (fork(), exit(), reparent(), proc.c:320-344, 371-384).
THEOREM ParentCorrect == Spec => []ParentLives
<1>1. IInv => ParentLives
  BY DEF IInv, FamilyInv
<1> QED BY <1>1, Invariance, PTL
=============================================================================
