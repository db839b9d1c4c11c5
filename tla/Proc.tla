-------------------------------- MODULE Proc --------------------------------
(* The process table (proc.c): fork, exit, wait, kill, sleep, wakeup and the scheduler on several   *)
(* CPUs. What happens under one short hold of a p->lock is one action; wait_lock, and a p->lock     *)
(* that is handed over in swtch(), are held across actions. A spin lock is held by a CPU, so the    *)
(* scheduler can release what the process acquired. A pid is abstracted to the slot of the live     *)
(* process that has it, since pids are never reused; UNUSED slots have pid 0.                       *)
EXTENDS Naturals, FiniteSets

CONSTANTS Slot,       \* entries of proc[]
          initproc,
          Cpu, None

ASSUME ConstAssumption == initproc \in Slot /\ None \notin Slot \cup Cpu /\ Cpu # {}

VARIABLES state, parent, chan, killed, lock,   \* fields of struct proc
          waitLock,    \* the CPU that holds wait_lock
          pc,          \* where the kernel thread of a process is
          child,       \* np of fork()
          run,         \* c->proc
          back,        \* the CPU has switched back to its scheduler, which still holds p->lock
          panicked

vars == <<state, parent, chan, killed, lock, waitLock, pc, child, run, back, panicked>>

Init ==
  /\ state = [p \in Slot |-> IF p = initproc THEN "RUNNABLE" ELSE "UNUSED"]
  /\ parent = [p \in Slot |-> None] /\ chan = [p \in Slot |-> None]
  /\ killed = [p \in Slot |-> FALSE]
  /\ lock = [p \in Slot |-> None] /\ waitLock = None
  /\ pc = [p \in Slot |-> "user"] /\ child = [p \in Slot |-> None]
  /\ run = [c \in Cpu |-> None] /\ back = [c \in Cpu |-> FALSE]
  /\ panicked = FALSE

Children(p) == {q \in Slot : parent[q] = p}

\* The thread of p executes on c.
On(p, c) == run[c] = p /\ ~back[c] /\ ~panicked

\* ... and holds no p->lock from the scheduler any more.
At(p, c, s) == On(p, c) /\ lock[p] # c /\ pc[p] = s

Goto(p, s) == pc' = [pc EXCEPT ![p] = s]

\* sched(): back to the scheduler of c, with p->lock held.
Sched(p, c) == lock' = [lock EXCEPT ![p] = c] /\ back' = [back EXCEPT ![c] = TRUE]

WakeOthers(x) ==                         \* slip: the channel is not compared
  /\ lock[x] = None
  /\ state' = [state EXCEPT ![x] = IF @ = "SLEEPING" /\ chan[x] # x THEN "RUNNABLE" ELSE @]

\* wakeup(x): only process x sleeps on channel x. Waits for its lock.
Wakeup(x) == /\ lock[x] = None
             /\ state' = [state EXCEPT ![x] = IF @ = "SLEEPING" /\ chan[x] = x THEN "RUNNABLE" ELSE @]

----------------------------------------------------------------------------
(* scheduler(), sched() and yield() *)

SchedRun(p, c) ==
  /\ run[c] = None /\ lock[p] = None /\ state[p] = "RUNNABLE" /\ ~panicked
  /\ lock' = [lock EXCEPT ![p] = c]
  /\ state' = [state EXCEPT ![p] = "RUNNING"]
  /\ run' = [run EXCEPT ![c] = p]
  /\ UNCHANGED <<parent, chan, killed, waitLock, pc, child, back, panicked>>

\* The process continues in forkret(), yield() or sleep(): it releases its lock. After sleep() in
\* wait() it takes wait_lock again.
Resume(p, c) ==
  /\ On(p, c) /\ lock[p] = c
  /\ lock' = [lock EXCEPT ![p] = None]
  /\ chan' = [chan EXCEPT ![p] = None]
  /\ Goto(p, IF pc[p] = "asleep" THEN "wait" ELSE pc[p])
  /\ UNCHANGED <<state, parent, killed, waitLock, child, run, back, panicked>>

\* A timer interrupt outside acquire() and release(): interrupts are off in between, also while a CPU
\* spins. (What other processes do meanwhile, other CPUs do too.)
Yield(p, c) ==
  /\ On(p, c) /\ lock[p] = None /\ pc[p] \in {"user", "kernel"}
  /\ state' = [state EXCEPT ![p] = "RUNNABLE"]
  /\ Sched(p, c)
  /\ UNCHANGED <<parent, chan, killed, waitLock, pc, child, run, panicked>>

\* The scheduler after swtch().
SchedRelease(c) ==
  /\ back[c] /\ ~panicked
  /\ lock' = [lock EXCEPT ![run[c]] = None]
  /\ run' = [run EXCEPT ![c] = None]
  /\ back' = [back EXCEPT ![c] = FALSE]
  /\ UNCHANGED <<state, parent, chan, killed, waitLock, pc, child, panicked>>

----------------------------------------------------------------------------
(* fork() *)

\* allocproc() and the copying, under np->lock.
Fork(p, c) ==
  /\ At(p, c, "kernel")
  /\ \E np \in Slot :
       /\ state[np] = "UNUSED" /\ lock[np] = None
       /\ state' = [state EXCEPT ![np] = "USED"]
       /\ pc' = [pc EXCEPT ![p] = "fork1", ![np] = "user"]
       /\ child' = [child EXCEPT ![p] = np]
  /\ UNCHANGED <<parent, chan, killed, lock, waitLock, run, back, panicked>>

ForkParent(p, c) ==
  /\ At(p, c, "fork1") /\ waitLock = None
  /\ parent' = [parent EXCEPT ![child[p]] = p]
  /\ Goto(p, "fork2")
  /\ UNCHANGED <<state, chan, killed, lock, waitLock, child, run, back, panicked>>

ForkRunnable(p, c) ==
  /\ At(p, c, "fork2") /\ lock[child[p]] = None
  /\ state' = [state EXCEPT ![child[p]] = "RUNNABLE"]
  /\ child' = [child EXCEPT ![p] = None]
  /\ Goto(p, "user")
  /\ UNCHANGED <<parent, chan, killed, lock, waitLock, run, back, panicked>>

----------------------------------------------------------------------------
(* usertrap() and exit() *)

\* usertrap() lets a process into a system call unless it has been killed. The test when the call
\* returns is the same test, with no step of the process in between.
Enter(p, c) ==
  /\ At(p, c, "user") /\ ~killed[p]
  /\ Goto(p, "kernel")
  /\ UNCHANGED <<state, parent, chan, killed, lock, waitLock, child, run, back, panicked>>

\* exit(), called by the program or by usertrap() for a killed process. The program of init does not
\* call it.
Exit(p, c) ==
  /\ At(p, c, "kernel") \/ (At(p, c, "user") /\ killed[p])
  /\ p # initproc /\ waitLock = None
  /\ waitLock' = c
  /\ Goto(p, "exit1")
  /\ UNCHANGED <<state, parent, chan, killed, lock, child, run, back, panicked>>

InitExits(c) ==
  /\ At(initproc, c, "user") /\ killed[initproc]
  /\ panicked' = TRUE
  /\ UNCHANGED <<state, parent, chan, killed, lock, waitLock, pc, child, run, back>>

Orphaned(p) == parent                    \* slip: the children keep their parent
Adopted(p) == [q \in Slot |-> IF parent[q] = p THEN initproc ELSE parent[q]]

\* reparent()
Reparent(p, c) ==
  /\ At(p, c, "exit1")
  /\ parent' = Adopted(p)
  /\ IF Children(p) # {} THEN Wakeup(initproc) ELSE UNCHANGED state
  /\ Goto(p, "exit2")
  /\ UNCHANGED <<chan, killed, lock, waitLock, child, run, back, panicked>>

\* Parent might be sleeping in wait().
WakeParent(p, c) ==
  /\ At(p, c, "exit2")
  /\ Wakeup(parent[p])
  /\ Goto(p, "exit3")
  /\ UNCHANGED <<parent, chan, killed, lock, waitLock, child, run, back, panicked>>

Zombie(p, c) ==
  /\ At(p, c, "exit3") /\ lock[p] = None
  /\ state' = [state EXCEPT ![p] = "ZOMBIE"]
  /\ waitLock' = None
  /\ Goto(p, "zombie")
  /\ Sched(p, c)
  /\ UNCHANGED <<parent, chan, killed, child, run, panicked>>

----------------------------------------------------------------------------
(* wait(). init calls it for ever; it always has a child, its shell. *)

Wait(p, c) ==
  /\ At(p, c, "kernel") /\ (p = initproc => Children(p) # {})
  /\ Goto(p, "wait")
  /\ UNCHANGED <<state, parent, chan, killed, lock, waitLock, child, run, back, panicked>>

WaitLock(p, c) ==
  /\ At(p, c, "wait") /\ waitLock = None
  /\ waitLock' = c
  /\ Goto(p, "scan")
  /\ UNCHANGED <<state, parent, chan, killed, lock, child, run, back, panicked>>

AnyZombie(q) == state[q] = "ZOMBIE"      \* slip: the lock of the child is not taken
Dead(q) == state[q] = "ZOMBIE" /\ lock[q] = None

\* freeproc()
Reap(p, c) ==
  /\ At(p, c, "scan")
  /\ \E q \in Children(p) :
       /\ Dead(q)
       /\ state' = [state EXCEPT ![q] = "UNUSED"]
       /\ parent' = [parent EXCEPT ![q] = None]
       /\ chan' = [chan EXCEPT ![q] = None]
       /\ killed' = [killed EXCEPT ![q] = FALSE]
       /\ pc' = [pc EXCEPT ![p] = "user", ![q] = "user"]
  /\ waitLock' = None
  /\ UNCHANGED <<lock, child, run, back, panicked>>

\* copyout() of the status fails: the child is left as it is. init passes no address.
WaitFault(p, c) ==
  /\ At(p, c, "scan") /\ p # initproc
  /\ \E q \in Children(p) : Dead(q)
  /\ waitLock' = None
  /\ Goto(p, "user")
  /\ UNCHANGED <<state, parent, chan, killed, lock, child, run, back, panicked>>

LockDropped == waitLock' = None          \* slip: wait_lock is released before sleep()
LockKept == UNCHANGED waitLock

\* No zombie: return without children or when killed, sleep otherwise.
NoZombie(p, c) ==
  /\ At(p, c, "scan") /\ \A q \in Children(p) : state[q] # "ZOMBIE"
  /\ IF Children(p) = {} \/ killed[p] THEN waitLock' = None /\ Goto(p, "user")
                                      ELSE Goto(p, "sleep") /\ LockKept
  /\ UNCHANGED <<state, parent, chan, killed, lock, child, run, back, panicked>>

\* sleep(p, &wait_lock)
Sleep(p, c) ==
  /\ At(p, c, "sleep") /\ lock[p] = None
  /\ waitLock' = None
  /\ chan' = [chan EXCEPT ![p] = p]
  /\ state' = [state EXCEPT ![p] = "SLEEPING"]
  /\ Goto(p, "asleep")
  /\ Sched(p, c)
  /\ UNCHANGED <<parent, killed, child, run, panicked>>

----------------------------------------------------------------------------
\* kill() of the first slot whose pid matches: a live process, or for pid 0 an UNUSED slot. The program
\* of init does not call it.
Kill(p, c, q) ==
  /\ At(p, c, "kernel") /\ p # initproc /\ lock[q] = None
  /\ killed' = [killed EXCEPT ![q] = TRUE]
  /\ state' = [state EXCEPT ![q] = IF @ = "SLEEPING" THEN "RUNNABLE" ELSE @]
  /\ Goto(p, "user")
  /\ UNCHANGED <<parent, chan, lock, waitLock, child, run, back, panicked>>

ExitStep(p, c) == Reparent(p, c) \/ WakeParent(p, c) \/ Zombie(p, c)
WaitStep(p, c) == WaitLock(p, c) \/ Reap(p, c) \/ NoZombie(p, c) \/ Sleep(p, c)

Next == \E c \in Cpu :
          \/ SchedRelease(c) \/ InitExits(c)
          \/ \E p \in Slot :
               \/ SchedRun(p, c) \/ Resume(p, c) \/ Yield(p, c)
               \/ Enter(p, c) \/ Fork(p, c) \/ ForkParent(p, c) \/ ForkRunnable(p, c)
               \/ Exit(p, c) \/ ExitStep(p, c)
               \/ Wait(p, c) \/ WaitStep(p, c) \/ WaitFault(p, c)
               \/ \E q \in Slot : Kill(p, c, q)

Spec == Init /\ [][Next]_vars

----------------------------------------------------------------------------
\* Every scheduler goes round the table, and a spin lock is not denied for ever to a CPU that spins
\* for it.
Fairness ==
  /\ \A c \in Cpu : WF_vars(SchedRelease(c))
  /\ \A p \in Slot :
       /\ SF_vars(\E c \in Cpu : SchedRun(p, c))
       /\ WF_vars(\E c \in Cpu : Resume(p, c))
       /\ SF_vars(\E c \in Cpu : ExitStep(p, c) \/ WaitStep(p, c))

FairSpec == Spec /\ Fairness

(* Properties *)

TypeOK ==
  /\ state \in [Slot -> {"UNUSED", "USED", "SLEEPING", "RUNNABLE", "RUNNING", "ZOMBIE"}]
  /\ parent \in [Slot -> Slot \cup {None}] /\ chan \in [Slot -> Slot \cup {None}]
  /\ killed \in [Slot -> BOOLEAN] /\ lock \in [Slot -> Cpu \cup {None}]
  /\ waitLock \in Cpu \cup {None}
  /\ pc \in [Slot -> {"user", "kernel", "fork1", "fork2", "exit1", "exit2", "exit3", "zombie",
                      "wait", "scan", "sleep", "asleep"}]
  /\ child \in [Slot -> Slot \cup {None}]
  /\ run \in [Cpu -> Slot \cup {None}] /\ back \in [Cpu -> BOOLEAN] /\ panicked \in BOOLEAN

\* No two CPUs run on one kernel stack, and a slot is not given back while a CPU is still on its
\* stack: not even between a process's last step in exit() and the end of swtch() (proc.c:379-387,
\* 407-425, 459-472).
StackOwned ==
  /\ \A c, d \in Cpu : run[c] # None /\ run[c] = run[d] => c = d
  /\ \A c \in Cpu : run[c] # None => state[run[c]] \notin {"UNUSED", "USED"}

\* A process never sleeps in wait() while it has a child to reap: the wakeup of exit() cannot fall
\* between the scan and the sleep (proc.c:371-384, 436, 539-568).
NoMissedZombie ==
  \A p \in Slot : state[p] = "SLEEPING" => \A q \in Children(p) : state[q] # "ZOMBIE"

\* The parent of a process is there to reap it: it has not exited itself and its slot has not been
\* freed or reused, whatever forks and exits are under way (proc.c:320-322, 334-344, 371-384).
ParentLives ==
  \A q \in Slot : /\ state[q] \notin {"UNUSED", "USED"} /\ q # initproc =>
                       /\ parent[q] # None
                       /\ state[parent[q]] \notin {"UNUSED", "USED", "ZOMBIE"}
                  /\ state[q] = "UNUSED" => parent[q] = None

\* A process in wait() that has a zombie child returns: the exit of the child, or of a process whose
\* children it inherits, always gets it out of its sleep (proc.c:338-343, 376-377, 402-437).
WaitReturns ==
  \A p \in Slot :
    (pc[p] \in {"wait", "scan", "sleep", "asleep"} /\ \E q \in Children(p) : state[q] = "ZOMBIE")
      ~> (pc[p] = "user" \/ panicked)
=============================================================================
