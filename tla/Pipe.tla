-------------------------------- MODULE Pipe --------------------------------
(* Pipes (pipe.c) with the open files that name their two ends (file.c, sysfile.c) and the          *)
(* processes that share them: fork duplicates the descriptors, exit closes them, kill wakes up      *)
(* sleepers. One pipe at a time. Turns of the loop of pipewrite() are single actions under          *)
(* pi->lock; piperead() copies under the lock, where nothing it looks at can change.                *)
EXTENDS Naturals, FiniteSets

CONSTANTS Proc, First,   \* the process that runs initially
          PIPESIZE,
          UintSize,      \* nread and nwrite are uint: they wrap at 2^32, a multiple of PIPESIZE
          NOFILE,        \* bound on the descriptors a process has for one end
          MaxN,          \* bound on the n of a read or write
          Smp,           \* several CPUs; the Makefile starts one
          None

ASSUME ConstAssumption == /\ First \in Proc /\ None \notin Proc
                          /\ IsFiniteSet(Proc)     \* NPROC entries in the process table
                          /\ PIPESIZE \in Nat \ {0} /\ UintSize \in Nat
                          /\ UintSize > PIPESIZE /\ UintSize % PIPESIZE = 0
                          /\ NOFILE \in Nat \ {0} /\ MaxN \in Nat \ {0} /\ Smp \in BOOLEAN

End == {"read", "write"}

VARIABLES fds,          \* ofile: how many descriptors of a process name each end
          ref,          \* ref of the struct file of each end
          open,         \* readopen, writeopen
          freed,        \* the page of the pipe has been given to kfree()
          nread, nwrite, data,
          lock,         \* the process that holds pi->lock
          pc, todo,     \* where a process is, and the bytes it still has to read or write
          killed

pipeVars == <<open, freed, nread, nwrite, data>>
vars == <<fds, ref, pipeVars, lock, pc, todo, killed>>

\* With one CPU nothing else runs while a process holds a spin lock: interrupts are off.
Runs(p) == lock \in {None, p} \/ Smp

Goto(p, s) == pc' = [pc EXCEPT ![p] = s]

\* wakeup() of the sleepers of one kind, seen from the pc a step already sets.
Woken(f, s, t) == [p \in Proc |-> IF f[p] = s THEN t ELSE f[p]]

Empty == nread = nwrite
FullLate == nwrite = (nread + PIPESIZE + 1) % UintSize     \* slip: one byte too many
Full == nwrite = (nread + PIPESIZE) % UintSize

NoFds == [e \in End |-> 0]

Init ==
  /\ fds = [p \in Proc |-> NoFds] /\ ref = NoFds
  /\ open = [e \in End |-> FALSE] /\ freed = TRUE
  /\ nread = 0 /\ nwrite = 0 /\ data = [i \in 0..PIPESIZE - 1 |-> 0]
  /\ lock = None
  /\ pc = [p \in Proc |-> IF p = First THEN "run" ELSE "unused"]
  /\ todo = [p \in Proc |-> 0] /\ killed = [p \in Proc |-> FALSE]

----------------------------------------------------------------------------
(* Descriptors *)

\* usertrap(): a system call starts unless the process has been killed, then it leaves by exit().
InCall(p) == pc[p] = "run" /\ Runs(p) /\ ~killed[p]

\* sys_pipe(): pipealloc(), and a descriptor for each end.
PipeAlloc(p) ==
  /\ InCall(p) /\ freed /\ ref = NoFds
  /\ fds' = [fds EXCEPT ![p] = [e \in End |-> 1]]
  /\ ref' = [e \in End |-> 1]
  /\ open' = [e \in End |-> TRUE] /\ freed' = FALSE
  /\ nread' = 0 /\ nwrite' = 0
  /\ UNCHANGED <<data, lock, pc, todo, killed>>

\* sys_dup(): fdalloc() and filedup().
Dup(p, e) ==
  /\ InCall(p) /\ fds[p][e] \in 1..NOFILE - 1
  /\ fds' = [fds EXCEPT ![p][e] = @ + 1]
  /\ ref' = [ref EXCEPT ![e] = @ + 1]
  /\ UNCHANGED <<pipeVars, lock, pc, todo, killed>>

\* fork(): filedup() of every descriptor.
Fork(p, q) ==
  /\ InCall(p) /\ pc[q] = "unused"
  /\ fds' = [fds EXCEPT ![q] = fds[p]]
  /\ ref' = [e \in End |-> ref[e] + fds[p][e]]
  /\ Goto(q, "run")
  /\ UNCHANGED <<pipeVars, lock, todo, killed>>

Closing == [read |-> "close read", write |-> "close write"]
ExitClosing == [read |-> "exit read", write |-> "exit write"]

\* fileclose() of one descriptor, up to the release of ftable.lock.
CloseFile(p, e, more) ==
  /\ fds[p][e] > 0
  /\ fds' = [fds EXCEPT ![p][e] = @ - 1]
  /\ ref' = [ref EXCEPT ![e] = @ - 1]
  /\ Goto(p, IF ref[e] = 1 THEN more[e] ELSE pc[p])

\* sys_close()
Close(p, e) ==
  /\ InCall(p)
  /\ CloseFile(p, e, Closing)
  /\ UNCHANGED <<pipeVars, lock, todo, killed>>

ReadersWoken(e, f) == Woken(f, "read sleep", "read")      \* slip: whichever end is closed
CloseWakes(e, f) == IF e = "write" THEN Woken(f, "read sleep", "read")
                                   ELSE Woken(f, "write sleep", "write wake")

OneClosed(o) == \E e \in End : ~o[e]     \* slip: readopen == 0 || writeopen == 0
BothClosed(o) == \A e \in End : ~o[e]

\* pipeclose(), called by fileclose() for the last reference of an end; then back to the caller.
PipeClose(p, e) ==
  LET back == IF pc[p] = Closing[e] THEN "run" ELSE "exit" IN
  /\ pc[p] \in {Closing[e], ExitClosing[e]} /\ lock = None
  /\ open' = [open EXCEPT ![e] = FALSE]
  /\ pc' = CloseWakes(e, [pc EXCEPT ![p] = back])
  /\ freed' = BothClosed(open')
  /\ UNCHANGED <<fds, ref, nread, nwrite, data, lock, todo, killed>>

\* exit(): by the program, or by usertrap() for a killed process.
Exit(p) ==
  /\ pc[p] = "run" /\ Runs(p)
  /\ Goto(p, "exit")
  /\ UNCHANGED <<fds, ref, pipeVars, lock, todo, killed>>

\* ... closes every open file, then the parent reaps it.
ExitClose(p, e) ==
  /\ pc[p] = "exit" /\ Runs(p)
  /\ CloseFile(p, e, ExitClosing)
  /\ UNCHANGED <<pipeVars, lock, todo, killed>>

Exited(p) ==
  /\ pc[p] = "exit" /\ Runs(p) /\ fds[p] = NoFds
  /\ Goto(p, "unused")
  /\ killed' = [killed EXCEPT ![p] = FALSE]
  /\ UNCHANGED <<fds, ref, pipeVars, lock, todo>>

LeftAsleep(s) == s                       \* slip: kill() only sets the flag
Roused(s) == CASE s = "read sleep" -> "read" [] s = "write sleep" -> "write wake" [] OTHER -> s

\* kill(): the victim runs if it was asleep.
Kill(p) ==
  /\ pc[p] # "unused" /\ (lock = None \/ Smp)
  /\ killed' = [killed EXCEPT ![p] = TRUE]
  /\ Goto(p, Roused(pc[p]))
  /\ UNCHANGED <<fds, ref, pipeVars, lock, todo>>

----------------------------------------------------------------------------
(* piperead() *)

\* sys_read() and fileread()
Read(p, n) ==
  /\ InCall(p) /\ fds[p]["read"] > 0
  /\ todo' = [todo EXCEPT ![p] = n]
  /\ Goto(p, "read")
  /\ UNCHANGED <<fds, ref, pipeVars, lock, killed>>

Available == (nwrite + UintSize - nread) % UintSize

Smaller(m, n) == IF m < n THEN m ELSE n

\* Under pi->lock: while the pipe is empty and open for writing, give up if killed or sleep; then
\* take up to n bytes. copyout() may fail after any of them, the byte is gone then.
PipeRead(p) ==
  /\ pc[p] = "read" /\ lock = None
  /\ IF Empty /\ open["write"]
       THEN /\ Goto(p, IF killed[p] THEN "run" ELSE "read sleep")
            /\ todo' = [todo EXCEPT ![p] = IF killed[p] THEN 0 ELSE @]
            /\ UNCHANGED nread
       ELSE /\ \E k \in 0..Smaller(todo[p], Available) :
                 /\ k = 0 => Available = 0
                 /\ nread' = (nread + k) % UintSize
            /\ pc' = Woken([pc EXCEPT ![p] = "run"], "write sleep", "write wake")
            /\ todo' = [todo EXCEPT ![p] = 0]
  /\ UNCHANGED <<fds, ref, open, freed, nwrite, data, lock, killed>>

----------------------------------------------------------------------------
(* pipewrite() *)

\* sys_write() and filewrite()
Write(p, n) ==
  /\ InCall(p) /\ fds[p]["write"] > 0
  /\ todo' = [todo EXCEPT ![p] = n]
  /\ Goto(p, "write wake")
  /\ UNCHANGED <<fds, ref, pipeVars, lock, killed>>

\* acquire(&pi->lock), at the start or at the end of sleep().
WriteLock(p) ==
  /\ pc[p] = "write wake" /\ lock = None
  /\ lock' = p
  /\ Goto(p, "write")
  /\ UNCHANGED <<fds, ref, pipeVars, todo, killed>>

AtLoop(p) == pc[p] = "write" /\ lock = p /\ todo[p] > 0

\* if(pi->readopen == 0 || killed(pr)) return -1
WriteAbandon(p) ==
  /\ AtLoop(p) /\ (~open["read"] \/ killed[p])
  /\ lock' = None
  /\ todo' = [todo EXCEPT ![p] = 0]
  /\ Goto(p, "run")
  /\ UNCHANGED <<fds, ref, pipeVars, killed>>

\* The pipe is full: wakeup(&pi->nread), sleep(&pi->nwrite, &pi->lock).
WriteSleep(p) ==
  /\ AtLoop(p) /\ open["read"] /\ ~killed[p] /\ Full
  /\ pc' = Woken([pc EXCEPT ![p] = "write sleep"], "read sleep", "read")
  /\ lock' = None
  /\ UNCHANGED <<fds, ref, pipeVars, todo, killed>>

\* One byte. The number of a byte is its content, so that the order of bytes can be seen.
WriteByte(p) ==
  /\ AtLoop(p) /\ open["read"] /\ ~killed[p] /\ ~Full
  /\ data' = [data EXCEPT ![nwrite % PIPESIZE] = nwrite]
  /\ nwrite' = (nwrite + 1) % UintSize
  /\ todo' = [todo EXCEPT ![p] = @ - 1]
  /\ UNCHANGED <<fds, ref, open, freed, nread, lock, pc, killed>>

\* After the loop, or when copyin() fails.
WriteReturn(p) ==
  /\ pc[p] = "write" /\ lock = p
  /\ todo[p] = 0 \/ (open["read"] /\ ~killed[p] /\ ~Full)
  /\ pc' = Woken([pc EXCEPT ![p] = "run"], "read sleep", "read")
  /\ lock' = None
  /\ todo' = [todo EXCEPT ![p] = 0]
  /\ UNCHANGED <<fds, ref, pipeVars, killed>>

WriteStep(p) == \/ WriteLock(p) \/ WriteAbandon(p) \/ WriteSleep(p)
                \/ WriteByte(p) \/ WriteReturn(p)

ExitStep(p) == (\E e \in End : ExitClose(p, e)) \/ Exited(p)

Call(p) == \/ PipeAlloc(p)
           \/ \E e \in End : Dup(p, e) \/ Close(p, e)
           \/ \E q \in Proc : Fork(p, q)
           \/ \E n \in 1..MaxN : Read(p, n) \/ Write(p, n)

\* What a process does in the kernel once a call has started or it has been killed.
KernelStep(p) == \/ PipeRead(p) \/ WriteStep(p) \/ ExitStep(p) \/ (killed[p] /\ Exit(p))
                 \/ \E e \in End : PipeClose(p, e)

Next == \E p \in Proc : Call(p) \/ KernelStep(p) \/ Exit(p) \/ Kill(p)

\* Every runnable process gets to run, and finds pi->lock free again and again. Nothing is assumed
\* of what programs do.
Fairness == \A p \in Proc : SF_vars(KernelStep(p))

Spec == Init /\ [][Next]_vars /\ Fairness

----------------------------------------------------------------------------
(* Properties *)

\* The bytes in the pipe are the ones that were written and not yet read, in order, also when the
\* counters wrap (pipe.c:88, 95, 123).
RingOrder == \A i \in 0..PIPESIZE - 1 :
               i < Available => data[((nread + i) % UintSize) % PIPESIZE] = (nread + i) % UintSize

\* A reader sleeps only while the pipe is empty and open for writing, a writer only while it is full
\* and open for reading: whoever changes that wakes the sleepers (pipe.c:61-68, 88-90, 99, 113-127).
SleepersJustified ==
  lock = None => \A p \in Proc : /\ pc[p] = "read sleep" => Empty /\ open["write"]
                                 /\ pc[p] = "write sleep" => Full /\ open["read"]

\* An end is open as long as some process has a descriptor for it, so the page of the pipe is not
\* freed under a process that reads, writes or closes it (file.c:60-77, pipe.c:69-73).
PipeKept ==
  /\ \A e \in End : (\E p \in Proc : fds[p][e] > 0) => open[e]
  /\ \A p \in Proc : pc[p] \notin {"run", "exit", "unused"} => ~freed
  /\ ~freed => \E p \in Proc : fds[p] # NoFds \/ pc[p] \notin {"run", "exit", "unused"}

\* A killed process ends, also when it is blocked on the pipe (pipe.c:84, 114, proc.c:600-603).
KilledEnds == \A p \in Proc : killed[p] ~> pc[p] = "unused"
=============================================================================
