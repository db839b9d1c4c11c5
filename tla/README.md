# Verification of the CSE 536 kernels

The repository holds four assignments on xv6-riscv: a boot loader (Project 1), a kernel with
on-demand heap paging, swapping and copy-on-write fork (Project 2), a user-level threading library
(Project 3) and a trap-and-emulate virtual machine monitor (Project 4). Projects 2, 3 and 4 carry
their own copy of the xv6 kernel; the copies share `log.c`, `bio.c`, `pipe.c`, `kalloc.c`, the locks
and the file system almost line by line, so a part of the base kernel is modelled once, from the
Project-3 copy, where the assignment left it unchanged. Paths below are relative to
`src/Project-N/cse536-release/xv6-riscv/`.

## Inventory

| Component | State | Operations | What is hard | What makes it correct |
|---|---|---|---|---|
| Heap paging (P2 `pfault.c`, `proc.c`, `exec.c`) | heap tracker, resident counter, page table, `psa_tracker`, save-area blocks | sbrk, fault, evict, retrieve, exec | the handler sleeps in eight disk transfers, other handlers run in between; full save area; limits tested with `==` | tracker, counter and page table agree; save-area blocks have one owner; contents survive; faults are served |
| CoW fork (P2 `cow.c`, `proc.c`, `vm.c`) | group table, per-process group fields, page tables, free list | fork(1), fork(0), store fault, exit, wait, exec, sbrk | freeing depends on counts several processes change; exec resets the table under others; slots keep stale fields | isolation; writable pages are private |
| User threads (P3 `user/ulthread.c`) | thread table, contexts, `current_tid`, `prev_tid` | init, create, schedule, yield, destroy | slot reuse, creation from threads, stale `current_tid`, full table | one slot per thread; contexts not mixed up; order of each algorithm; no starvation |
| VM monitor (P4 `trap-and-emulate.c`) | one global set of virtual CSRs and mode, PMP flag, VM mark of each process slot | emulated csrr/csrw/ecall/mret/sret, PMP set-up, exec/fork/kill/wait of VMs | guest-chosen order of privileged instructions; several VMs on one state; marks that outlive their process; values that pass through `int` | given-up privilege is not regained; a guest can be stopped |
| Log (`log.c`) | header, outstanding count, log area | begin_op, log_write, end_op, commit, recovery | crash between any two writes; group commit; log space | a crash leaves all or none of a group of operations |
| Buffer cache, disk driver (`bio.c`, `sleeplock.c`, `virtio_disk.c`) | LRU list, buffers, descriptors, rings | bread, bwrite, brelse, request, interrupt | recycling under waiters; completions in any order; interrupts racing completions | one current copy of a block; no lost completion; no descriptor leaks |
| Processes (`proc.c`) | process table, channels, p->lock, wait_lock | fork, exit, wait, kill, sleep, wakeup, scheduler | lost wakeups, orphans, a zombie still on its stack, several CPUs | every zombie is reaped by a living parent; a stack has one user |
| Pipes (`pipe.c`, `file.c`) | ring buffer, open ends, reference counts | pipe, read, write, dup, fork, close, kill | both sides sleep; counters wrap; last close | bytes in order; nobody sleeps without a reason |
| File system (`fs.c`, `file.c`, `sysfile.c`) | inodes on disk and in memory, directories, bitmap, references | open, create, mkdir, link, unlink, chdir, close, write | calls race on names; iput() frees outside its lock; error paths | names lead to inodes; counts are exact; blocks have one owner; no lock cycle |
| User memory (`kalloc.c`, `vm.c`, `exec.c`) | free pages, page tables with their own pages | sbrk, fork, exec, exit | kalloc() may fail at any page | no page is lost or freed twice; a failed call changes nothing |
| Boot loader (P1 `bootloader/`) | kernel image, hash | measure, load, recover | block tails | what is measured is what runs |
| Console (`console.c`, `uart.c`) | input ring with three indices, transmit ring | read, write, line editing, interrupts | a full ring without a newline, wrapping indices, lost wakeups | typed lines are kept; nobody sleeps without a reason |
| User programs, assembly | | | | not modelled |

Interaction: a fault enters through `usertrap`; the handler calls the page-table code and, for
swapping, the buffer cache, where it sleeps. `fork`, `wait` and `exec` change the CoW table, which
`uvmunmap` consults whenever user pages are freed. System calls on files run inside transactions of
the log (`begin_op`, `end_op`), the log reads and writes through the buffer cache, the cache through
the driver. All Makefiles build for one CPU (`CPUS := 1`), so concurrency is interleaving at sleeps and
at timer interrupts while interrupts are on; `Proc` is checked for two CPUs, for which its locking is
written.

How the modules lean on each other: `Disk` shows that a buffer read is the block last written, which
`Log` uses as its disk and cache; `Log` implements `AtomicDisk`, which `Fs` uses when it lets a crash
fall back to a moment without transactions; `Proc` shows that the sleep/wakeup discipline loses
nothing in `wait()`, and `Log`, `Disk` and `Pipe` take sleep with release of the lock as one step.

`PROJECT.json` lists every component, the hazards at their lines and the properties aimed at them.

## Modules

**HeapPaging** (P2). One action per operation: `Sbrk` is `growproc` with `track_heap`; `HeapFault` is
`page_fault_handler` from the trap to the first sleep or to the end; `EvictStep` and `RetrieveStep`
are one iteration of the block loops of `evict_page_to_disk` and `retrieve_page_from_disk`, the last
one continuing to the code after the loop; `SegFault` is the program-file path; `Exec` the commit of
`exec`; `HeapFaultNoMem`, `EvictNoMem` and `Panic` the ways the kernel stops. The handler runs with
interrupts off, so it is interrupted only where it sleeps, and the buffer of a block stays locked
through an iteration: that is the granularity. The victim is chosen and copied before the first
sleep and unmapped after the last, as in the code. `addr`, `loaded`, `start`, `time` are the fields of
`heap_tracker`; `psa` is `psa_tracker` by groups of blocks; a block's content is a token naming
process, page, block and number of the store, so the properties can tell what was lost. Abstracted:
addresses to page numbers, the page table to the set of mapped heap pages and the leaf tables that
exist, the program to one text page, a guard page and a stack page.

**Cow** (P2). The group table with its first-match lookups and duplicate slots, `fork(1)`
(`uvmcopy_cow`), `fork(0)` (`uvmcopy` and its error path), `copy_on_write`, `copyout` (which ignores
`PTE_W`), `exit`, `wait` with `freeproc`, `sbrk` by a page, and `exec` in steps: `cow_init`, then the
commit, then the freeing of the old pages one at a time, because `exec` sleeps and can be preempted.
A missing group is a null pointer the kernel dereferences: a panic. The page after `SHMEM_MAX`
overwrites the count. Processes are the non-on-demand programs; slot 1 is init and the shell.

**Ulthread** (P3). The table, the scheduler's loop (one action per algorithm and iteration), yield,
destroy, create by `main` or by a thread, and repeated initialisation. A context is the thread it
belongs to and the point it resumes at (two alternating points are enough to see a stale one).
Threads that call `ulthread_schedule` or return from their start function are left out; no program of
the repository does.

**TrapEmulate** (P4). `Ecall`, `Sret`, `Mret`, `Csrr` and `Csrw` are `trap_and_emulate` for the five
instructions, `Unknown` its refusals, each from the trap to the end of `usertrap` (`Finish`), which
runs with interrupts off. `exec_mode`, `csr` and `pmp_config` are the global `vmm`; `parent`,
`vmprocess`, `killed`, `name` and `epc` the fields of a process; `region` says that the page table maps
the VM's 4 MB. `ShellForks`, `Fork`, `ForkFails`, `Exec`, `ExecFails`, `Exit`, `Kill` and `Wait` are what
the kernel does to these fields; the actions ending in `Panics` are the ways it stops. The shell and
init wait for their children in a loop and are one parent, `Keeper`; every other parent is a slot, may
wait or not, and hands its children to init when it ends (`reparent`). A path is two bits, for the two
different tests of the prefix `vm-` (of the path, and of its last component). The CSRs are grouped as
the code treats them: the mode they need, whether `csrw_write` has a branch for them; all PMP
registers but the first two addresses are one. Between traps a guest computes what it likes, so the address it traps at and the
value of its source register are inputs, and where `csrr` puts its result makes no difference. Words
and ints keep their two sizes (`RegSize`, `IntSize`) and conversions wrap as in C. Left out: the page
table `mret` builds, because nothing ever installs it (that the range a guest chose for its permissions
may end beyond MAXVA, where `walk` panics, is kept); the two pages behind it that its `memset`
clears, because that depends on the layout of the free list.

**Log** (`log.c`, with `bpin` of `bio.c`). One action for each hold of `log.lock` and for each disk
transfer of `commit` and `recover_from_log`. A block's content is the number of the operation that
wrote it last. `Crash` keeps `disk`, `logd` and `head` and may leave `Torn` in the block being
written; the header fits one sector and is written whole. `Recycle` is `bget` taking an unreferenced
buffer for another block. **AtomicDisk** is the promise in the comment at the head of `log.c`: a
current image that operations write, a durable image that becomes the current one only when no
operation is in progress, a crash that falls back to it. `CrashAtomic` is the refinement, with
`durable` mapped to what recovery would make of the disk now, `current` to what operations see, and
`active` to the processes inside an operation.

**Disk** (`bio.c`, `sleeplock.c`, `virtio_disk.c`). What a spin lock protects is one action; the device
takes requests in order and completes them in any order at any time, also between two turns of the
interrupt handler's loop. `kill` may end any sleep early. The rings are queues: an index that the
other side never overtakes carries no more information. Of a buffer's content the model keeps whether
it is what was last written to the block, and likewise for the disk; a recycled buffer holds what
belongs to another block.

**Proc** (`proc.c`, `trap.c`). p->lock is a variable where it is held across steps (through `swtch`),
a guard where it is held within one; wait_lock likewise. `run` is `c->proc`, `back` says that the CPU
has switched to its scheduler, which still holds p->lock. `Reap` is `freeproc` in `wait`, `WaitFault`
the failing `copyout`. `Fork` to `ForkRunnable` are the three critical sections of `fork`.

**Pipe** (`pipe.c`, `file.c`, `sysfile.c`). One pipe at a time. `fds` and `ref` are the descriptors and
the reference counts of the two files; `CloseFile` and `PipeClose` are the two halves of
`fileclose`. A turn of the loop of `pipewrite` is a step, because the writer gives the lock up in the
middle; `piperead` copies under the lock in one step. A byte's content is its number.

**Fs** (`fs.c`, `file.c`, `sysfile.c`, image of `mkfs.c`). The steps of a call are its sections under an
inode's sleep-lock; `create` and `unlink` hold the directory across two steps. `puts` is the list of
`iput`s a call still has to make: each is a step, two when it frees the inode, because `iput` releases
`itable.lock` in between. `dinode` is the inode in the buffer cache, `inode` and `valid` the table
entry. Files have one block, processes one descriptor, `.` is left out of directories.

**UserMemory** (`kalloc.c`, `vm.c`, `proc.c`, `exec.c`). Three-level page tables whose own pages come
from the allocator, as functions on a record of free pages, table and outcome (`walk`, `mappages`,
`uvmunmap`, `freewalk`, ...), and the calls that use them page by page. Sizes are bytes, so that
segments and `sbrk` may end inside a page; contents of pages are left out.

**Boot** (P1 `start.c`, `elf.c`, `load.c`). `IsSecureBoot`, one action per block copied, the tail, and
the panic of `kernel_copy`; images are functions of bytes, SHA-256 is an operator constant.

The **MC** modules give the constants, the views, the symmetry sets and the constraints of the runs.

**Console** (`console.c`, `uart.c`). A turn of the loop of `consoleread` is an action (`NoInput`,
`EndOfFile`, `TakeByte`, `ReadDone`) under `cons.lock`; `Type`, `Erase` and `KillLine` are the cases of
`consoleintr`, `Put`, `PutSleep` and `TxIntr` the two halves of the output. `r`, `w` and `e` wrap at
`UintSize`; the 64-bit indices of the transmit ring are naturals. A kill between the test of `killed`
and the sleep is left out, as on one CPU. Control-P and NUL change nothing and are left out.

**HeapPagingProofs, SharingProofs, LogProofs, DiskProofs, ProcProofs, PipeProofs, MachineProofs,
UserProofs**: proofs, below. SharingProofs is about the two parts that count who shares what, the pages
of Cow and the inodes of Fs, MachineProofs about the two programs that own a whole machine,
TrapEmulate and Boot, UserProofs about what a program meets first, Ulthread and Console. The
specifications of Fs, Boot and Console have a prefix in their names (`FsSpec`, `BootSpec`,
`ConsoleSpec`) because each stands beside another one there.

Definitions marked *slip* in a module are plausible mistakes; each shows that a property would notice
that mistake in the definition that follows it, and nothing else uses them.

## Runs

| Run | Shows | Bounds |
|---|---|---|
| `heap_one` | types, resident accounting, tracker and page table agree, every fault is served | one process, 3 slots, limit 2, the real 4 blocks per page, 2 groups (the save area fills up after one exec leaks a group), leaf tables of 5 pages so that `uvmunmap: walk` is met |
| `heap_swap` | groups have one owner, the first block survives | two processes, limit 1, so every second fault evicts; 2 blocks per page, 3 groups |
| `heap_kept` (violated) | three quarters of an evicted page are lost | as `heap_one`, smaller |
| `ulthread` | slots, contexts, priority order, complete return, no starvation under round robin | 3 thread slots, 4 threads, so slots are reused and the table overflows; 2 priorities; 2 initialisations |
| `cow` | writable pages are private, processes are isolated | init and two programs, 4 pages, address spaces of 2 pages, 4 pids, lists of 2 pages so that they overflow |
| `vm` | machine mode is not regained, the region goes with the name, a killed guest ends and its slot is free unless a living parent keeps it | 2 slots, so that VMs run together, follow each other in a slot, and one is the other's parent; 4-bit registers and 2-bit ints; all four return modes, SPP, two PMP addresses with a range that ends above MAXVA; every kind of path |
| `log` | refinement of AtomicDisk, durability when quiet, begin_op returns | 2 processes, 2 operations of up to 2 blocks, 3 home blocks, a log of 4, so that an operation waits for space and for a commit; 2 crashes, so that recovery itself is interrupted |
| `disk` | cache and disk agree, descriptors are accounted for, no completion is lost | 3 processes, 4 blocks in 3 buffers, 7 descriptors: two requests at once, and a third that gets one descriptor and gives it back |
| `proc` | one CPU per stack, no missed zombie, living parents, wait returns | init and 2 slots, 2 CPUs: an orphan is adopted while init waits, a parent reaps on one CPU while the child leaves the other |
| `pipe` | order, justified sleep, lifetime, killed processes end | 2 processes, a pipe of 2 bytes, counters modulo 4, writes of 3 bytes, 2 descriptors for an end; one CPU |
| `fs` | names, blocks, references, table entries, lock order, panics | 2 processes, 4 calls, 3 inodes, 2 blocks (both tables fill up), 3 paths that meet in one directory; crashes |
| `memory` | ownership of pages, exact images, no panic | init and 2 processes, 19 pages, pages of 2 bytes, tables of 3 entries, 2 segments out of three kinds |

`RunningState` is a view that identifies all panicked states with the same reason: after a panic no
variable changes. `NoClashYet` and `MemoryIntact` stop exploring once an eviction took a group that
was not its own, or a page in use was freed: the properties checked there speak only of behaviours
before that. `Shape` (memory) forgets which page is where: as long as every page has one owner, which
is part of the view, pages are interchangeable. `Shape` (disk) does the same for descriptors, with
`DescriptorsAccounted` in the view. `Live` (fs) forgets the name and paths of a call that
only has inodes left to put; no step and no property looks at them then. Processes (`heap_swap`,
`fs`, `disk`) and pages (`cow`) are interchangeable, so the symmetry is sound; no liveness is checked
under symmetry or a view that hides steps. `CHECK_DEADLOCK FALSE` is said where the system may stop:
when the bound on calls, operations or pids is reached, after a panic, or when every process of a
program has exited.

The paths of `fs` contain no `..`, for a reason given under known defects.

What the conditional properties exclude is deliberate. `clash` (`SwapExclusive`, `FirstBlockKept`)
marks an eviction that met a full save area or another eviction whose choice was not marked yet;
`misused` (`OneSlotEach`, `ResumesInPlace`, `ReturnsWhenDone`, `RoundRobinServes`) marks a create in a
full table, which takes the scheduler's slot, or an init over unfinished threads; `bad` and `through`
(`WritableIsPrivate`, `Isolated`) mark a page freed while in use and a `copyout` into a shared page;
`tampered` (`MachineModeLeft`) marks a write of mstatus that was refused with `kill` and stored.
Each is a defect of the code at one line; the properties show that nothing else goes wrong.

Fairness. HeapPaging: weak fairness of `EvictStep` and `RetrieveStep` of each process, since the disk
completes its transfers and the round-robin scheduler runs every runnable process; nothing is assumed
of programs. Ulthread: weak fairness of the scheduler's loop (the kernel runs the process) and of the
running thread's next yield or destroy (the contract of cooperative threads, kept by all five test
programs). Log: weak fairness of a woken `begin_op`, of `brelse` and of recovery, strong fairness of
`end_op` and of the committing process, which must find buffers unlocked that others lock and release
again and again; system calls on files end after a bounded number of buffers. Proc: every scheduler
goes round the table (strong fairness of running a process, because a runnable one may be locked for a
moment), a process that is on a CPU proceeds, a spin lock is not denied for ever. Pipe: strong
fairness of what a process does in the kernel, nothing of what programs do. TrapEmulate: weak fairness of the timer interrupt of each
running process and of `wait` in the shell and init, which frees every zombie that is their child (on
one CPU init reaps all it finds within its time slice); a program may execute anything, or the same
instruction for ever, and need not wait for its children: only the parent of a zombie frees it, so
`KillTerminates` promises the slot only when the parent is the shell or init, or is killed itself. Cow, Disk, Fs and UserMemory have no
liveness property.

## Proofs

`HeapPagingProofs` proves, for any number of processes, slots, groups, blocks per page and pages, and
any limit:

- `TypeCorrect`: `Spec => []TypeOK`;
- `ResidentCorrect`: `Spec => []ResidentAccounting`;
- `MappedCorrect`: `Spec => []MappedIffLoaded`;
- `SwapExclusiveCorrect`: `Spec => []SwapExclusive`;
- `FirstBlockCorrect`: `Spec => []FirstBlockKept`.

Assumptions: `ConstAssumption` only (sizes are positive naturals, the first leaf table covers the
program's own pages). The inductive invariant of the first three is `Basic`: the type invariant and, for each process,
`AddrOK` (the used slots are a prefix of the tracker with increasing addresses, so two loaded slots
never have the same page), `HandlerOK` (what a sleeping handler's locals say of the tracker: the
faulting page is a page, eviction runs exactly at the limit, a page being retrieved has a startblock),
`MappedOK` and `ResidentOK`. `ResidentAccounting` alone is not inductive: that eviction removes exactly
one loaded page needs `MappedOK`, that it removes exactly one mapping needs `AddrOK`. `ProcOK(p)`
mentions only variables of `p`, so one lemma (`OtherProc`) covers the processes a step leaves alone,
and each action has a lemma of its own; `MapPageBasic` serves both places that end by mapping the
faulting page. `LeastNat` says that a non-empty set of naturals has a least element, from the
well-foundedness of strict inclusion on finite sets; the searches of the handler (`PickGroup`,
`SlotOf`, `Victim`, all CHOOSE of a least element) rest on it.

For the last two `SwapInv` and `BlockInv` are added. `SwapExclusive` alone is not inductive: that a
new eviction takes no group in use needs `MarkInv`, which says block by block how far an eviction has
marked its group and a retrieval has unmarked it, since both sleep after every block. `BlockInv` says
where the first block of every page is at each of these points: in memory, in the handler's buffer, or
on disk in the group the slot names; that another process' transfer leaves it alone is `SwapInv`.

`SharingProofs` proves, of Cow, for any number of processes, physical pages, addresses, pids and values:

- `PrivateCorrect`: `Spec => []WritableIsPrivate`;
- `IsolatedCorrect`: `Spec => []Isolated`.

The inductive invariant adds `ShapeInv` (only `exec` has a second table, a slot that is not alive is
not in `exec`, a free slot has no memory) and `FreeInv` (while no page in use was freed, a mapped page
is not on the free list). Without `FreeInv` a page from `kalloc` need not be private; without
`ShapeInv` the old table of an `exec` could survive in a slot that `fork` fills. The actions fall into
three kinds, each with a lemma: those that take pages off the free list and map each once
(`AllocInv`: `fork(0)`, `copy_on_write`, `sbrk`, the commit of `exec`), those that unmap places and
free pages (`FreeingInv`: `wait`, `sbrk`, `exec`), those that touch no mapped page (`FrameInv`,
`JunkInv`). `fork(1)` is proved by itself: both tables become read-only, so sharing makes no writable
page shared. The CoW table takes no part in the proof: it decides which pages are freed, and a wrong
decision is what `bad` records. Assumption: `CowAssumption` (sizes are naturals, at least two slots,
one pid, pages for one image).

`MachineProofs` proves, of TrapEmulate, for any number of processes, any sizes of registers and ints and any sets
of CSRs, trap addresses and operands:

- `TypeCorrect`: `Spec => []TypeOK`;
- `MachineModeNotRegained`: `Spec => MachineModeLeft`;
- `RegionCorrect`: `Spec => []RegionNamed`.

The inductive invariant `IInv` adds `MppBelowMachine` to these: below machine mode, mstatus does not
name machine mode as the mode to return to. It holds when machine mode is left because the mret that
left it read mstatus, and afterwards because mstatus is only stored in machine mode; `MachineModeLeft`
alone says nothing of mstatus. The invariant splits into a half for the processes, which the tail of
`usertrap` and the system calls change, and one for the virtual machine, which only `Ecall`, `Sret`,
`Mret` and `Csrw` change, so every action disturbs few conjuncts. Assumptions: `ConstAssumption` (sizes
are positive, an int is no wider than a register, the seven registers the emulation reads are among the
CSRs).

`LogProofs` proves, for any finite set of processes, any blocks, values and log size, and any number of
operations and crashes:

- `QuietCorrect`: `Spec => []QuietIsDurable`;
- `Refinement`: `Spec => CrashAtomic`, that is, Log implements AtomicDisk.

Under the mapping a commit happens in one step, `WriteHead`; `begin_op`, `log_write`, `end_op` and
`Crash` are the abstract operations of the same meaning, and copying to the log, installing, clearing
and recovering are stutters. This needs the inductive invariant to say how far each of these has come:
`CommitInv` (the log on disk equals the cache up to the tail before the header is written, the home
blocks equal the log up to the tail afterwards), `BootInv` (the same for recovery), `BufferInv` (a
block not in the log is in the cache as on disk, one that is in the log is pinned, so `bget` cannot
lose it), `CountInv` and `ActiveInv` (`outstanding` is the number of operations in progress, one process
commits and none is in an operation then) and `HeaderInv` (a header names each block once, which is
`log_write`'s absorption). Assumption: `ConstAssumption`; processes are finite in number because
`outstanding` counts them.

`DiskProofs` proves, for any finite set of processes, any blocks, any number of buffers and any number
of descriptors from three on:

- `TypeCorrect`: `Spec => []TypeOK`;
- `BuffersCoherent`: `Spec => []Coherent`;
- `DescriptorsNeverLost`: `Spec => []DescriptorsAccounted`;
- `CompletionsNeverLost`: `Spec => []NoLostCompletion`.

The inductive invariant follows the three layers. Cache: `ListOK` (every buffer is in the list),
`CacheInv` (one buffer for a block, and `refcnt` is the number of processes that use the buffer, so
`bget` recycles none in use), `LockInv`. Driver: `RequestInv` (who waits for a transfer has exactly one
request, in the chain it allocated), `OwnInv` (`b->disk` is set exactly while the request is in
flight), `RingInv` (the rings name each request once, and a used ring with entries has an interrupt
coming or a handler at work). Data: `DataInv` (a valid buffer is current, a disk that is behind has one
process with the write for it, a completed request leaves its buffer current). `Coherent` needs all
of them: a read may trust the disk because only the holder of the buffer could have a write pending for
the block. `DescriptorsAccounted` is inductive only with `RequestInv`, which says that chains of two
requests are disjoint. Most steps leave the driver or the cache alone and share one lemma each. The
searches of the list (the first buffer with the block, the last unused one) rest on `LeastNat`.
Assumption: `ConstAssumption`; processes are finite in number because `refcnt` counts them.

`ProcProofs` proves, for any number of slots and CPUs:

- `StackCorrect`: `Spec => []StackOwned`;
- `ZombieCorrect`: `Spec => []NoMissedZombie`;
- `ParentCorrect`: `Spec => []ParentLives`.

The inductive invariant relates three things. `CpuInv`: a RUNNING process is on exactly one CPU, and
p->lock is held across `swtch` by the CPU that switches. `PcInv` and `WaitLockInv`: where a process
can be in the kernel in each state, and that the sections under wait_lock exclude each other. `FamilyInv`
and `ZombieInv`: who exits has given its children away, a slot being filled by `fork` belongs to one
parent, and a parent woken by `exit` cannot go back to sleep before the child is a zombie, because the
child holds wait_lock until then.

`PipeProofs` proves, for any finite set of processes, any number of descriptors, any size of the ring
and any width of the counters that is a multiple of it:

- `RingCorrect`: `Spec => []RingOrder`;
- `KeptCorrect`: `Spec => []PipeKept`;
- `SleepersCorrect`: `~Smp /\ Spec => []SleepersJustified`.

The first two hold on any number of CPUs. The inductive invariant counts descriptors: `ref` of an end
is the number of descriptors for it in all processes, an end is open while it has one or the process
that gave up the last one is still in `pipeclose`, and who is in a call has a descriptor. The third is
about one CPU (`Smp` is FALSE, as in `CPUS := 1` of the Makefile): on several CPUs a writer that is
killed between two bytes returns without waking the readers, the defect listed below. Its invariant
`SleepInv` says that a reader left asleep at a non-empty pipe is owed a wakeup by the writer that holds
the lock. The arithmetic lemmas (`BetweenIs`, `ModDiffer`) are those of counters that wrap.

`MachineProofs` also proves, of Boot, for all images, header fields, hash functions and disk sizes:

- `MeasuredKernelRuns`: `BootSpec => []VerifiedIsLoaded`;
- `RecoveryKernelRuns`: `BootSpec => []RecoveryInBlocks`.

Assumption (`Sizes`, part of the statements): `BSIZE` is 1024 and the header 4096 bytes as in the code,
sizes are naturals and an image is not smaller than its header. The inductive invariant says that the
loop has copied exactly the blocks before its index, to their places. There is no run for `Boot`: the
theorems cover every size, and an instance small enough to enumerate would have to change BSIZE and
the header.

`UserProofs` proves, of Ulthread, for any number of slots, threads, priorities and initialisations:

- `TypeCorrect`: `Spec => []TypeOK`;
- `EveryThreadInItsSlot`: `Spec => []OneSlotEach`;
- `ContextsKept`: `Spec => []ResumesInPlace`;
- `SchedulesToTheEnd`: `Spec => ReturnsWhenDone`;
- `HighestPriorityFirst`: `Spec => PriorityRespected`.

The inductive invariant has two parts. `Library` holds also after a misuse: types, a thread runs only
in a slot that is not the scheduler's, and only the slot of `current_tid` may be in state YIELD
(`OneYielded`): a slot in use that the search for RUNNABLE threads passes over is the one that has just
yielded, which is what `PriorityRespected` allows. `Kept` holds until a misuse: threads are numbered in
the order of their creation and a number not given out has stopped nowhere (`Numbered`), a slot in use
has its index as id and the context of an unfinished thread of its own, at the point where it stopped
(`Placed`), and the running thread is that of `current_tid` (`Running`). `OneSlotEach` alone is not
inductive: that a created thread is in no slot yet needs `Numbered`. What the searches
choose is stated once (`LowestFacts`, `HighestFacts`, `ClimbFacts`, `FollowingFacts`). Assumption:
`UlthreadAssumption`.

`UserProofs` also proves, of Console, for any processes and characters:

- `ConsoleNeverStuck`: `ConsoleSpec => []NeverStuck`;
- `ConsoleSleepers`: `ConsoleSpec => []SleepersJustified`;
- `ConsoleLinesKept`: `ConsoleSpec => LinesNeverChange`;
- `ConsoleBytesKept`: `ConsoleSpec => BytesNeverChange`.

Assumption (`CodeSizes`, part of the statements): the buffers have 128 and 32 bytes as in the code, and
the range of an index is a multiple of 128 larger than 128, as 2^32 is. The inductive invariant adds
types, the order of `r`, `w` and `e` on the circle of indices (`Dist(r, w) + Dist(w, e) = Dist(r, e)`)
and the bounds of the transmit ring. Each step of the specification is first shown to leave a ring
alone, take a byte, erase bytes or append one (`InputSteps`, `OutputSteps`); the conjuncts are proved
from these four, so no action is expanded twice. Instances with small buffers were enumerated with TLC
before the proofs; they are not runs of the project, the theorems say more.

`SharingProofs` also proves, of Fs, for any finite sets of processes, inodes and names, any blocks, any
calls and any number of them, and any paths without `..`:

- `NamesStayValid`: `PlainPaths /\ FsSpec => []NamesValid`;
- `BlocksHaveOneOwner`: `PlainPaths /\ FsSpec => []BlocksOwned`;
- `ReferencesCounted`: `PlainPaths /\ FsSpec => []RefsExact`;
- `InodesInUseStay`: `PlainPaths /\ FsSpec => []InUseKept`;
- `InodeLocksOrdered`: `PlainPaths /\ FsSpec => []NoLockCycle`;
- `FsNeverPanics`: `PlainPaths /\ FsSpec => []NoPanic`.

The hypothesis `PlainPaths` says that no element of a path but a first `/` is `/` or `..`. It holds of
the paths of run `fs`, and without it the theorems are false of the code: `..` in a removed directory
leads to a freed inode (known defects).

The inductive invariant is `FsInv`. No property is inductive alone; they need each other:

- `Shape` says which inodes and iput()s a call holds at each of its places. With it every step changes
  `ref` by as much as the pointers of its process (`RefsStep`), which is `RefsExact`. The pointers are
  counted one variable at a time (`Mine`), and those of the other processes stay.
- `HasOf`: an inode that a process has a pointer to is allocated. It stays so because iput() frees an
  inode only when its own pointer is the last (`LastAlone`, from `RefsExact`) and it has no names
  (`NoNames`, from the link counts).
- `FileLinks` and `DirLinks`: the link count of a file covers its names and the link() calls that have
  raised it and not yet entered a name; that of a directory covers its subdirectories and, while it is
  named, its own name, of which it has one. That is what unlink() and the failing end of link() rely
  on when they count down.
- `KnowOf` and `NewOf`: what a call still knows of a directory it has locked (the name it looked up is
  still free, or still the victim's), and that an inode ialloc() has just given out is its creator's
  alone. `OthersFrame` says once what a step of one process leaves to the others, and `OthersKeep`
  that their `Shape`, `HasOf`, `KnowOf` and `NewOf` stay, so that each action is proved for its own
  process only.
- `TreeInv`: every set of directories has one that names none of the set, so directories are a forest.
  `LockInv` says that a lock held between steps is of the parent in create() or unlink(). A circle of
  waiting calls would be a set of locked directories each of which names another of the set, or a
  creator that waits for its own new inode, which `NewOf` excludes.
- `CopyInv` and `NameInv`: a valid entry of the inode table is the inode on disk, and names are in
  directories and of allocated inodes.

TLC checked `FsInv` on the instance of run `fs` before the proof.

Only model-checked: liveness (`FaultServed`, `RoundRobinServes`, `KillTerminates`, `BeginOpReturns`,
`WaitReturns`, `KilledEnds`), which needs ENABLED; everything about UserMemory.
What UserMemory's calls compute page by page would take an induction over the pages, which the prover
cannot do. The `TypeOK` of modules whose runs do not list it is for the proofs.

## Known defects

`heap_kept` shows one: every turn of the eviction loop writes the first block of the page to the first
block of its group (P2 `kernel/pfault.c:79`), so three quarters of an evicted page are lost. The
others below were met while modelling; the properties are stated so that they hold beside them.

- P2 `kernel/proc.c:265`: `track_heap` uses the index in the whole tracker as offset from the old
  break, so after a second sbrk() some heap pages have no slot and cannot be faulted in.
- P2 `kernel/vm.c:196`: `uvmunmap` asks the CoW fields of the running process; a parent outside the
  group frees shared pages that are freed again later.
- P3 `user/ulthread.c:166`: round robin returns when the only unfinished thread has just yielded;
  `ulthread.c:73`, `122`: FCFS compares times nobody sets and follows slot order.
- P4 `kernel/trap-and-emulate.c:1025`: a second VM starts in the mode the first left; P4
  `kernel/proc.c:158`: `vmprocess` is not reset, so the next process in the slot is emulated; P4
  `kernel/trap-and-emulate.c:721`: every mret allocates a page table that is never freed; `707`: the source of a csrw passes through
  an int, so addresses above 2 GB are stored sign-extended; `788`: a guest whose pmpaddr0 and pmpaddr1
  reach beyond MAXVA panics the kernel with its next mret.
- `kernel/log.c:133`, `220`: begin_op() admits LOGSIZE blocks, log_write() panics at
  `log.size - 1`, one less; with the real sizes operations stay below both.
- `kernel/proc.c:598`: kill(0) marks an unused slot killed, so the next process there dies; `430`: on
  several CPUs a kill between the test of killed and the sleep is not noticed until the next wakeup;
  a killed init panics the kernel. `kernel/pipe.c:84`: likewise for pipes and for
  consoleread() on several CPUs, and a killed
  writer returns without waking readers of what it wrote. On one CPU the window is closed, because
  interrupts are off while a lock is held.
- `kernel/fs.c:672`: `..` of a directory that was removed while a process is in it still names the
  parent, which may have been removed and freed: a path through it panics with "ilock: no type". This
  is why the theorems about Fs assume `PlainPaths`. With one process, the paths `/a`, `/a/b` and `..`
  and six calls (mkdir both, chdir to the inner one, unlink both, open `..`) TLC reaches the panic in
  Fs. A file created in a removed directory gets a link count and no name that a path reaches.
- `kernel/fs.c:181`: a file that was unlinked while open and not closed before a crash stays allocated
  with link count 0 for ever; iinit() reclaims nothing.
- `kernel/exec.c:67`: a first segment of size 0 at address 0 makes uvmalloc() return 0 and exec() fail.
  `kernel/proc.c:266`: sbrk(-1) rounds to 0 and does nothing.
- P1 `bootloader/start.c:54`: the partial last block of the recovery kernel is not loaded; `204`: an
  image smaller than 4096 bytes would be written below its load address; `elf.c`:
  `find_kernel_load_addr` adds `ehsize` to `phoff`.

## Not modelled

printf and string routines: no state of their own. User programs and usertests: clients, a third of the repository's lines. Assembly: register save
and restore. The second and third copies of the base kernel: the same code; the modules stand for all
three. Within modelled parts: file contents, offsets and indirect blocks; the kernel's own page table;
TLB behaviour beyond the handler's `sfence_vma`; PMP registers and `sys_info` of the boot loader; an
on-demand process that is also in a CoW group; the alias of the last save-area block with the first
inode block, which only a fourth block written to the last group could reach; on-demand
paging before a process has made an exec() of its own: fork() copies `ondemand` while the slot keeps
the tracker of its last process (P2 `kernel/proc.c:388`; a parent with pages not yet loaded panics in
`uvmcopy`), and an exec() that fails has changed `ondemand` already (P2 `kernel/exec.c:53`), so the
process runs its old image under the rule of the new one; in HeapPaging every process is between two
successful exec()s. Of Disk: a request that the device
fails, for which the interrupt handler panics (`kernel/virtio_disk.c:316`). Of Fs: a full inode table
(`iget: no inodes`, `kernel/fs.c:267`; the table has an entry for every inode the runs use), and the
recycling of an entry, which clears `valid` (`273`), so that a later `ilock` reads the inode again; the
model keeps the copy and `InUseKept` and `CopyInv` show it equal to the disk; the failure of
`dirlink(dp)` in create() (`kernel/sysfile.c:282`), since a directory has one block; the locks that a
call releases just before its `iput`s are released with the step before. Of Proc: init itself calling
exit(1), and so panicking the kernel, when its fork() or exec() fails (`user/init.c`).
For these reasons the share of the implementation's lines that the map covers stays well below a third although every part
of the kernel with state of its own has a module.

## Plan

An induction over the pages of an address space, if a prover for it is at hand, for `PagesOwned` of
UserMemory; open files with several descriptors in Fs.
