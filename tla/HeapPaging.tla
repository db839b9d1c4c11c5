----------------------------- MODULE HeapPaging -----------------------------
(***************************************************************************)
(* On-demand paging of the heap in the Project-2 kernel: lazy sbrk()       *)
(* (growproc, track_heap), the page-fault handler with its eviction to and *)
(* retrieval from the page save area (PSA) on disk, and the part of exec() *)
(* that resets the tracker.                                                *)
(*                                                                         *)
(* Granularity.  The handler runs with interrupts off and the kernel is    *)
(* built for one CPU, so another process runs only where the handler       *)
(* sleeps: in bread()/bwrite() of the PSA blocks and while it reads the    *)
(* program file.  An action is the code between two such points.  The      *)
(* buffer of a PSA block stays locked from bread() to brelse(), so one     *)
(* iteration of a block loop is one step for everybody else.               *)
(*                                                                         *)
(* A process here is one whose program exec() classified as on-demand      *)
(* (p->ondemand), the only ones that reach this code, and which is not     *)
(* part of a copy-on-write group.  Addresses are page numbers: page 0 is   *)
(* the text segment, page 1 the stack guard, page 2 the stack, the heap    *)
(* starts at HeapBase.                                                     *)
(***************************************************************************)
EXTENDS Integers, FiniteSets

CONSTANTS
  Procs,        \* processes
  MaxHeap,      \* MAXHEAP: slots of a process' heap tracker
  MaxRes,       \* MAXRESHEAP: heap pages a process may have in memory
  BPP,          \* disk blocks per page (4 in the code)
  NGroups,      \* PSASIZE / BPP: aligned groups of blocks in the PSA
  PerTable,     \* pages one leaf page table maps (512 in the code)
  MaxPage,      \* bound: highest page number a program may use
  MaxTick,      \* bound: timer ticks
  MaxVer,       \* bound: stores to one page
  MaxExec,      \* bound: exec() calls
  SbrkPages     \* sbrk() arguments, in pages

HeapBase == 3

Slot  == 0 .. MaxHeap - 1
Page  == 0 .. MaxPage
Q     == 0 .. BPP - 1          \* the blocks of a page
Group == 0 .. NGroups - 1
None  == -1                    \* addr 0xFF..FF and startblock -1

ASSUME ConstAssumption ==
  /\ MaxHeap \in Nat \ {0}
  /\ MaxRes \in Nat \ {0}
  /\ BPP \in Nat \ {0}
  /\ NGroups \in Nat \ {0}
  /\ PerTable \in Nat /\ PerTable > HeapBase
  /\ MaxPage \in Nat /\ MaxPage >= HeapBase
  /\ MaxTick \in Nat
  /\ MaxVer \in Nat
  /\ MaxExec \in Nat
  /\ SbrkPages \subseteq Int

VARIABLES
  pc,        \* where process p is: "user" or asleep inside the handler
  sz,        \* p->sz, in pages
  seg,       \* the program segment has been loaded
  addr,      \* p->heap_tracker[i].addr
  loaded,    \* p->heap_tracker[i].loaded
  start,     \* p->heap_tracker[i].startblock, as a group
  time,      \* p->heap_tracker[i].last_load_time
  resident,  \* p->resident_heap_pages
  mapped,    \* heap pages with a valid PTE
  leaf,      \* leaf page tables that exist
  mem,       \* contents of the mapped heap pages
  h,         \* locals of the running handler
  psa,       \* psa_tracker
  disk,      \* contents of the PSA blocks
  ticks,     \* ticks
  execs,     \* exec() calls so far
  panic,     \* "none", or why the kernel stopped
  ver,       \* history: how often the program has stored to a heap page
  clash      \* history: an eviction chose a group that was not its own

procVars == <<sz, seg, addr, loaded, start, time, resident, mapped, leaf, mem>>
vars == <<pc, sz, seg, addr, loaded, start, time, resident, mapped, leaf, mem,
          h, psa, disk, ticks, execs, panic, ver, clash>>

-----------------------------------------------------------------------------
(* What a block holds.  A store gives the whole page a fresh value, told   *)
(* apart by process, page, block of the page and number of the store.      *)
Zero == <<"zero">>
Data(p, a, q, v) == IF v = 0 THEN Zero ELSE <<p, a, q, v>>
Content == {Zero} \cup (Procs \X Page \X Q \X (1 .. MaxVer))
PageData == [Q -> Content]

ZeroPage == [q \in Q |-> Zero]

Idle == [slot |-> 0, from |-> FALSE, victim |-> 0, grp |-> 0, i |-> 0,
         buf |-> ZeroPage]

LoadedSlots(p) == {s \in Slot : loaded[p][s]}

(* page_fault_handler's search of the tracker.                             *)
Tracked(p, a) == \E s \in Slot : addr[p][s] = a
SlotOf(p, a) == CHOOSE s \in Slot :
                   /\ addr[p][s] = a
                   /\ \A t \in Slot : addr[p][t] = a => s <= t

(* evict_page_to_disk: the first group with no block in use, 0 when the   *)
(* search finds none.                                                      *)
FreeGroup(g) == \A q \in Q : ~psa[g][q]
PickGroup == IF \E g \in Group : FreeGroup(g)
             THEN CHOOSE g \in Group :
                    FreeGroup(g) /\ \A f \in Group : FreeGroup(f) => g <= f
             ELSE 0

(* evict_page_to_disk: smallest load time, the lowest slot among equals,   *)
(* slot 0 when nothing is loaded.                                          *)
Victim(p) == IF LoadedSlots(p) = {} THEN 0
             ELSE CHOOSE s \in LoadedSlots(p) :
                    \A t \in LoadedSlots(p) :
                       \/ time[p][s] < time[p][t]
                       \/ time[p][s] = time[p][t] /\ s <= t

(* page_fault_handler: a page with a startblock has been swapped out.      *)
FromDiskNever(p, s) == FALSE    \* slip: the page is never read back
FromDisk(p, s) == start[p][s] # None

(* The block loops' i++.                                                   *)
SameBlock(i) == i               \* slip: the increment is missing
EveryOtherBlock(i) == i + 2     \* slip: incremented in the body as well
NextBlock(i) == i + 1

(* psa_tracker[blockno+i] = true.                                          *)
MarkNothing(g, i) == psa        \* slip: the group is not marked in use
MarkUsed(g, i) == [psa EXCEPT ![g][i] = TRUE]

(* The value a page of p should hold in block q.                           *)
Wanted(p, a, q) == Data(p, a, q, ver[p][a])

-----------------------------------------------------------------------------
NoSlot == [s \in Slot |-> None]

Init ==
  /\ pc = [p \in Procs |-> "user"]
  /\ sz = [p \in Procs |-> HeapBase]
  /\ seg = [p \in Procs |-> FALSE]
  /\ addr = [p \in Procs |-> NoSlot]
  /\ loaded = [p \in Procs |-> [s \in Slot |-> FALSE]]
  /\ start = [p \in Procs |-> NoSlot]
  /\ time = [p \in Procs |-> NoSlot]
  /\ resident = [p \in Procs |-> 0]
  /\ mapped = [p \in Procs |-> {}]
  /\ leaf = [p \in Procs |-> {0}]
  /\ mem = [p \in Procs |-> [a \in Page |-> ZeroPage]]
  /\ h = [p \in Procs |-> Idle]
  /\ psa = [g \in Group |-> [q \in Q |-> FALSE]]
  /\ disk = [g \in Group |-> ZeroPage]      \* as mkfs wrote it
  /\ ticks = 0
  /\ execs = 0
  /\ panic = "none"
  /\ ver = [p \in Procs |-> [a \in Page |-> 0]]
  /\ clash = FALSE

Running == panic = "none"

(* panic() spins for ever: nothing but the reason matters after it.        *)
Panic(why) ==
  /\ panic' = why
  /\ UNCHANGED <<pc, procVars, h, psa, disk, ticks, execs, ver, clash>>

-----------------------------------------------------------------------------
(* growproc() of an on-demand process and track_heap().  The address of a  *)
(* new slot is the old break plus the index of the slot in the tracker.    *)
(* A request for no page, or for fewer, never brings npages to 0 and ends  *)
(* in track_heap's panic.                                                  *)
FreeSlots(p) == {s \in Slot : addr[p][s] = None}
TakenBy(p, n) == {s \in FreeSlots(p) :
                    Cardinality({t \in FreeSlots(p) : t < s}) < n}

SlotAddr(p, s) == sz[p] + s

Sbrk(p, n) ==
  /\ Running /\ pc[p] = "user"
  /\ sz[p] + n <= MaxPage + 1
  /\ IF n <= 0 \/ Cardinality(FreeSlots(p)) < n
     THEN Panic("track_heap")
     ELSE LET new == TakenBy(p, n) IN
          /\ addr' = [addr EXCEPT ![p] =
                [s \in Slot |-> IF s \in new THEN SlotAddr(p, s) ELSE @[s]]]
          /\ loaded' = [loaded EXCEPT ![p] =
                [s \in Slot |-> IF s \in new THEN FALSE ELSE @[s]]]
          /\ start' = [start EXCEPT ![p] =
                [s \in Slot |-> IF s \in new THEN None ELSE @[s]]]
          /\ sz' = [sz EXCEPT ![p] = @ + n]
          /\ UNCHANGED <<pc, seg, time, resident, mapped, leaf, mem, h, psa,
                         disk, ticks, execs, panic, ver, clash>>

(* A store to a heap page that is in memory: no kernel involvement.        *)
Store(p, a) ==
  /\ Running /\ pc[p] = "user"
  /\ a \in mapped[p] /\ ver[p][a] < MaxVer
  /\ ver' = [ver EXCEPT ![p][a] = @ + 1]
  /\ mem' = [mem EXCEPT ![p][a] =
                 [q \in Q |-> Data(p, a, q, ver[p][a] + 1)]]
  /\ UNCHANGED <<pc, sz, seg, addr, loaded, start, time, resident, mapped,
                 leaf, h, psa, disk, ticks, execs, panic, clash>>

(* clockintr(): ++ticks.                                                   *)
Tick ==
  /\ Running /\ ticks < MaxTick
  /\ ticks' = ticks + 1
  /\ UNCHANGED <<pc, procVars, h, psa, disk, execs, panic, ver, clash>>

-----------------------------------------------------------------------------
(* The fault handler.                                                      *)

(* What eviction may change of p's tracker and address space: as it is,    *)
(* and after the victim was unmapped and its slot updated.                 *)
Space(p) == [ld |-> loaded[p], st |-> start[p], res |-> resident[p],
             mp |-> mapped[p], m |-> mem[p]]

StillLoaded(p) ==              \* slip: loaded is not cleared
  LET v == h[p].victim IN
  [ld |-> loaded[p], st |-> [start[p] EXCEPT ![v] = h[p].grp],
   res |-> resident[p] - 1, mp |-> mapped[p] \ {addr[p][v]},
   m |-> [mem[p] EXCEPT ![addr[p][v]] = ZeroPage]]
SpaceAfterEvict(p) ==
  LET v == h[p].victim IN
  [ld |-> [loaded[p] EXCEPT ![v] = FALSE],
   st |-> [start[p] EXCEPT ![v] = h[p].grp],
   res |-> resident[p] - 1,
   mp |-> mapped[p] \ {addr[p][v]},
   m |-> [mem[p] EXCEPT ![addr[p][v]] = ZeroPage]]

(* The counter is incremented when the handler ends, after retrieval.      *)
CountedTwice(res, from) == res + 1   \* slip: counted before retrieval too
Counted(res, from) == IF from THEN res ELSE res + 1

(* From heap_handle's uvmalloc to the next sleep or to the end, for slot s *)
(* of p in address space k; `from' says the page must be read back.        *)
MapPage(p, s, from, k) ==
  LET a == addr[p][s] IN
  /\ loaded' = [loaded EXCEPT ![p] = [k.ld EXCEPT ![s] = TRUE]]
  /\ start' = [start EXCEPT ![p] = k.st]
  /\ time' = [time EXCEPT ![p][s] = ticks]
  /\ mapped' = [mapped EXCEPT ![p] = k.mp \cup {a}]
  /\ leaf' = [leaf EXCEPT ![p] = @ \cup {a \div PerTable}]
  /\ mem' = [mem EXCEPT ![p] = [k.m EXCEPT ![a] = ZeroPage]]
  /\ resident' = [resident EXCEPT ![p] = Counted(k.res, from)]
  /\ pc' = [pc EXCEPT ![p] = IF from THEN "retrieve" ELSE "user"]
  /\ h' = [h EXCEPT ![p] = IF from THEN [Idle EXCEPT !.slot = s, !.from = TRUE]
                           ELSE Idle]

(* A heap page that is not in memory is touched: with room for it the page *)
(* is mapped at once, otherwise eviction begins: group and victim are      *)
(* chosen and the victim's contents copied before the first sleep.         *)
HeapFault(p, a) ==
  /\ Running /\ pc[p] = "user"
  /\ a \notin mapped[p] /\ Tracked(p, a)
  /\ LET s == SlotOf(p, a)
         from == FromDisk(p, s)
     IN \/ /\ resident[p] # MaxRes
           /\ MapPage(p, s, from, Space(p))
           /\ UNCHANGED <<sz, seg, addr, psa, disk, ticks, execs, panic, ver, clash>>
        \/ /\ resident[p] = MaxRes
           /\ pc' = [pc EXCEPT ![p] = "evict"]
           /\ h' = [h EXCEPT ![p] =
                 [slot |-> s, from |-> from, victim |-> Victim(p),
                  grp |-> PickGroup, i |-> 0,
                  buf |-> mem[p][addr[p][Victim(p)]]]]
           /\ clash' = \/ clash
                       \/ ~FreeGroup(PickGroup)
                       \/ \E r \in Procs \ {p} :
                             pc[r] = "evict" /\ h[r].grp = PickGroup
           /\ UNCHANGED <<procVars, psa, disk, ticks, execs, panic, ver>>

(* One iteration of evict_page_to_disk's block loop.  Every iteration      *)
(* writes the first block's worth of the page to the first block of the    *)
(* group; the i-th block is marked in use.  The last iteration continues   *)
(* to the unmapping of the victim and the mapping of the faulting page.    *)
EvictBlock(g, buf) == [disk EXCEPT ![g][0] = buf[0]]

EvictStep(p) ==
  /\ Running /\ pc[p] = "evict"
  /\ LET g == h[p].grp
         i == h[p].i
     IN /\ disk' = EvictBlock(g, h[p].buf)
        /\ psa' = MarkUsed(g, i)
        /\ \/ /\ i < BPP - 1
              /\ h' = [h EXCEPT ![p].i = NextBlock(@)]
              /\ UNCHANGED <<pc, procVars>>
           \/ /\ i = BPP - 1
              /\ MapPage(p, h[p].slot, h[p].from, SpaceAfterEvict(p))
              /\ UNCHANGED <<sz, seg, addr>>
  /\ UNCHANGED <<ticks, execs, panic, ver, clash>>

(* One iteration of retrieve_page_from_disk's block loop; the last one     *)
(* continues to copyout() and the end of the handler.                      *)
RetrieveStep(p) ==
  /\ Running /\ pc[p] = "retrieve"
  /\ LET s == h[p].slot
         i == h[p].i
         g == start[p][s]
         buf == [h[p].buf EXCEPT ![i] = disk[g][i]]
     IN /\ psa' = [psa EXCEPT ![g][i] = FALSE]
        /\ \/ /\ i < BPP - 1
              /\ h' = [h EXCEPT ![p].i = NextBlock(@), ![p].buf = buf]
              /\ UNCHANGED <<pc, mem, resident>>
           \/ /\ i = BPP - 1
              /\ mem' = [mem EXCEPT ![p][addr[p][s]] = buf]
              /\ resident' = [resident EXCEPT ![p] = @ + 1]
              /\ pc' = [pc EXCEPT ![p] = "user"]
              /\ h' = [h EXCEPT ![p] = Idle]
  /\ UNCHANGED <<sz, seg, addr, loaded, start, time, mapped, leaf, disk, ticks,
                 execs, panic, ver, clash>>

(* kalloc() fails: eviction and retrieval copy through the null pointer    *)
(* they do not test, the mapping of the page panics by itself.             *)
HeapFaultNoMem(p, a) ==
  /\ Running /\ pc[p] = "user"
  /\ a \notin mapped[p] /\ Tracked(p, a)
  /\ Panic("nomem")

EvictNoMem(p) ==
  /\ Running /\ pc[p] = "evict" /\ h[p].i = BPP - 1
  /\ Panic("nomem")

(* A page outside the tracker and the stack is touched, or the text page   *)
(* is written: the handler looks for it in the program file.  (The index   *)
(* the tracker search leaves unset only feeds a flag this path ignores.)   *)
(* The path sleeps in the file system but shares no paging state with      *)
(* anyone, so it is one step.  A page of no segment, and a name namei() no *)
(* longer finds, leave everything as it was; a segment is mapped whole,    *)
(* which panics if it already is; a file that is no longer a valid program *)
(* takes the `bad' exit, which frees the page table the process returns to.*)
InSegment(a) == a = 0

SegFault(p, a, store, file) ==
  /\ Running /\ pc[p] = "user"
  /\ a \notin mapped[p] /\ ~Tracked(p, a)
  /\ a # HeapBase - 1
  /\ InSegment(a) => (~seg[p] \/ store)
  /\ \/ /\ file = "ok" /\ InSegment(a) /\ seg[p]
        /\ Panic("remap")
     \/ /\ file = "bad"
        /\ Panic("freed page table")
     \/ /\ file = "missing" \/ (file = "ok" /\ ~(InSegment(a) /\ seg[p]))
        /\ seg' = [seg EXCEPT ![p] = @ \/ (file = "ok" /\ InSegment(a))]
        /\ UNCHANGED <<pc, sz, addr, loaded, start, time, resident, mapped,
                       leaf, mem, h, psa, disk, ticks, execs, panic, ver, clash>>

-----------------------------------------------------------------------------
(* exec() of an on-demand program: the old address space is freed, then    *)
(* the tracker cleared.  Freeing walks every page below sz and panics if a *)
(* leaf page table is missing; a page left above sz is a leaf PTE          *)
(* freewalk() panics on.  Nothing frees the PSA blocks of the old pages.   *)
(* exit() and wait() free an address space the same way, and the next use  *)
(* of the proc slot begins with this exec().                               *)
Exec(p) ==
  /\ Running /\ pc[p] = "user" /\ execs < MaxExec
  /\ \/ /\ \E a \in 0 .. sz[p] - 1 : a \div PerTable \notin leaf[p]
        /\ Panic("uvmunmap: walk")
     \/ /\ \A a \in 0 .. sz[p] - 1 : a \div PerTable \in leaf[p]
        /\ \E a \in mapped[p] : a >= sz[p]
        /\ Panic("freewalk: leaf")
     \/ /\ \A a \in 0 .. sz[p] - 1 : a \div PerTable \in leaf[p]
        /\ \A a \in mapped[p] : a < sz[p]
        /\ sz' = [sz EXCEPT ![p] = HeapBase]
        /\ seg' = [seg EXCEPT ![p] = FALSE]
        /\ addr' = [addr EXCEPT ![p] = NoSlot]
        /\ loaded' = [loaded EXCEPT ![p] = [s \in Slot |-> FALSE]]
        /\ start' = [start EXCEPT ![p] = NoSlot]
        /\ time' = [time EXCEPT ![p] = NoSlot]
        /\ resident' = [resident EXCEPT ![p] = 0]
        /\ mapped' = [mapped EXCEPT ![p] = {}]
        /\ leaf' = [leaf EXCEPT ![p] = {0}]
        /\ mem' = [mem EXCEPT ![p] = [a \in Page |-> ZeroPage]]
        /\ ver' = [ver EXCEPT ![p] = [a \in Page |-> 0]]
        /\ execs' = execs + 1
        /\ UNCHANGED <<pc, h, psa, disk, ticks, panic, clash>>

(* The kernel has panicked.                                                *)
Halted == panic # "none" /\ UNCHANGED vars

Next ==
  \/ \E p \in Procs :
       \/ \E n \in SbrkPages : Sbrk(p, n)
       \/ \E a \in Page : \/ Store(p, a)
                          \/ HeapFault(p, a)
                          \/ HeapFaultNoMem(p, a)
                          \/ \E st \in BOOLEAN, f \in {"ok", "missing", "bad"} :
                               SegFault(p, a, st, f)
       \/ EvictStep(p) \/ EvictNoMem(p) \/ RetrieveStep(p)
       \/ Exec(p)
  \/ Tick
  \/ Halted

(* The disk finishes the transfers it is given and the round-robin         *)
(* scheduler runs every process that is ready: a process inside the        *)
(* handler keeps moving.  Programs are free to stop touching memory.       *)
Fairness == \A p \in Procs : WF_vars(EvictStep(p)) /\ WF_vars(RetrieveStep(p))

Spec == Init /\ [][Next]_vars /\ Fairness
-----------------------------------------------------------------------------
(* Properties.                                                             *)

Panics == {"none", "track_heap", "nomem", "remap", "freed page table",
           "uvmunmap: walk", "freewalk: leaf"}

Handler == [slot : Slot, from : BOOLEAN, victim : Slot, grp : Group, i : Q,
            buf : PageData]

(* Every variable of the paging code has its type: in particular the       *)
(* tracker and save-area indices the handler computes stay in range.       *)
TypeOK ==
  /\ pc \in [Procs -> {"user", "evict", "retrieve"}]
  /\ sz \in [Procs -> HeapBase .. MaxPage + 1]
  /\ seg \in [Procs -> BOOLEAN]
  /\ addr \in [Procs -> [Slot -> Int]]
  /\ loaded \in [Procs -> [Slot -> BOOLEAN]]
  /\ start \in [Procs -> [Slot -> Group \cup {None}]]
  /\ time \in [Procs -> [Slot -> Nat \cup {None}]]
  /\ resident \in [Procs -> Int]
  /\ mapped \in [Procs -> SUBSET Page]
  /\ leaf \in [Procs -> SUBSET Int]
  /\ mem \in [Procs -> [Page -> PageData]]
  /\ h \in [Procs -> Handler]
  /\ psa \in [Group -> [Q -> BOOLEAN]]
  /\ disk \in [Group -> [Q -> Content]]
  /\ ticks \in 0 .. MaxTick
  /\ execs \in 0 .. MaxExec
  /\ panic \in Panics
  /\ ver \in [Procs -> [Page -> 0 .. MaxVer]]
  /\ clash \in BOOLEAN

(* resident_heap_pages, incremented and decremented in three functions     *)
(* with sleeps between them, is the number of loaded heap pages (the page  *)
(* being retrieved is counted last), and a process never has more than     *)
(* MAXRESHEAP of them in memory.                                           *)
ResidentOK(p) ==
  /\ Cardinality(LoadedSlots(p)) <= MaxRes
  /\ Cardinality(LoadedSlots(p))
       = resident[p] + (IF pc[p] = "retrieve" THEN 1 ELSE 0)
ResidentAccounting == \A p \in Procs : ResidentOK(p)

(* The tracker and the page table agree at every point where another       *)
(* process can run: a heap page has a PTE exactly when its slot says       *)
(* loaded.  So copyin() of a victim and copyout() of a retrieved page find *)
(* their page, and mapping a faulting page never meets a valid PTE.        *)
MappedOK(p) ==
  /\ mapped[p] = {addr[p][s] : s \in LoadedSlots(p)}
  /\ pc[p] = "evict" => loaded[p][h[p].victim] /\ ~loaded[p][h[p].slot]
  /\ pc[p] = "retrieve" => loaded[p][h[p].slot]
MappedIffLoaded == \A p \in Procs : MappedOK(p)

(* Slot s of p has its page in group g: swapped out, or not read back yet. *)
Holds(p, s, g) ==
  /\ addr[p][s] # None /\ start[p][s] = g
  /\ ~loaded[p][s] \/ (pc[p] = "retrieve" /\ h[p].slot = s)

InFlight(p, g) == pc[p] = "evict" /\ h[p].grp = g

(* While no eviction has run into a full save area or into another         *)
(* eviction that had chosen the same blocks and not yet marked them, a     *)
(* group of blocks belongs to at most one page, is not handed out again,   *)
(* and stays marked in psa_tracker until its page is read back.            *)
SwapExclusive ==
  ~clash =>
    \A p \in Procs, g \in Group :
      /\ \A s \in Slot : Holds(p, s, g) =>
           /\ \A r \in Procs, t \in Slot : Holds(r, t, g) => r = p /\ t = s
           /\ \A r \in Procs : ~InFlight(r, g)
           /\ ~FreeGroup(g)
      /\ InFlight(p, g) => \A r \in Procs : InFlight(r, g) => r = p

(* Under the same condition the first block of a heap page is what the     *)
(* program last stored there, however often the page went to disk and      *)
(* back: evict_page_to_disk and retrieve_page_from_disk agree on it.       *)
FirstBlockKept ==
  ~clash =>
    \A p \in Procs : pc[p] = "user" =>
      \A a \in mapped[p] : mem[p][a][0] = Wanted(p, a, 0)

(* A process that entered the handler for a heap page gets back to its     *)
(* program, unless the kernel panics: eviction and retrieval end.          *)
FaultServed ==
  \A p \in Procs :
    pc[p] \in {"evict", "retrieve"} ~> (pc[p] = "user" \/ panic # "none")

-----------------------------------------------------------------------------
(* Strengthenings that make the invariants inductive (HeapPagingProofs).   *)

(* The used slots are a prefix of the tracker, with increasing addresses.  *)
AddrOK(p) ==
  /\ \A s \in Slot :
       /\ addr[p][s] # None => /\ HeapBase <= addr[p][s]
                               /\ addr[p][s] < sz[p] + s
       /\ loaded[p][s] => addr[p][s] # None
  /\ \A s, t \in Slot : s < t /\ addr[p][t] # None =>
       addr[p][s] # None /\ addr[p][s] < addr[p][t]
AddrInv == \A p \in Procs : AddrOK(p)

(* What the locals of a sleeping handler say of the tracker.               *)
HandlerOK(p) ==
  /\ pc[p] = "evict" =>
       /\ addr[p][h[p].slot] \in Page
       /\ h[p].from = (start[p][h[p].slot] # None)
       /\ resident[p] = MaxRes
  /\ pc[p] = "retrieve" => start[p][h[p].slot] # None
HandlerInv == \A p \in Procs : HandlerOK(p)

(* The blocks of a held group are marked until they are read back, those   *)
(* of a group being filled as far as the filling has come.                 *)
MarkInv ==
  ~clash =>
    \A p \in Procs, g \in Group :
      /\ \A s \in Slot : Holds(p, s, g) =>
           \A q \in Q : (pc[p] = "retrieve" /\ h[p].slot = s => q >= h[p].i)
                         => psa[g][q]
      /\ InFlight(p, g) => \A q \in Q : q < h[p].i => psa[g][q]

SwapPairs ==
  ~clash =>
    \A p, r \in Procs, g \in Group :
      /\ \A s, t \in Slot : Holds(p, s, g) /\ Holds(r, t, g) => r = p /\ t = s
      /\ \A s \in Slot : Holds(p, s, g) => ~InFlight(r, g)
      /\ InFlight(p, g) /\ InFlight(r, g) => r = p

(* Where the first block of every page is, in memory, in the handler's     *)
(* buffer or on disk; a page that is nowhere was never written.            *)
BlocksOK(p) ==
  /\ \A a \in mapped[p] :
       ~(pc[p] = "retrieve" /\ a = addr[p][h[p].slot]) =>
         mem[p][a][0] = Wanted(p, a, 0)
  /\ \A s \in Slot, g \in Group :
       Holds(p, s, g) /\ ~(pc[p] = "retrieve" /\ h[p].slot = s /\ h[p].i > 0)
         => disk[g][0] = Wanted(p, addr[p][s], 0)
  /\ pc[p] = "retrieve" /\ h[p].i > 0 =>
       h[p].buf[0] = Wanted(p, addr[p][h[p].slot], 0)
  /\ pc[p] = "evict" =>
       /\ h[p].buf[0] = Wanted(p, addr[p][h[p].victim], 0)
       /\ h[p].i > 0 => disk[h[p].grp][0] = h[p].buf[0]
  /\ \A a \in Page :
       (\A s \in Slot : addr[p][s] = a => ~loaded[p][s] /\ start[p][s] = None)
         => ver[p][a] = 0
BlockInv == ~clash => \A p \in Procs : BlocksOK(p)

-----------------------------------------------------------------------------
(* What the repository says and the code does not do.                      *)

(* A page that was swapped out and read back holds what the program stored *)
(* there, all of it, which is what user/test7-pswap2.c asserts of the      *)
(* first page it wrote.                                                    *)
PageKept ==
  ~clash =>
    \A p \in Procs : pc[p] = "user" =>
      \A a \in mapped[p], q \in Q : mem[p][a][q] = Wanted(p, a, q)
=============================================================================
