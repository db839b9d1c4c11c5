-------------------------------- MODULE Cow --------------------------------
(***************************************************************************)
(* Copy-on-write fork() of the Project-2 kernel: the table of CoW groups   *)
(* (cow.c), fork() with and without sharing, the store fault that makes a  *)
(* private copy, and everything that frees user pages under the group's    *)
(* rules: wait() of a zombie, exec() and sbrk() of a negative size.        *)
(*                                                                         *)
(* One CPU.  fork() and the freeing in wait() hold a process lock, and the *)
(* fault handler runs with interrupts off, so each is one action.  exec()  *)
(* holds no lock: it resets the CoW table, sleeps in the file system,      *)
(* commits, and may be preempted between any two pages it frees; it is a   *)
(* sequence of actions.                                                    *)
(*                                                                         *)
(* Pages are user pages (page tables, trapframes and kernel buffers come   *)
(* from the same allocator and are left out); kalloc() returns any free    *)
(* one.  All pages of a process are data or heap pages, mapped writable at *)
(* first: the programs here are not on-demand.  A page holds one value.    *)
(***************************************************************************)
EXTENDS Integers, FiniteSets

CONSTANTS
  NPROC,        \* slots of the process table and of the CoW table
  Pages,        \* physical pages for user memory
  MaxVA,        \* bound: pages of an address space
  ImgSize,      \* pages of a program image
  SHMEM_MAX,    \* pages a CoW group can list
  MaxPid,       \* bound: processes ever created
  Values        \* what programs write

Procs == 1 .. NPROC
Gslot == 1 .. NPROC
VA    == 0 .. MaxVA - 1
init  == 1                      \* init and the shell: they only fork and wait
NoPage == "nopage"
Junk   == -1                    \* what kfree() leaves in a page
NoGroup == -1

ASSUME CowAssumption ==
  /\ NPROC \in Nat /\ NPROC > 1
  /\ MaxVA \in Nat /\ ImgSize \in 1 .. MaxVA
  /\ SHMEM_MAX \in Nat /\ MaxPid \in Nat \ {0}
  /\ NoPage \notin Pages /\ IsFiniteSet(Pages) /\ Cardinality(Pages) >= ImgSize
  /\ Values \subseteq Nat

VARIABLES
  ps,           \* p->state: "UNUSED", "ALIVE", "ZOMBIE"
  at,           \* where a live process is: "user", "exec", "free"
  pid, parent,
  sz,           \* p->sz, in pages
  pt,           \* p->pagetable
  old,          \* the page table exec() is freeing
  cow_enabled, cow_group,
  grp,          \* cow_group[]: group, count and listed pages of every slot
  free,         \* kmem.freelist
  content,      \* what a page holds
  nextpid,
  panic,
  want,         \* history: what p last wrote, or inherited, at an address
  bad,          \* history: a page was freed while in use, or when already free
  through       \* history: the kernel wrote to a page two processes map

procVars == <<ps, at, pid, parent, sz, pt, old, cow_enabled, cow_group>>
vars == <<ps, at, pid, parent, sz, pt, old, cow_enabled, cow_group, grp, free,
          content, nextpid, panic, want, bad, through>>

Unmapped == [pa |-> NoPage, w |-> FALSE]
NoTable  == [a \in VA |-> Unmapped]
PagesOf(t) == {t[a].pa : a \in VA} \ {NoPage}

(* The places where page g is mapped: <<p, a>> in p's page table, and      *)
(* <<p, MaxVA + a>> in the one p's exec() has still to free.               *)
Places(g) == {x \in Procs \X VA : pt[x[1]][x[2]].pa = g}
             \cup {x \in Procs \X (MaxVA .. 2 * MaxVA - 1) :
                      old[x[1]][x[2] - MaxVA].pa = g}
-----------------------------------------------------------------------------
(* The CoW table.                                                          *)

(* get_cow_group(): the first slot of that number, 0 when there is none.   *)
Lowest(S) == IF S = {} THEN 0 ELSE CHOOSE i \in S : \A j \in S : i <= j
get_cow_group(t, g) ==
  IF g = NoGroup THEN 0 ELSE Lowest({i \in Gslot : t[i].group = g})

(* cow_group_init(): the first unused slot, whether or not the group has   *)
(* one already; with none left nothing happens.                            *)
cow_group_init(t, g) ==
  LET i == Lowest({j \in Gslot : t[j].group = NoGroup}) IN
  IF i = 0 THEN t ELSE [t EXCEPT ![i].group = g]

EmptyTable == [i \in Gslot |-> [group |-> NoGroup, count |-> 0, shmem |-> {}]]

(* add_shmem() for each page of a table in turn.  The list is followed in  *)
(* memory by the count, so the page after SHMEM_MAX overwrites it with the *)
(* low half of a physical address, which is a negative int.                *)
Clobbered == -1000
AddAll(e, t) ==
  LET New(b) == {t[a].pa : a \in 0 .. b} \ (e.shmem \cup {NoPage})
      room == SHMEM_MAX - Cardinality(e.shmem)
      fit == {b \in VA : Cardinality(New(b)) <= room}
  IN [e EXCEPT !.shmem = @ \cup UNION {New(b) : b \in fit},
               !.count = IF fit = VA THEN @ ELSE Clobbered]

(* uvmunmap() with do_free, run by process c: with CoW enabled it reads    *)
(* c's group, through a null pointer if there is none, and spares listed   *)
(* pages while the group counts more than one process.                     *)
NoSuchGroup(c) == cow_enabled[c] /\ get_cow_group(grp, cow_group[c]) = 0
Spared(c, g) ==
  /\ cow_enabled[c]
  /\ LET e == grp[get_cow_group(grp, cow_group[c])] IN
     e.count > 1 /\ g \in e.shmem

(* kfree() of a set of pages; `gone' are the places the step unmaps.       *)
Kfree(S, gone) ==
  /\ free' = free \cup S
  /\ content' = [g \in Pages |-> IF g \in S THEN Junk ELSE content[g]]
  /\ bad' = (bad \/ S \cap free # {} \/ \E g \in S : ~(Places(g) \subseteq gone))

Running == panic = "none"
Panic(why) ==
  /\ panic' = why
  /\ UNCHANGED <<procVars, grp, free, content, nextpid, want, bad, through>>

User(p) == Running /\ ps[p] = "ALIVE" /\ at[p] = "user"

-----------------------------------------------------------------------------
Init ==
  \E img \in [0 .. ImgSize - 1 -> Pages] :
  /\ \A a, b \in DOMAIN img : img[a] = img[b] => a = b
  /\ ps = [p \in Procs |-> IF p = init THEN "ALIVE" ELSE "UNUSED"]
  /\ at = [p \in Procs |-> "user"]
  /\ pid = [p \in Procs |-> IF p = init THEN 1 ELSE 0]
  /\ parent = [p \in Procs |-> 0]
  /\ sz = [p \in Procs |-> IF p = init THEN ImgSize ELSE 0]
  /\ pt = [p \in Procs |-> [a \in VA |-> IF p = init /\ a < ImgSize
                                         THEN [pa |-> img[a], w |-> TRUE]
                                         ELSE Unmapped]]
  /\ old = [p \in Procs |-> NoTable]
  /\ cow_enabled = [p \in Procs |-> FALSE]
  /\ cow_group = [p \in Procs |-> 0]
  /\ grp = EmptyTable
  /\ free = Pages \ {img[a] : a \in DOMAIN img}
  /\ content = [g \in Pages |-> IF g \in free THEN Junk ELSE 0]
  /\ nextpid = 2
  /\ panic = "none"
  /\ want = [p \in Procs |-> [a \in VA |-> 0]]
  /\ bad = FALSE
  /\ through = FALSE

-----------------------------------------------------------------------------
(* A program stores through a writable mapping.                            *)
Store(p, a, v) ==
  /\ User(p) /\ p # init /\ pt[p][a].w
  /\ content' = [content EXCEPT ![pt[p][a].pa] = v]
  /\ want' = [want EXCEPT ![p][a] = v]
  /\ UNCHANGED <<procVars, grp, free, nextpid, panic, bad, through>>

(* copyout(): the kernel stores for the program (the bytes of a read(), a  *)
(* child's exit status) through the physical address; PTE_W is not looked  *)
(* at.                                                                     *)
CopyOut(p, a, v) ==
  /\ User(p) /\ p # init /\ pt[p][a].pa # NoPage
  /\ content' = [content EXCEPT ![pt[p][a].pa] = v]
  /\ want' = [want EXCEPT ![p][a] = v]
  /\ through' = (through \/ Places(pt[p][a].pa) # {<<p, a>>})
  /\ UNCHANGED <<procVars, grp, free, nextpid, panic, bad>>

(* A store to a read-only page of a CoW process faults: copy_on_write()    *)
(* gives it a copy.  (Without cow_enabled the handler finds the address in *)
(* no segment and returns to the same store: nothing changes.)             *)
NotCopied(m, g) == Junk          \* slip: the new page is not filled
Copied(m, g) == content[g]

copy_on_write(p, a) ==
  /\ User(p) /\ cow_enabled[p]
  /\ pt[p][a].pa # NoPage /\ ~pt[p][a].w
  /\ \/ /\ free = {} /\ Panic("copy_on_write: no page")
     \/ \E m \in free :
          /\ free' = free \ {m}
          /\ content' = [content EXCEPT ![m] = Copied(m, pt[p][a].pa)]
          /\ pt' = [pt EXCEPT ![p][a] = [pa |-> m, w |-> TRUE]]
          /\ UNCHANGED <<ps, at, pid, parent, sz, old, cow_enabled, cow_group,
                         grp, nextpid, panic, want, bad, through>>

-----------------------------------------------------------------------------
(* fork().  allocproc() takes the first unused slot.                       *)
ChildSlot(q) ==
  ps[q] = "UNUSED" /\ \A r \in Procs : ps[r] = "UNUSED" => q <= r

Born(p, q, table) ==
  /\ ps' = [ps EXCEPT ![q] = "ALIVE"]
  /\ at' = [at EXCEPT ![q] = "user"]
  /\ pid' = [pid EXCEPT ![q] = nextpid]
  /\ parent' = [parent EXCEPT ![q] = p]
  /\ sz' = [sz EXCEPT ![q] = sz[p]]
  /\ pt' = table
  /\ want' = [want EXCEPT ![q] = want[p]]
  /\ nextpid' = nextpid + 1
  /\ UNCHANGED old

(* fork(1): the group takes the parent's pid; every page becomes read-only *)
(* in both page tables and is listed; the group counts the parent with its *)
(* first child only.                                                       *)
LeftWritable(t) == t            \* slip: PTE_W is kept in the parent
ReadOnly(t) == [a \in VA |-> [t[a] EXCEPT !.w = FALSE]]

ForkCow(p, q) ==
  LET t1 == cow_group_init(grp, pid[p])
      i == get_cow_group(t1, pid[p])
  IN
  /\ User(p) /\ p # init /\ ChildSlot(q) /\ nextpid <= MaxPid
  /\ IF i = 0 THEN Panic("null cow group") ELSE
     /\ Born(p, q, [pt EXCEPT ![p] = ReadOnly(pt[p]),
                              ![q] = [a \in VA |-> [pt[p][a] EXCEPT !.w = FALSE]]])
     /\ cow_group' = [cow_group EXCEPT ![p] = pid[p], ![q] = pid[p]]
     /\ cow_enabled' = [cow_enabled EXCEPT ![p] = TRUE, ![q] = TRUE]
     /\ grp' = LET e == AddAll([t1[i] EXCEPT !.count = IF @ = 0 THEN 1 ELSE @],
                               pt[p])
               IN [t1 EXCEPT ![i] = [e EXCEPT !.count = @ + 1]]
     /\ UNCHANGED <<free, content, panic, bad, through>>

(* fork(0): a copy of every page, with the parent's flags.  The child's    *)
(* CoW fields are what the slot's last user left.                          *)
Copies(p) == {f \in [0 .. sz[p] - 1 -> free] :
                 \A a, b \in DOMAIN f : f[a] = f[b] => a = b}

Fork(p, q) ==
  /\ User(p) /\ ChildSlot(q) /\ nextpid <= MaxPid
  /\ \E f \in Copies(p) :
       LET S == {f[a] : a \in DOMAIN f} IN
       /\ Born(p, q, [pt EXCEPT ![q] =
             [a \in VA |-> IF a < sz[p] THEN [pt[p][a] EXCEPT !.pa = f[a]]
                           ELSE Unmapped]])
       /\ free' = free \ S
       /\ content' = [g \in Pages |->
             IF g \in S THEN content[pt[p][CHOOSE a \in DOMAIN f : f[a] = g].pa]
             ELSE content[g]]
  /\ UNCHANGED <<cow_enabled, cow_group, grp, panic, bad, through>>

(* Too few free pages: the copies made so far are freed under the parent's *)
(* CoW rules, the child's slot under its own stale fields.                 *)
ForkFails(p, q) ==
  LET g == get_cow_group(grp, cow_group[q]) IN
  /\ User(p) /\ ChildSlot(q) /\ nextpid <= MaxPid /\ Cardinality(free) < sz[p]
  /\ \/ /\ (free # {} /\ NoSuchGroup(p)) \/ NoSuchGroup(q)
        /\ Panic("null cow group")
     \/ /\ ~((free # {} /\ NoSuchGroup(p)) \/ NoSuchGroup(q))
        /\ content' = [m \in Pages |->
              IF m \in free THEN Junk ELSE content[m]]
        /\ free' = {m \in free : ~Spared(p, m)}
        /\ grp' = IF cow_enabled[q] THEN [grp EXCEPT ![g].count = @ - 1] ELSE grp
        /\ nextpid' = nextpid + 1
        /\ UNCHANGED <<procVars, panic, want, bad, through>>

-----------------------------------------------------------------------------
(* exit() and wait().  The parent frees the zombie's pages, asking its own *)
(* CoW fields which pages to spare, then the child leaves its group; the   *)
(* slot keeps its CoW fields.                                              *)
Exit(p) ==
  /\ User(p) /\ p # init
  /\ ps' = [ps EXCEPT ![p] = "ZOMBIE"]
  /\ parent' = [q \in Procs |-> IF parent[q] = p THEN init ELSE parent[q]]
  /\ UNCHANGED <<at, pid, sz, pt, old, cow_enabled, cow_group, grp, free,
                 content, nextpid, panic, want, bad, through>>

Wait(p, q) ==
  LET S == {g \in PagesOf(pt[q]) : ~Spared(p, g)}
      i == get_cow_group(grp, cow_group[q])
  IN
  /\ User(p) /\ ps[q] = "ZOMBIE" /\ parent[q] = p
  /\ \/ /\ (NoSuchGroup(p) /\ PagesOf(pt[q]) # {}) \/ NoSuchGroup(q)
        /\ Panic("null cow group")
     \/ /\ ~((NoSuchGroup(p) /\ PagesOf(pt[q]) # {}) \/ NoSuchGroup(q))
        /\ Kfree(S, {q} \X VA)
        /\ grp' = IF cow_enabled[q] THEN [grp EXCEPT ![i].count = @ - 1] ELSE grp
        /\ ps' = [ps EXCEPT ![q] = "UNUSED"]
        /\ pid' = [pid EXCEPT ![q] = 0]
        /\ parent' = [parent EXCEPT ![q] = 0]
        /\ sz' = [sz EXCEPT ![q] = 0]
        /\ pt' = [pt EXCEPT ![q] = NoTable]
        /\ want' = [want EXCEPT ![q] = [a \in VA |-> 0]]
        /\ UNCHANGED <<at, old, cow_enabled, cow_group, nextpid, panic, through>>

-----------------------------------------------------------------------------
(* exec(): cow_init() at its start empties the whole CoW table.            *)
ExecStart(p) ==
  /\ User(p) /\ p # init
  /\ grp' = EmptyTable
  /\ at' = [at EXCEPT ![p] = "exec"]
  /\ UNCHANGED <<ps, pid, parent, sz, pt, old, cow_enabled, cow_group, free,
                 content, nextpid, panic, want, bad, through>>

(* The file is missing or no program, or memory runs out: the pages of the *)
(* new image, if any, are freed under the process' own CoW rules, and it   *)
(* keeps its address space.                                                *)
ExecFails(p) ==
  /\ Running /\ at[p] = "exec"
  /\ \E S \in SUBSET free :
       /\ Cardinality(S) <= ImgSize
       /\ \/ S # {} /\ NoSuchGroup(p) /\ Panic("null cow group")
          \/ /\ S = {} \/ ~NoSuchGroup(p)
             /\ free' = free \ {m \in S : Spared(p, m)}
             /\ content' = [m \in Pages |-> IF m \in S THEN Junk ELSE content[m]]
             /\ at' = [at EXCEPT ![p] = "user"]
             /\ UNCHANGED <<ps, pid, parent, sz, pt, old, cow_enabled, cow_group,
                            grp, nextpid, panic, want, bad, through>>

(* The new image is committed; the CoW fields stay.                        *)
ExecCommit(p) ==
  /\ Running /\ at[p] = "exec"
  /\ \E f \in [0 .. ImgSize - 1 -> free] :
       LET S == {f[a] : a \in DOMAIN f} IN
       /\ \A a, b \in DOMAIN f : f[a] = f[b] => a = b
       /\ pt' = [pt EXCEPT ![p] =
             [a \in VA |-> IF a < ImgSize THEN [pa |-> f[a], w |-> TRUE]
                           ELSE Unmapped]]
       /\ free' = free \ S
       /\ content' = [g \in Pages |-> IF g \in S THEN 0 ELSE content[g]]
  /\ old' = [old EXCEPT ![p] = pt[p]]
  /\ sz' = [sz EXCEPT ![p] = ImgSize]
  /\ at' = [at EXCEPT ![p] = "free"]
  /\ want' = [want EXCEPT ![p] = [a \in VA |-> 0]]
  /\ UNCHANGED <<ps, pid, parent, cow_enabled, cow_group, grp, nextpid, panic,
                 bad, through>>

(* One page of the old address space is freed; after the last exec() ends. *)
ExecFree(p) ==
  LET todo == {b \in VA : old[p][b].pa # NoPage} IN
  /\ Running /\ at[p] = "free"
  /\ IF todo = {}
     THEN /\ at' = [at EXCEPT ![p] = "user"]
          /\ UNCHANGED <<ps, pid, parent, sz, pt, old, cow_enabled, cow_group,
                         grp, free, content, nextpid, panic, want, bad, through>>
     ELSE \E a \in todo :
          /\ \A c \in todo : a <= c
          /\ LET g == old[p][a].pa IN
             \/ NoSuchGroup(p) /\ Panic("null cow group")
             \/ /\ ~NoSuchGroup(p)
                /\ Kfree(IF Spared(p, g) THEN {} ELSE {g}, {<<p, MaxVA + a>>})
                /\ old' = [old EXCEPT ![p][a] = Unmapped]
                /\ UNCHANGED <<ps, at, pid, parent, sz, pt, cow_enabled,
                               cow_group, grp, nextpid, panic, want, through>>

(* sbrk() of one page up (growproc and uvmalloc) or down (uvmdealloc).     *)
SbrkGrow(p) ==
  /\ User(p) /\ p # init /\ sz[p] < MaxVA
  /\ \E m \in free :
       /\ free' = free \ {m}
       /\ content' = [content EXCEPT ![m] = 0]
       /\ pt' = [pt EXCEPT ![p][sz[p]] = [pa |-> m, w |-> TRUE]]
       /\ want' = [want EXCEPT ![p][sz[p]] = 0]
  /\ sz' = [sz EXCEPT ![p] = @ + 1]
  /\ UNCHANGED <<ps, at, pid, parent, old, cow_enabled, cow_group, grp, nextpid,
                 panic, bad, through>>

SbrkShrink(p) ==
  LET a == sz[p] - 1
      g == pt[p][a].pa
  IN
  /\ User(p) /\ p # init /\ sz[p] > 0
  /\ \/ NoSuchGroup(p) /\ Panic("null cow group")
     \/ /\ ~NoSuchGroup(p)
        /\ Kfree(IF Spared(p, g) THEN {} ELSE {g}, {<<p, a>>})
        /\ pt' = [pt EXCEPT ![p][a] = Unmapped]
        /\ sz' = [sz EXCEPT ![p] = a]
        /\ want' = [want EXCEPT ![p][a] = 0]
        /\ UNCHANGED <<ps, at, pid, parent, old, cow_enabled, cow_group, grp,
                       nextpid, panic, through>>

Halted == panic # "none" /\ UNCHANGED vars

Next ==
  \/ \E p \in Procs :
       \/ \E a \in VA : \/ copy_on_write(p, a)
                        \/ \E v \in Values : Store(p, a, v) \/ CopyOut(p, a, v)
       \/ \E q \in Procs : \/ ForkCow(p, q) \/ Fork(p, q) \/ ForkFails(p, q)
                           \/ Wait(p, q)
       \/ Exit(p)
       \/ ExecStart(p) \/ ExecFails(p) \/ ExecCommit(p) \/ ExecFree(p)
       \/ SbrkGrow(p) \/ SbrkShrink(p)
  \/ Halted

Spec == Init /\ [][Next]_vars

-----------------------------------------------------------------------------
(* Properties.                                                             *)

Pte == [pa : Pages \cup {NoPage}, w : BOOLEAN]

(* The process table, the page tables and the CoW table are well formed;   *)
(* a process has exactly the pages below its size.                         *)
TypeInv ==
  /\ ps \in [Procs -> {"UNUSED", "ALIVE", "ZOMBIE"}]
  /\ at \in [Procs -> {"user", "exec", "free"}]
  /\ pid \in [Procs -> 0 .. MaxPid]
  /\ parent \in [Procs -> 0 .. NPROC]
  /\ sz \in [Procs -> 0 .. MaxVA]
  /\ pt \in [Procs -> [VA -> Pte]] /\ old \in [Procs -> [VA -> Pte]]
  /\ \A p \in Procs, a \in VA : pt[p][a].pa # NoPage <=> a < sz[p]
  /\ cow_enabled \in [Procs -> BOOLEAN]
  /\ cow_group \in [Procs -> 0 .. MaxPid]
  /\ free \subseteq Pages
  /\ content \in [Pages -> Values \cup {0, Junk}]
  /\ nextpid \in 1 .. MaxPid + 1
  /\ want \in [Procs -> [VA -> Values \cup {0}]]
  /\ bad \in BOOLEAN /\ through \in BOOLEAN
TypeOK ==
  /\ TypeInv
  /\ \A i \in Gslot : /\ grp[i].group \in -1 .. MaxPid
                      /\ grp[i].count \in Int /\ grp[i].shmem \subseteq Pages
                      /\ Cardinality(grp[i].shmem) <= SHMEM_MAX

(* As long as no page was freed that was still in use, a page that some    *)
(* process may store to is mapped nowhere else: whatever the order of      *)
(* forks of both kinds, faults, execs and exits, no store can reach        *)
(* another process' memory.                                                *)
WritableIsPrivate ==
  ~bad =>
    \A p \in Procs, a \in VA :
      pt[p][a].w => Places(pt[p][a].pa) = {<<p, a>>} /\ pt[p][a].pa \notin free

(* Under the same condition, and if copyout() never stored into a shared   *)
(* page, every process reads at each of its addresses what it last wrote   *)
(* there or inherited from its parent at fork().                           *)
Isolated ==
  ~bad /\ ~through =>
    \A p \in Procs, a \in VA :
      ps[p] = "ALIVE" /\ a < sz[p] => content[pt[p][a].pa] = want[p][a]

-----------------------------------------------------------------------------
(* Strengthenings that make the invariants inductive (SharingProofs).      *)

(* A writable mapping maps a page; only exec() has a second page table; a  *)
(* process that is not alive is not in exec(), and a free slot has no      *)
(* memory.                                                                 *)
ShapeInv ==
  \A p \in Procs :
    /\ \A a \in VA : pt[p][a].w => pt[p][a].pa # NoPage
    /\ at[p] # "free" => \A a \in VA : old[p][a].pa = NoPage
    /\ ps[p] # "ALIVE" => at[p] = "user"
    /\ ps[p] = "UNUSED" => sz[p] = 0

(* A mapped page is not on the free list.                                  *)
FreeInv ==
  ~bad => \A p \in Procs, a \in VA : /\ pt[p][a].pa \notin free
                                     /\ old[p][a].pa \notin free
=============================================================================
