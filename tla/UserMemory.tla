----------------------------- MODULE UserMemory -----------------------------
(* The memory of user processes: kalloc.c, the page tables of vm.c, and the calls that build, grow, *)
(* copy and free address spaces (growproc, fork, freeproc in proc.c, exec.c). kalloc() may fail at  *)
(* every call because processes share the free pages; each page added to an address space is a      *)
(* step, so calls of several processes interleave between pages.                                    *)
EXTENDS Integers, FiniteSets

CONSTANTS Proc, init,
          Page,        \* physical pages: a set of numbers
          PGSIZE,      \* bytes in a page
          FAN,         \* entries of a page-table page (512)
          Segment,     \* program headers: [vaddr, memsz]
          MaxSegs,     \* bound on the segments of a program
          SbrkBytes,   \* arguments of sbrk()
          None

\* In pages: three levels, and the two pages the kernel maps at the top.
MAXVA      == FAN * FAN * FAN
TRAMPOLINE == MAXVA - 1
TRAPFRAME  == MAXVA - 2
Va         == 0..MAXVA - 1

\* Memory runs out before a program reaches the trap frame: 128 MB and 256 GB.
ASSUME ConstAssumption ==
  /\ init \in Proc /\ None \notin Proc /\ Page \subseteq Nat \ {0, 1}
  /\ PGSIZE \in Nat \ {0} /\ FAN \in Nat \ {0, 1} /\ Cardinality(Page) <= TRAPFRAME
  /\ \A s \in Segment : s.vaddr \in Nat /\ s.vaddr % PGSIZE = 0 /\ s.memsz \in Nat
  /\ MaxSegs \in Nat /\ SbrkBytes \subseteq Int

VARIABLES free,        \* kmem.freelist
          pt,          \* page tables: of a process, and the one its exec() builds
          sz, trapframe,
          pc, job,     \* a call that is adding pages
          panicked

vars == <<free, pt, sz, trapframe, pc, job, panicked>>

PGROUNDUP(n) == ((n + PGSIZE - 1) \div PGSIZE) * PGSIZE
Pages(n) == PGROUNDUP(n) \div PGSIZE

\* The page-table pages on the way to a page: of level 1 and of level 0, below the root.
Root == <<2, 0>>
Mid(va) == <<1, va \div (FAN * FAN)>>
Leaf(va) == <<0, va \div FAN>>
Node == {Root} \cup {Mid(va) : va \in Va} \cup {Leaf(va) : va \in Va}

\* The trampoline's code is not a page of the allocator; a trap frame's page belongs to its process.
Code == 1

EmptyTable == [tab |-> [n \in Node |-> 0], pte |-> [va \in Va |-> 0]]

Space == {"own", "new"}

----------------------------------------------------------------------------
(* vm.c on a page table t, the free pages f, whether all went well, and whether the kernel panicked. *)

Mem(f, t) == [free |-> f, tab |-> t.tab, pte |-> t.pte, ok |-> TRUE, panic |-> FALSE]
Table(m) == [tab |-> m.tab, pte |-> m.pte]

\* The page kalloc() takes from the free ones.
kalloc(f) == CHOOSE x \in f : \A y \in f : x <= y

\* One level of walk() with alloc: kalloc() of a page-table page that is missing.
AllocNode(m, n) ==
  IF ~m.ok \/ m.tab[n] # 0 THEN m
  ELSE IF m.free = {} THEN [m EXCEPT !.ok = FALSE]
  ELSE [m EXCEPT !.tab[n] = kalloc(m.free), !.free = @ \ {kalloc(m.free)}]

walk(m, va) == AllocNode(AllocNode(m, Mid(va)), Leaf(va))

\* walk() without alloc finds an entry.
Present(m, va) == m.tab[Root] # 0 /\ m.tab[Mid(va)] # 0 /\ m.tab[Leaf(va)] # 0

\* mappages() of one page.
mappages(m, va, pa) ==
  LET w == walk(m, va) IN
  IF ~w.ok THEN w
  ELSE IF w.pte[va] # 0 THEN [w EXCEPT !.panic = TRUE]
  ELSE [w EXCEPT !.pte[va] = pa]

\* uvmunmap() of the pages in S; a page that is not mapped is skipped.
uvmunmap(m, S, do_free) ==
  [m EXCEPT !.panic = @ \/ \E va \in S : ~Present(m, va),
            !.free = IF do_free THEN @ \cup ({m.pte[va] : va \in S} \ {0}) ELSE @,
            !.pte = [va \in Va |-> IF va \in S THEN 0 ELSE @[va]]]

\* uvmdealloc(): sizes in bytes.
uvmdealloc(m, oldsz, newsz) ==
  IF Pages(newsz) < Pages(oldsz) THEN uvmunmap(m, Pages(newsz)..Pages(oldsz) - 1, TRUE) ELSE m

\* freewalk(): all page-table pages, which hold no mappings any more.
freewalk(m) ==
  [m EXCEPT !.panic = @ \/ \E va \in Va : m.pte[va] # 0,
            !.free = @ \cup ({m.tab[n] : n \in Node} \ {0}),
            !.tab = EmptyTable.tab]

uvmfree(m, size) == freewalk(IF size > 0 THEN uvmunmap(m, 0..Pages(size) - 1, TRUE) ELSE m)

proc_freepagetable(m, size) ==
  uvmfree(uvmunmap(uvmunmap(m, {TRAMPOLINE}, FALSE), {TRAPFRAME}, FALSE), size)

\* uvmcreate(), the two pages at the top; on failure it takes back what it did.
proc_pagetable(f, tf) ==
  LET m0 == AllocNode(Mem(f, EmptyTable), Root)
      m1 == mappages(m0, TRAMPOLINE, Code)
      m2 == mappages(m1, TRAPFRAME, tf)
  IN IF ~m0.ok THEN m0
     ELSE IF ~m1.ok THEN uvmfree(m1, 0)
     ELSE IF ~m2.ok THEN uvmfree(uvmunmap(m2, {TRAMPOLINE}, FALSE), 0)
     ELSE m2

Lost(w, g) == w                          \* slip: no kfree(mem)
Kfree(w, g) == [w EXCEPT !.free = @ \cup {g}]

\* One page of uvmalloc() or uvmcopy(): kalloc(), mappages(), and kfree() if that fails.
AddPage(m, va) ==
  LET g == kalloc(m.free)
      w == mappages([m EXCEPT !.free = @ \ {g}], va, g)
  IN IF m.free = {} THEN [m EXCEPT !.ok = FALSE]
     ELSE IF w.ok THEN w ELSE Kfree(w, g)

----------------------------------------------------------------------------
(* Steps of a process p, which end with the page table of <<q, s>> as m has it. *)

Running(p, s) == ~panicked /\ pc[p] = s
Goto(p, s) == pc' = [pc EXCEPT ![p] = s]

Store(q, s, m) == /\ free' = m.free
                  /\ pt' = [pt EXCEPT ![<<q, s>>] = Table(m)]
                  /\ panicked' = m.panic

NoJob == [goal |-> 0, base |-> 0, a |-> 0, segs |-> 0, child |-> None]

\* Back to user space.
Return(p) == Goto(p, "user") /\ job' = [job EXCEPT ![p] = NoJob]

\* After userinit(): the first process has one page.
InitTable == [tab |-> [n \in Node |-> CASE n = Root -> 2 [] n = Mid(TRAPFRAME) -> 3
                                        [] n = Leaf(TRAPFRAME) -> 4 [] n = Mid(0) -> 5
                                        [] n = Leaf(0) -> 6 [] OTHER -> 0],
              pte |-> [va \in Va |-> CASE va = TRAMPOLINE -> Code [] va = TRAPFRAME -> 7
                                       [] va = 0 -> 8 [] OTHER -> 0]]

Init ==
  /\ free = Page \ (2..8)
  /\ pt = [x \in Proc \X Space |-> IF x = <<init, "own">> THEN InitTable ELSE EmptyTable]
  /\ sz = [p \in Proc |-> IF p = init THEN PGSIZE ELSE 0]
  /\ trapframe = [p \in Proc |-> IF p = init THEN 7 ELSE 0]
  /\ pc = [p \in Proc |-> IF p = init THEN "user" ELSE "unused"]
  /\ job = [p \in Proc |-> NoJob] /\ panicked = FALSE

\* growproc(): n is rounded up to pages. Shrinking by more than there is wraps around, and uvmdealloc()
\* does nothing then.
Sbrk(p, n) ==
  LET d == PGROUNDUP(n)
      size == sz[p] + d
      m == uvmdealloc(Mem(free, pt[<<p, "own">>]), sz[p], size)
  IN
  /\ Running(p, "user")
  /\ \/ /\ d > 0
        /\ job' = [job EXCEPT ![p] = [NoJob EXCEPT !.base = sz[p], !.a = PGROUNDUP(sz[p]), !.goal = size]]
        /\ Goto(p, "grow")
        /\ UNCHANGED <<free, pt, sz, panicked>>
     \/ /\ d <= 0 /\ size >= 0
        /\ Store(p, "own", m)
        /\ sz' = [sz EXCEPT ![p] = size]
        /\ UNCHANGED <<pc, job>>
  /\ UNCHANGED <<trapframe>>

LeftMapped(m, j) == m                    \* slip: no uvmdealloc()
TakenBack(m, j) == uvmdealloc(m, j.a, PGROUNDUP(j.base))

\* A turn of uvmalloc(), which starts at oldsz rounded up: without memory, the pages it added go.
Uvmalloc(p, s, failed) ==
  LET j == job[p]
      m == AddPage(Mem(free, pt[<<p, s>>]), j.a \div PGSIZE)
  IN
  /\ j.a < j.goal
  /\ IF m.ok THEN /\ Store(p, s, m)
                  /\ job' = [job EXCEPT ![p].a = @ + PGSIZE]
                  /\ UNCHANGED pc
             ELSE /\ Store(p, s, TakenBack(m, j))
                  /\ IF failed = "user" THEN Return(p) ELSE Goto(p, failed) /\ UNCHANGED job

GrowPage(p) ==
  /\ Running(p, "grow") /\ Uvmalloc(p, "own", "user")
  /\ UNCHANGED <<sz, trapframe>>

GrowEnd(p) ==
  /\ Running(p, "grow") /\ job[p].a >= job[p].goal
  /\ sz' = [sz EXCEPT ![p] = job[p].goal]
  /\ Return(p)
  /\ UNCHANGED <<free, pt, trapframe, panicked>>

----------------------------------------------------------------------------
(* fork(), exit() with wait() *)

\* freeproc(): the trap frame, then the page table as it is in m.
Freeproc(q, m) ==
  LET f == [m EXCEPT !.free = @ \cup ({trapframe[q]} \ {0})]
  IN Store(q, "own", IF m.tab[Root] # 0 THEN proc_freepagetable(f, sz[q]) ELSE f)

\* allocproc(): without memory for the trap frame or the page table there is no child.
ForkAlloc(p, q) ==
  LET tf == kalloc(free)
      m == proc_pagetable(free \ {tf}, tf)
  IN
  /\ Running(p, "user") /\ pc[q] = "unused"
  /\ \/ /\ free = {}
        /\ UNCHANGED <<free, pt, trapframe, pc, job, panicked>>
     \/ /\ free # {} /\ ~m.ok
        /\ free' = m.free \cup {tf} /\ panicked' = m.panic
        /\ UNCHANGED <<pt, trapframe, pc, job>>
     \/ /\ free # {} /\ m.ok
        /\ Store(q, "own", m)
        /\ trapframe' = [trapframe EXCEPT ![q] = tf]
        /\ pc' = [pc EXCEPT ![p] = "fork", ![q] = "embryo"]
        /\ job' = [job EXCEPT ![p] = [NoJob EXCEPT !.goal = sz[p], !.child = q]]
  /\ UNCHANGED <<sz>>

AllButLast(m, va) == uvmunmap(m, 0..va - 2, TRUE)    \* slip: one page too few
Uncopied(m, va) == uvmunmap(m, 0..va - 1, TRUE)

\* A turn of uvmcopy(): without memory, the pages copied so far go, and then freeproc().
ForkPage(p) ==
  LET j == job[p]
      q == j.child
      va == j.a \div PGSIZE
      m == AddPage(Mem(free, pt[<<q, "own">>]), va)
  IN
  /\ Running(p, "fork") /\ j.a < j.goal
  /\ IF pt[<<p, "own">>].pte[va] = 0
       THEN panicked' = TRUE /\ UNCHANGED <<free, pt, trapframe, pc, job>>
     ELSE IF m.ok
       THEN /\ Store(q, "own", m)
            /\ job' = [job EXCEPT ![p].a = @ + PGSIZE]
            /\ UNCHANGED <<trapframe, pc>>
     ELSE /\ Freeproc(q, Uncopied(m, va))
          /\ trapframe' = [trapframe EXCEPT ![q] = 0]
          /\ pc' = [pc EXCEPT ![p] = "user", ![q] = "unused"]
          /\ job' = [job EXCEPT ![p] = NoJob]
  /\ UNCHANGED <<sz>>

ForkEnd(p) ==
  LET q == job[p].child IN
  /\ Running(p, "fork") /\ job[p].a >= job[p].goal
  /\ sz' = [sz EXCEPT ![q] = sz[p]]
  /\ pc' = [pc EXCEPT ![p] = "user", ![q] = "user"]
  /\ job' = [job EXCEPT ![p] = NoJob]
  /\ UNCHANGED <<free, pt, trapframe, panicked>>

\* exit(), and freeproc() in the parent's wait().
Reap(q) ==
  /\ Running(q, "user") /\ q # init
  /\ Freeproc(q, Mem(free, pt[<<q, "own">>]))
  /\ sz' = [sz EXCEPT ![q] = 0] /\ trapframe' = [trapframe EXCEPT ![q] = 0]
  /\ Goto(q, "unused")
  /\ UNCHANGED job

----------------------------------------------------------------------------
(* exec(): job.base is its sz while no page is being added *)

Exec(p) ==
  LET m == proc_pagetable(free, trapframe[p]) IN
  /\ Running(p, "user")
  /\ Store(p, "new", m)
  /\ Goto(p, IF m.ok THEN "exec" ELSE "user")
  /\ UNCHANGED <<sz, trapframe, job>>

\* uvmalloc(pagetable, base, goal): size before, size wanted.
Extend(p, from, to, s) ==
  /\ job' = [job EXCEPT ![p].base = from, ![p].a = PGROUNDUP(from), ![p].goal = to, ![p].segs = @ + 1]
  /\ Goto(p, s)
  /\ UNCHANGED <<free, pt, sz, trapframe, panicked>>

\* A program header: a segment below what is loaded changes nothing, one that leaves sz 0 is an error.
ExecSegment(p, g) ==
  LET to == g.vaddr + g.memsz IN
  /\ Running(p, "exec") /\ job[p].segs < MaxSegs
  /\ Extend(p, job[p].base, IF to < job[p].base THEN job[p].base ELSE to,
            IF to = 0 /\ job[p].base = 0 THEN "bad" ELSE "load")

LoadPage(p) ==
  /\ Running(p, "load") \/ Running(p, "stack")
  /\ Uvmalloc(p, "new", "bad")
  /\ UNCHANGED <<sz, trapframe>>

\* sz = sz1. loadseg() of the segment may fail.
LoadEnd(p) ==
  /\ Running(p, "load") /\ job[p].a >= job[p].goal
  /\ job' = [job EXCEPT ![p].base = job[p].goal]
  /\ \E s \in {"exec", "bad"} : Goto(p, s)
  /\ UNCHANGED <<free, pt, sz, trapframe, panicked>>

\* After the last segment, sz is rounded up and the guard page and the stack are added.
ExecStack(p) ==
  LET from == PGROUNDUP(job[p].base) IN
  /\ Running(p, "exec")
  /\ Extend(p, from, from + 2 * PGSIZE, "stack")

\* The arguments fit: the new image replaces the old one.
ExecCommit(p) ==
  LET m == proc_freepagetable(Mem(free, pt[<<p, "own">>]), sz[p]) IN
  /\ Running(p, "stack") /\ job[p].a >= job[p].goal
  /\ free' = m.free /\ panicked' = m.panic
  /\ pt' = [pt EXCEPT ![<<p, "own">>] = pt[<<p, "new">>], ![<<p, "new">>] = Table(m)]
  /\ sz' = [sz EXCEPT ![p] = job[p].goal]
  /\ Return(p)
  /\ UNCHANGED <<trapframe>>

\* The arguments do not fit.
ExecTooLong(p) ==
  /\ Running(p, "stack") /\ job[p].a >= job[p].goal
  /\ job' = [job EXCEPT ![p].base = job[p].goal]
  /\ Goto(p, "bad")
  /\ UNCHANGED <<free, pt, sz, trapframe, panicked>>

\* bad: the new page table and its sz pages go, the old image stays.
ExecBad(p) ==
  /\ Running(p, "bad")
  /\ Store(p, "new", proc_freepagetable(Mem(free, pt[<<p, "new">>]), job[p].base))
  /\ Return(p)
  /\ UNCHANGED <<sz, trapframe>>

Next == \E p \in Proc :
          \/ GrowPage(p) \/ GrowEnd(p) \/ ForkPage(p) \/ ForkEnd(p) \/ Reap(p)
          \/ Exec(p) \/ LoadPage(p) \/ LoadEnd(p) \/ ExecStack(p)
          \/ ExecCommit(p) \/ ExecTooLong(p) \/ ExecBad(p)
          \/ \E n \in SbrkBytes : Sbrk(p, n)
          \/ \E g \in Segment : ExecSegment(p, g)
          \/ \E q \in Proc : ForkAlloc(p, q)

Spec == Init /\ [][Next]_vars

----------------------------------------------------------------------------
(* Properties *)

\* Where pages are: page-table pages, mappings below the trap frame, trap frames.
Tables == {y \in (Proc \X Space) \X Node : pt[y[1]].tab[y[2]] # 0}
Users  == {y \in (Proc \X Space) \X (0..TRAPFRAME - 1) : pt[y[1]].pte[y[2]] # 0}
Frames == {p \in Proc : trapframe[p] # 0}

\* Every page has one owner at every moment: whichever kalloc() of a fork, exec or sbrk fails, and
\* however these calls interleave, no page is lost, freed twice or mapped twice (vm.c:241-253,
\* 319-338, exec.c:135-137, proc.c:129-141, 182-203, 295-299).
PagesOwned ==
  /\ free \cup {pt[y[1]].tab[y[2]] : y \in Tables} \cup {pt[y[1]].pte[y[2]] : y \in Users}
       \cup {trapframe[p] : p \in Frames} = Page
  /\ Cardinality(free) + Cardinality(Tables) + Cardinality(Users) + Cardinality(Frames)
       = Cardinality(Page)

\* The pages a process has are exactly those below sz, with the trampoline and its trap frame, also
\* while it builds a new image and after a call that failed (proc.c:268-276, exec.c:126-131, 135-142).
ImageExact ==
  \A p \in Proc : pc[p] \in {"user", "exec", "load", "stack", "bad", "fork"} =>
    LET t == pt[<<p, "own">>].pte IN
    /\ \A va \in 0..TRAPFRAME - 1 : t[va] # 0 <=> va < Pages(sz[p])
    /\ t[TRAMPOLINE] = Code /\ t[TRAPFRAME] = trapframe[p]

\* None of the panics of vm.c is reached: remap, unmapping below a page table that is not there,
\* a mapping left in freewalk(), a page missing in uvmcopy() (vm.c:160, 184, 288, 320-323).
NoPanic == ~panicked
=============================================================================
