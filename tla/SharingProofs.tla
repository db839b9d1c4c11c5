---------------------------- MODULE SharingProofs ----------------------------
(* Proofs about the two parts that count who shares what: Cow, for every   *)
(* number of processes, pages and addresses (while no page in use is       *)
(* freed, copy-on-write keeps address spaces apart); and Fs, for any       *)
(* processes, inodes, blocks, names and calls, on paths without "..".      *)
EXTENDS Cow, Fs, FiniteSetTheorems, SequenceTheorems, WellFoundedInduction, TLAPS

USE DEF Procs, VA

(* WritableIsPrivate, said of single mappings: nothing else maps the page. *)
Only(p, a) ==
  /\ \A r \in Procs, b \in VA : pt[r][b].pa = pt[p][a].pa => r = p /\ b = a
  /\ \A r \in Procs, b \in VA : old[r][b].pa # pt[p][a].pa
PrivateInv == ~bad => \A p \in Procs, a \in VA : pt[p][a].w => Only(p, a)

(* The pages and their owners; with the contents on top.                   *)
Owners == TypeInv /\ ShapeInv /\ FreeInv /\ PrivateInv
IInv == Owners /\ Isolated

-----------------------------------------------------------------------------
(* The places where a page is mapped.                                      *)

LEMMA VaNat == \A a \in VA : a \in Nat /\ a < MaxVA
BY CowAssumption

(* An address of the page table, and one of the table exec() is freeing.   *)
LEMMA PlacesAre ==
  ASSUME NEW g
  PROVE  /\ \A r \in Procs, b \in VA :
              /\ <<r, b>> \in Places(g) <=> pt[r][b].pa = g
              /\ <<r, MaxVA + b>> \in Places(g) <=> old[r][b].pa = g
         /\ \A x \in Places(g) : \E r \in Procs, b \in VA :
              \/ x = <<r, b>> /\ pt[r][b].pa = g
              \/ x = <<r, MaxVA + b>> /\ old[r][b].pa = g
<1>1. ASSUME NEW r \in Procs, NEW b \in VA
      PROVE  <<r, b>> \in Places(g) <=> pt[r][b].pa = g
  <2>1. b \notin MaxVA .. 2 * MaxVA - 1
    BY CowAssumption
  <2> QED BY <2>1 DEF Places
<1>2. ASSUME NEW r \in Procs, NEW b \in VA
      PROVE  <<r, MaxVA + b>> \in Places(g) <=> old[r][b].pa = g
  <2>1. /\ MaxVA + b \in MaxVA .. 2 * MaxVA - 1 /\ MaxVA + b \notin VA
        /\ (MaxVA + b) - MaxVA = b
    BY CowAssumption
  <2> QED BY <2>1 DEF Places
<1>3. ASSUME NEW x \in Places(g)
      PROVE  \E r \in Procs, b \in VA :
               \/ x = <<r, b>> /\ pt[r][b].pa = g
               \/ x = <<r, MaxVA + b>> /\ old[r][b].pa = g
  <2>1. CASE x \in Procs \X VA /\ pt[x[1]][x[2]].pa = g
    BY <2>1
  <2>2. CASE x \in Procs \X (MaxVA .. 2 * MaxVA - 1) /\ old[x[1]][x[2] - MaxVA].pa = g
    <3>1. PICK r \in Procs, c \in MaxVA .. 2 * MaxVA - 1 : x = <<r, c>>
      BY <2>2
    <3>2. c - MaxVA \in VA /\ MaxVA + (c - MaxVA) = c
      BY CowAssumption
    <3> QED BY <2>2, <3>1, <3>2
  <2> QED BY <2>1, <2>2 DEF Places
<1> QED BY <1>1, <1>2, <1>3

(* A page that is mapped in one place only.                                *)
LEMMA PlacesOne ==
  ASSUME NEW p \in Procs, NEW a \in VA
  PROVE  Places(pt[p][a].pa) = {<<p, a>>} <=> Only(p, a)
<1> DEFINE g == pt[p][a].pa
           P == Places(g)
<1>1. /\ \A r \in Procs, b \in VA :
           /\ <<r, b>> \in P <=> pt[r][b].pa = g
           /\ <<r, MaxVA + b>> \in P <=> old[r][b].pa = g
      /\ \A x \in P : \E r \in Procs, b \in VA :
           \/ x = <<r, b>> /\ pt[r][b].pa = g
           \/ x = <<r, MaxVA + b>> /\ old[r][b].pa = g
  BY PlacesAre
<1>2. \A b \in VA : MaxVA + b # a
  BY CowAssumption
<1>3. <<p, a>> \in P
  BY <1>1
<1>4. ASSUME P = {<<p, a>>} PROVE Only(p, a)
  <2> HIDE DEF P
  <2>1. \A r \in Procs, b \in VA : pt[r][b].pa = g => <<r, b>> = <<p, a>>
    BY <1>1, <1>4
  <2>2. \A r \in Procs, b \in VA : old[r][b].pa = g => <<r, MaxVA + b>> = <<p, a>>
    BY <1>1, <1>4
  <2>3. \A r \in Procs, b \in VA : old[r][b].pa # g
    BY <1>2, <2>2
  <2> QED BY <2>1, <2>3 DEF Only
<1>5. ASSUME Only(p, a) PROVE P = {<<p, a>>}
  <2> HIDE DEF P
  <2>1. \A x \in P : x = <<p, a>>
    BY <1>1, <1>5 DEF Only
  <2> QED BY <1>3, <2>1
<1> QED BY <1>4, <1>5

(* The invariant says WritableIsPrivate.                                   *)
LEMMA WordsPrivate ==
  ASSUME FreeInv, PrivateInv
  PROVE  WritableIsPrivate
BY PlacesOne DEF FreeInv, PrivateInv, WritableIsPrivate

(* A set of pages is freed without harm: unmapping `gone' leaves none of   *)
(* them mapped.                                                            *)
LEMMA KfreeHarmless ==
  ASSUME NEW S, NEW gone, Kfree(S, gone), ~bad'
  PROVE  /\ ~bad /\ free' = free \cup S
         /\ content' = [g \in Pages |-> IF g \in S THEN Junk ELSE content[g]]
         /\ \A r \in Procs, b \in VA :
              /\ pt[r][b].pa \in S => <<r, b>> \in gone
              /\ old[r][b].pa \in S => <<r, MaxVA + b>> \in gone
<1>1. \A g \in S : Places(g) \subseteq gone
  BY DEF Kfree
<1>2. ASSUME NEW r \in Procs, NEW b \in VA
      PROVE  /\ pt[r][b].pa \in S => <<r, b>> \in gone
             /\ old[r][b].pa \in S => <<r, MaxVA + b>> \in gone
  BY <1>1, PlacesAre
<1> QED BY <1>2 DEF Kfree

(* The types of what kfree() changes.                                      *)
LEMMA KfreeTypes ==
  ASSUME TypeInv, NEW S \in SUBSET Pages, NEW gone, Kfree(S, gone)
  PROVE  /\ free' \subseteq Pages /\ bad' \in BOOLEAN
         /\ content' \in [Pages -> Values \cup {0, Junk}]
BY DEF TypeInv, Kfree

-----------------------------------------------------------------------------
(* Initially and in every step.                                            *)

LEMMA UnmappedType ==
  /\ Unmapped \in Pte /\ Unmapped.pa = NoPage /\ Unmapped.w = FALSE
  /\ NoTable \in [VA -> Pte] /\ \A a \in VA : NoTable[a] = Unmapped
BY DEF Unmapped, NoTable, Pte

(* The invariant holds initially.                                          *)
LEMMA InitInv == Init => IInv
<1> SUFFICES ASSUME Init PROVE IInv
  OBVIOUS
<1> DEFINE Image == 0 .. ImgSize - 1
<1>1. PICK img \in [Image -> Pages] :
      /\ \A a, b \in DOMAIN img : img[a] = img[b] => a = b
      /\ ps = [p \in Procs |-> IF p = init THEN "ALIVE" ELSE "UNUSED"]
      /\ at = [p \in Procs |-> "user"]
      /\ pid = [p \in Procs |-> IF p = init THEN 1 ELSE 0]
      /\ parent = [p \in Procs |-> 0]
      /\ sz = [p \in Procs |-> IF p = init THEN ImgSize ELSE 0]
      /\ pt = [p \in Procs |-> [a \in VA |-> IF p = init /\ a < ImgSize
                                         THEN [pa |-> img[a], w |-> TRUE]
                                         ELSE Unmapped]]
      /\ old = [p \in Procs |-> NoTable]
      /\ cow_enabled = [p \in Procs |-> FALSE]
      /\ cow_group = [p \in Procs |-> 0]
      /\ free = Pages \ {img[a] : a \in DOMAIN img}
      /\ content = [g \in Pages |-> IF g \in free THEN Junk ELSE 0]
      /\ nextpid = 2
      /\ want = [p \in Procs |-> [a \in VA |-> 0]]
      /\ bad = FALSE
      /\ through = FALSE
  BY DEF Init
<1>2. init \in Procs /\ \A a \in VA : a < ImgSize <=> a \in Image
  BY CowAssumption DEF init
<1>3. \A a \in Image : a \in VA /\ img[a] \in Pages /\ img[a] # NoPage /\ img[a] \notin free
  BY <1>1, CowAssumption
<1>4. \A p \in Procs, a \in VA :
        /\ p = init /\ a \in Image => pt[p][a] = [pa |-> img[a], w |-> TRUE]
        /\ ~(p = init /\ a \in Image) => pt[p][a] = Unmapped
  BY <1>1, <1>2
<1>5. \A p \in Procs, a \in VA : old[p][a] = Unmapped
  BY <1>1, UnmappedType
<1>6. TypeInv
  <2>1. pt \in [Procs -> [VA -> Pte]] /\ old \in [Procs -> [VA -> Pte]]
    <3>1. ASSUME NEW p \in Procs, NEW a \in VA PROVE pt[p][a] \in Pte
      <4>1. CASE p = init /\ a \in Image
        <5>1. pt[p][a] = [pa |-> img[a], w |-> TRUE]
          BY <1>4, <4>1
        <5>2. img[a] \in Pages \cup {NoPage}
          BY <1>3, <4>1
        <5> QED BY <5>1, <5>2 DEF Pte
      <4>2. CASE ~(p = init /\ a \in Image)
        BY <1>4, <4>2, UnmappedType
      <4> QED BY <4>1, <4>2
    <3> QED BY <1>1, <3>1, UnmappedType
  <2>2. \A p \in Procs, a \in VA : pt[p][a].pa # NoPage <=> a < sz[p]
    <3> TAKE p \in Procs, a \in VA
    <3>1. CASE p = init
      BY <1>1, <1>2, <1>3, <1>4, <3>1, UnmappedType
    <3>2. CASE p # init
      BY <1>1, <1>4, <3>2, UnmappedType, VaNat
    <3> QED BY <3>1, <3>2
  <2>3. /\ sz \in [Procs -> 0 .. MaxVA] /\ pid \in [Procs -> 0 .. MaxPid]
        /\ parent \in [Procs -> 0 .. NPROC] /\ nextpid \in 1 .. MaxPid + 1
        /\ cow_group \in [Procs -> 0 .. MaxPid]
    BY <1>1, CowAssumption
  <2>4. /\ ps \in [Procs -> {"UNUSED", "ALIVE", "ZOMBIE"}]
        /\ at \in [Procs -> {"user", "exec", "free"}]
        /\ cow_enabled \in [Procs -> BOOLEAN]
        /\ want \in [Procs -> [VA -> Values \cup {0}]]
        /\ bad \in BOOLEAN /\ through \in BOOLEAN
    BY <1>1
  <2>5. free \subseteq Pages /\ content \in [Pages -> Values \cup {0, Junk}]
    BY <1>1
  <2> QED BY <2>1, <2>2, <2>3, <2>4, <2>5 DEF TypeInv
<1>7. ShapeInv
  BY <1>1, <1>3, <1>4, <1>5, UnmappedType DEF ShapeInv
<1>8. FreeInv
  BY <1>1, <1>3, <1>4, <1>5, UnmappedType, CowAssumption DEF FreeInv
<1>9. PrivateInv
  <2> SUFFICES ASSUME NEW p \in Procs, NEW a \in VA, pt[p][a].w
               PROVE  Only(p, a)
    BY DEF PrivateInv
  <2>1. p = init /\ a \in Image /\ pt[p][a].pa = img[a]
    <3>1. CASE p = init /\ a \in Image
      <4>1. pt[p][a] = [pa |-> img[a], w |-> TRUE]
        BY <1>4, <3>1
      <4> QED BY <3>1, <4>1
    <3>2. CASE ~(p = init /\ a \in Image)
      BY <1>4, <3>2, UnmappedType
    <3> QED BY <3>1, <3>2
  <2>2. \A r \in Procs, b \in VA : pt[r][b].pa = img[a] => r = p /\ b = a
    BY <1>1, <1>3, <1>4, <2>1, UnmappedType
  <2> QED BY <1>3, <1>5, <2>1, <2>2, UnmappedType DEF Only
<1>10. Isolated
  <2> SUFFICES ASSUME NEW p \in Procs, NEW a \in VA, ps[p] = "ALIVE", a < sz[p]
               PROVE  content[pt[p][a].pa] = want[p][a]
    BY DEF Isolated
  <2>1. p = init /\ a \in Image /\ pt[p][a].pa = img[a]
    BY <1>1, <1>2, <1>4
  <2> QED BY <1>1, <1>3, <2>1
<1> QED BY <1>6, <1>7, <1>8, <1>9, <1>10 DEF IInv, Owners

(* The types of a page-table entry.                                        *)
LEMMA PteType ==
  ASSUME TypeInv, NEW p \in Procs, NEW a \in VA
  PROVE  /\ pt[p][a] \in Pte /\ pt[p][a].pa \in Pages \cup {NoPage}
         /\ pt[p][a].w \in BOOLEAN
         /\ old[p][a] \in Pte /\ old[p][a].pa \in Pages \cup {NoPage}
<1>1. pt \in [Procs -> [VA -> Pte]] /\ old \in [Procs -> [VA -> Pte]]
  BY DEF TypeInv
<1>2. pt[p][a] \in Pte /\ old[p][a] \in Pte
  BY <1>1
<1> QED BY <1>2 DEF Pte

(* Steps that leave the tables, the free list and the contents alone.      *)
LEMMA FrameInv ==
  ASSUME IInv, TypeInv', ShapeInv',
         UNCHANGED <<pt, old, free, content, sz, want, bad, through>>,
         \A r \in Procs : ps'[r] = "ALIVE" => ps[r] = "ALIVE"
  PROVE  IInv'
<1>1. FreeInv' /\ PrivateInv'
  BY DEF IInv, Owners, FreeInv, PrivateInv, Only
<1>2. Isolated'
  BY DEF IInv, Isolated
<1> QED BY <1>1, <1>2 DEF IInv, Owners

(* A panic stops everything.                                               *)
LEMMA PanicInv ==
  ASSUME IInv, NEW why, Panic(why)
  PROVE  IInv'
<1>1. TypeInv' /\ ShapeInv'
  BY DEF IInv, Owners, TypeInv, ShapeInv, Panic, procVars
<1> QED BY <1>1, FrameInv DEF Panic, procVars

(* exit() keeps the memory; wait() frees it.                               *)
LEMMA ExitInv ==
  ASSUME IInv, NEW p \in Procs, Exit(p)
  PROVE  IInv'
<1>1. /\ ps' = [ps EXCEPT ![p] = "ZOMBIE"]
      /\ parent' = [q \in Procs |-> IF parent[q] = p THEN init ELSE parent[q]]
      /\ ps[p] = "ALIVE" /\ at[p] = "user"
      /\ UNCHANGED <<at, pid, sz, pt, old, cow_enabled, cow_group, free, content,
                     nextpid, want, bad, through>>
  BY DEF Exit, User
<1>2. TypeInv
  BY DEF IInv, Owners
<1>3. parent' \in [Procs -> 0 .. NPROC] /\ ps' \in [Procs -> {"UNUSED", "ALIVE", "ZOMBIE"}]
  <2>1. \A q \in Procs : parent[q] \in 0 .. NPROC
    BY <1>2 DEF TypeInv
  <2>2. init \in 0 .. NPROC
    BY CowAssumption DEF init
  <2>3. parent' \in [Procs -> 0 .. NPROC]
    BY <1>1, <2>1, <2>2
  <2> QED BY <1>1, <1>2, <2>3 DEF TypeInv
<1>4. TypeInv'
  BY <1>1, <1>2, <1>3 DEF TypeInv
<1>5. \A r \in Procs : ps'[r] = IF r = p THEN "ZOMBIE" ELSE ps[r]
  BY <1>1, <1>2 DEF TypeInv
<1>6. ShapeInv'
  BY <1>1, <1>5 DEF IInv, Owners, ShapeInv
<1> QED BY <1>1, <1>4, <1>5, <1>6, FrameInv

(* exec() starts: only the CoW table is lost.                              *)
LEMMA ExecStartInv ==
  ASSUME IInv, NEW p \in Procs, ExecStart(p)
  PROVE  IInv'
<1>1. /\ at' = [at EXCEPT ![p] = "exec"] /\ ps[p] = "ALIVE" /\ at[p] = "user"
      /\ UNCHANGED <<ps, pid, parent, sz, pt, old, cow_enabled, cow_group, free,
                     content, nextpid, want, bad, through>>
  BY DEF ExecStart, User
<1>2. TypeInv
  BY DEF IInv, Owners
<1>3. TypeInv'
  BY <1>1, <1>2 DEF TypeInv
<1>4. \A r \in Procs : at'[r] = IF r = p THEN "exec" ELSE at[r]
  BY <1>1, <1>2 DEF TypeInv
<1>5. ShapeInv'
  BY <1>1, <1>4 DEF IInv, Owners, ShapeInv
<1> QED BY <1>1, <1>3, <1>5, FrameInv

(* Steps that only fill pages of the free list with junk, and may take     *)
(* some of them off it.                                                    *)
LEMMA JunkInv ==
  ASSUME IInv, TypeInv', ShapeInv', NEW S \in SUBSET free, free' \subseteq free,
         content' = [m \in Pages |-> IF m \in S THEN Junk ELSE content[m]],
         UNCHANGED <<ps, pt, old, sz, want, bad, through>>
  PROVE  IInv'
<1>1. FreeInv' /\ PrivateInv'
  BY DEF IInv, Owners, FreeInv, PrivateInv, Only
<1>2. Isolated'
  <2> SUFFICES ASSUME ~bad, ~through, NEW p \in Procs, NEW a \in VA,
                      ps[p] = "ALIVE", a < sz[p]
               PROVE  content'[pt[p][a].pa] = want[p][a]
    BY DEF Isolated
  <2>1. pt[p][a].pa \notin free /\ content[pt[p][a].pa] = want[p][a]
    BY DEF IInv, Owners, FreeInv, Isolated
  <2>2. pt[p][a].pa \in Pages
    <3>1. pt[p][a] \in Pte /\ pt[p][a].pa # NoPage
      BY DEF IInv, Owners, TypeInv
    <3> QED BY <3>1 DEF Pte
  <2> QED BY <2>1, <2>2
<1> QED BY <1>1, <1>2 DEF IInv, Owners

(* fork() runs out of pages halfway.                                       *)
LEMMA ForkFailsInv ==
  ASSUME IInv, NEW p \in Procs, NEW q \in Procs, ForkFails(p, q)
  PROVE  IInv'
<1>1. CASE Panic("null cow group")
  BY <1>1, PanicInv
<1>2. CASE ~Panic("null cow group")
  <2>1. /\ content' = [m \in Pages |-> IF m \in free THEN Junk ELSE content[m]]
        /\ free' = {m \in free : ~Spared(p, m)}
        /\ nextpid' = nextpid + 1 /\ nextpid <= MaxPid
        /\ UNCHANGED <<procVars, want, bad, through>>
    BY <1>2 DEF ForkFails
  <2>2. TypeInv /\ ShapeInv
    BY DEF IInv, Owners
  <2>3. /\ content' \in [Pages -> Values \cup {0, Junk}] /\ free' \subseteq Pages
        /\ nextpid' \in 1 .. MaxPid + 1
    <3>1. content' \in [Pages -> Values \cup {0, Junk}]
      BY <2>1, <2>2 DEF TypeInv
    <3>2. free' \subseteq Pages
      BY <2>1, <2>2 DEF TypeInv
    <3>3. nextpid' \in 1 .. MaxPid + 1
      BY <2>1, <2>2, CowAssumption DEF TypeInv
    <3> QED BY <3>1, <3>2, <3>3
  <2>4. TypeInv' /\ ShapeInv'
    BY <2>1, <2>2, <2>3 DEF TypeInv, ShapeInv, procVars
  <2>5. free \in SUBSET free /\ free' \subseteq free
    BY <2>1
  <2>6. UNCHANGED <<ps, pt, old, sz, want, bad, through>>
    BY <2>1 DEF procVars
  <2> QED BY <2>1, <2>4, <2>5, <2>6, JunkInv
<1> QED BY <1>1, <1>2

(* exec() fails and gives its new pages back.                              *)
LEMMA ExecFailsInv ==
  ASSUME IInv, NEW p \in Procs, ExecFails(p)
  PROVE  IInv'
<1>1. CASE Panic("null cow group")
  BY <1>1, PanicInv
<1>2. CASE ~Panic("null cow group")
  <2>1. PICK S \in SUBSET free :
        /\ free' = free \ {m \in S : Spared(p, m)}
        /\ content' = [m \in Pages |-> IF m \in S THEN Junk ELSE content[m]]
        /\ at' = [at EXCEPT ![p] = "user"] /\ at[p] = "exec"
        /\ UNCHANGED <<ps, pid, parent, sz, pt, old, cow_enabled, cow_group,
                       grp, nextpid, want, bad, through>>
    BY <1>2 DEF ExecFails
  <2>2. TypeInv /\ ShapeInv
    BY DEF IInv, Owners
  <2>3. content' \in [Pages -> Values \cup {0, Junk}] /\ free' \subseteq free
    BY <2>1, <2>2 DEF TypeInv
  <2>4. TypeInv'
    BY <2>1, <2>2, <2>3 DEF TypeInv
  <2>5. \A r \in Procs : at'[r] = IF r = p THEN "user" ELSE at[r]
    BY <2>1, <2>2 DEF TypeInv
  <2>6. ShapeInv'
    BY <2>1, <2>2, <2>5 DEF ShapeInv
  <2> QED BY <2>1, <2>3, <2>4, <2>6, JunkInv
<1> QED BY <1>1, <1>2

(* A program's store reaches a page nobody else maps.                      *)
LEMMA StoreInv ==
  ASSUME IInv, NEW p \in Procs, NEW a \in VA, NEW v \in Values,
         Store(p, a, v) \/ CopyOut(p, a, v)
  PROVE  IInv'
<1> DEFINE g == pt[p][a].pa
<1>1. /\ content' = [content EXCEPT ![g] = v]
      /\ want' = [want EXCEPT ![p] = [want[p] EXCEPT ![a] = v]]
      /\ UNCHANGED <<procVars, free, nextpid, bad>>
      /\ \/ pt[p][a].w /\ through' = through
         \/ g # NoPage /\ through' = (through \/ Places(g) # {<<p, a>>})
  BY DEF Store, CopyOut
<1>2. TypeInv /\ ShapeInv
  BY DEF IInv, Owners
<1>3. g \in Pages
  <2>1. pt[p][a] \in Pte /\ g # NoPage
    <3>1. pt[p][a] \in Pte
      BY <1>2, PteType
    <3>2. g # NoPage
      BY <1>1, <1>2 DEF ShapeInv
    <3> QED BY <3>1, <3>2
  <2> QED BY <2>1 DEF Pte
<1>4. /\ content' \in [Pages -> Values \cup {0, Junk}]
      /\ want' \in [Procs -> [VA -> Values \cup {0}]] /\ through' \in BOOLEAN
  BY <1>1, <1>2, <1>3 DEF TypeInv
<1>5. TypeInv' /\ ShapeInv'
  BY <1>1, <1>2, <1>4 DEF TypeInv, ShapeInv, procVars
<1>6. FreeInv' /\ PrivateInv'
  BY <1>1 DEF IInv, Owners, FreeInv, PrivateInv, Only, procVars
<1>7. Isolated'
  <2> SUFFICES ASSUME ~bad, ~through', NEW r \in Procs, NEW b \in VA,
                      ps[r] = "ALIVE", b < sz[r]
               PROVE  content'[pt[r][b].pa] = want'[r][b]
    BY <1>1 DEF Isolated, procVars
  <2>1. ~through /\ Only(p, a)
    <3>1. CASE pt[p][a].w /\ through' = through
      BY <3>1 DEF IInv, Owners, PrivateInv
    <3>2. CASE through' = (through \/ Places(g) # {<<p, a>>})
      BY <3>2, PlacesOne
    <3> QED BY <1>1, <3>1, <3>2
  <2>2. content[pt[r][b].pa] = want[r][b]
    BY <2>1 DEF IInv, Isolated
  <2>3. content \in [Pages -> Values \cup {0, Junk}] /\ pt[r][b].pa \in Pages
    <3>1. pt[r][b] \in Pte /\ pt[r][b].pa # NoPage
      BY <1>2 DEF TypeInv
    <3> QED BY <1>2, <3>1 DEF Pte, TypeInv
  <2>4. want \in [Procs -> [VA -> Values \cup {0}]]
    BY <1>2 DEF TypeInv
  <2> HIDE DEF g
  <2>5. CASE r = p /\ b = a
    <3>1. content'[g] = v /\ want'[p][a] = v
      BY <1>1, <1>3, <2>3, <2>4
    <3> QED BY <2>5, <3>1 DEF g
  <2>6. CASE ~(r = p /\ b = a)
    <3>1. pt[r][b].pa # g
      BY <2>1, <2>6 DEF Only, g
    <3>2. content'[pt[r][b].pa] = content[pt[r][b].pa]
      BY <1>1, <1>3, <2>3, <3>1
    <3>3. want'[r][b] = want[r][b]
      BY <1>1, <2>4, <2>6
    <3> QED BY <2>2, <3>2, <3>3
  <2> QED BY <2>5, <2>6
<1> QED BY <1>5, <1>6, <1>7 DEF IInv, Owners

(* A step that takes a set S of pages off the free list and maps each of   *)
(* them at most once, at places `fresh'; exec() moves what was there to    *)
(* `old'.                                                                  *)
Allocates(S, fresh) ==
  /\ S \subseteq free /\ free' = free \ S /\ UNCHANGED <<bad, through>>
  /\ \A g \in Pages : g \notin S => content'[g] = content[g]
  /\ \A r \in Procs, b \in VA :
       /\ <<r, b>> \in fresh => pt'[r][b].pa \in S \cup {NoPage}
       /\ <<r, b>> \notin fresh => pt'[r][b] = pt[r][b]
       /\ \/ old'[r][b].pa = old[r][b].pa
          \/ <<r, b>> \in fresh /\ old'[r][b].pa = pt[r][b].pa
  /\ \A r, t \in Procs, b, c \in VA :
       <<r, b>> \in fresh /\ <<t, c>> \in fresh /\ pt'[r][b].pa = pt'[t][c].pa
         => pt'[r][b].pa = NoPage \/ (r = t /\ b = c)
  /\ \A r \in Procs, b \in VA : ps'[r] = "ALIVE" /\ b < sz'[r] =>
       /\ <<r, b>> \in fresh /\ ~bad /\ ~through => content'[pt'[r][b].pa] = want'[r][b]
       /\ <<r, b>> \notin fresh =>
            ps[r] = "ALIVE" /\ b < sz[r] /\ want'[r][b] = want[r][b]

(* A step that unmaps the places `gone' and frees pages S.                 *)
Frees(S, gone) ==
  /\ Kfree(S, gone) /\ S \subseteq Pages /\ UNCHANGED through
  /\ \A r \in Procs, b \in VA :
       /\ IF <<r, b>> \in gone THEN pt'[r][b].pa = NoPage ELSE pt'[r][b] = pt[r][b]
       /\ IF <<r, MaxVA + b>> \in gone THEN old'[r][b].pa = NoPage
          ELSE old'[r][b] = old[r][b]
       /\ ps'[r] = "ALIVE" /\ b < sz'[r] =>
            /\ <<r, b>> \notin gone /\ ps[r] = "ALIVE" /\ b < sz[r]
            /\ want'[r][b] = want[r][b]

(* A page off the free list was mapped nowhere, so its new place is its only one.*)
LEMMA AllocInv ==
  ASSUME IInv, TypeInv', ShapeInv', NEW S, NEW fresh, Allocates(S, fresh)
  PROVE  IInv'
<1> USE DEF Allocates
<1>0. TypeInv /\ NoPage \notin free /\ S \subseteq Pages
  BY CowAssumption DEF IInv, Owners, TypeInv
<1>1. ASSUME ~bad, NEW r \in Procs, NEW b \in VA
      PROVE  pt[r][b].pa \notin free /\ old[r][b].pa \notin free
  BY <1>1 DEF IInv, Owners, FreeInv
<1>2. FreeInv'
  <2> SUFFICES ASSUME ~bad, NEW r \in Procs, NEW b \in VA
               PROVE  pt'[r][b].pa \notin free' /\ old'[r][b].pa \notin free'
    BY DEF FreeInv
  <2> QED BY <1>0, <1>1
<1>3. PrivateInv'
  <2> SUFFICES ASSUME ~bad, NEW p \in Procs, NEW a \in VA, pt'[p][a].w
               PROVE  Only(p, a)'
    BY DEF PrivateInv
  <2>1. pt'[p][a].pa # NoPage
    BY DEF ShapeInv
  <2>2. CASE <<p, a>> \in fresh
    <3>1. pt'[p][a].pa \in S
      BY <2>1, <2>2
    <3>2. ASSUME NEW r \in Procs, NEW b \in VA, pt'[r][b].pa = pt'[p][a].pa
          PROVE  r = p /\ b = a
      <4>1. <<r, b>> \in fresh
        BY <1>1, <3>1, <3>2
      <4> QED BY <2>1, <2>2, <3>2, <4>1
    <3>3. ASSUME NEW r \in Procs, NEW b \in VA
          PROVE  old'[r][b].pa # pt'[p][a].pa
      BY <1>1, <3>1, ZenonT(60)
    <3> QED BY <3>2, <3>3 DEF Only
  <2>3. CASE <<p, a>> \notin fresh
    <3>1. pt'[p][a] = pt[p][a] /\ Only(p, a) /\ pt[p][a].pa \notin S \cup {NoPage}
      BY <1>1, <2>1, <2>3 DEF IInv, Owners, PrivateInv
    <3>2. ASSUME NEW r \in Procs, NEW b \in VA, pt'[r][b].pa = pt'[p][a].pa
          PROVE  r = p /\ b = a
      <4>1. <<r, b>> \notin fresh
        BY <3>1, <3>2
      <4> QED BY <3>1, <3>2, <4>1 DEF Only
    <3>3. ASSUME NEW r \in Procs, NEW b \in VA
          PROVE  old'[r][b].pa # pt'[p][a].pa
      <4>1. CASE old'[r][b].pa = old[r][b].pa
        BY <3>1, <4>1 DEF Only
      <4>2. CASE <<r, b>> \in fresh /\ old'[r][b].pa = pt[r][b].pa
        <5>1. ~(r = p /\ b = a)
          BY <2>3, <4>2
        <5> QED BY <3>1, <4>2, <5>1 DEF Only
      <4> QED BY <4>1, <4>2
    <3> QED BY <3>2, <3>3 DEF Only
  <2> QED BY <2>2, <2>3
<1>4. Isolated'
  <2> SUFFICES ASSUME ~bad, ~through, NEW r \in Procs, NEW b \in VA,
                      ps'[r] = "ALIVE", b < sz'[r]
               PROVE  content'[pt'[r][b].pa] = want'[r][b]
    BY DEF Isolated
  <2>1. CASE <<r, b>> \in fresh
    BY <2>1
  <2>2. CASE <<r, b>> \notin fresh
    <3>1. /\ ps[r] = "ALIVE" /\ b < sz[r] /\ want'[r][b] = want[r][b]
          /\ pt'[r][b] = pt[r][b]
      BY <2>2
    <3>2. pt[r][b].pa \in Pages /\ pt[r][b].pa \notin S
      <4>1. pt[r][b].pa # NoPage
        BY <1>0, <3>1 DEF TypeInv
      <4> QED BY <1>0, <1>1, <4>1, PteType
    <3>3. content[pt[r][b].pa] = want[r][b]
      BY <3>1 DEF IInv, Isolated
    <3> QED BY <3>1, <3>2, <3>3
  <2> QED BY <2>1, <2>2
<1> QED BY <1>2, <1>3, <1>4 DEF IInv, Owners

(* The pages freed were mapped at the places `gone' only: Kfree looked.    *)
LEMMA FreeingInv ==
  ASSUME IInv, TypeInv', ShapeInv', NEW S, NEW gone, Frees(S, gone)
  PROVE  IInv'
<1> USE DEF Frees
<1>0. TypeInv /\ NoPage \notin free \cup S /\ NoPage \notin Pages
  BY CowAssumption DEF IInv, Owners, TypeInv
<1>1. CASE bad'
  BY <1>1 DEF IInv, Owners, FreeInv, PrivateInv, Isolated
<1>2. CASE ~bad'
  <2>1. /\ ~bad /\ free' = free \cup S
        /\ content' = [g \in Pages |-> IF g \in S THEN Junk ELSE content[g]]
        /\ \A r \in Procs, b \in VA :
             /\ pt[r][b].pa \in S => <<r, b>> \in gone
             /\ old[r][b].pa \in S => <<r, MaxVA + b>> \in gone
    BY <1>2, KfreeHarmless
  <2>2. ASSUME NEW r \in Procs, NEW b \in VA
        PROVE  pt[r][b].pa \notin free /\ old[r][b].pa \notin free
    BY <2>1 DEF IInv, Owners, FreeInv
  <2>3. FreeInv'
    <3>1. ASSUME NEW r \in Procs, NEW b \in VA
          PROVE  pt'[r][b].pa \notin free' /\ old'[r][b].pa \notin free'
      <4>1. pt'[r][b].pa \notin free'
        BY <1>0, <2>1, <2>2
      <4>2. old'[r][b].pa \notin free'
        BY <1>0, <2>1, <2>2
      <4> QED BY <4>1, <4>2
    <3> QED BY <3>1 DEF FreeInv
  <2>4. PrivateInv'
    <3> SUFFICES ASSUME NEW p \in Procs, NEW a \in VA, pt'[p][a].w
                 PROVE  Only(p, a)'
      BY DEF PrivateInv
    <3>1. pt'[p][a].pa # NoPage
      BY DEF ShapeInv
    <3>2. pt'[p][a] = pt[p][a]
      BY <3>1
    <3>3. Only(p, a)
      BY <2>1, <3>2 DEF IInv, Owners, PrivateInv
    <3>4. ASSUME NEW r \in Procs, NEW b \in VA, pt'[r][b].pa = pt'[p][a].pa
          PROVE  r = p /\ b = a
      <4>1. pt'[r][b] = pt[r][b]
        BY <3>1, <3>4
      <4> QED BY <3>2, <3>3, <3>4, <4>1 DEF Only
    <3>5. ASSUME NEW r \in Procs, NEW b \in VA, old'[r][b].pa = pt'[p][a].pa
          PROVE  FALSE
      <4>1. old'[r][b] = old[r][b]
        BY <3>1, <3>5
      <4> QED BY <3>2, <3>3, <3>5, <4>1 DEF Only
    <3> QED BY <3>4, <3>5 DEF Only
  <2>5. Isolated'
    <3> SUFFICES ASSUME ~through, NEW r \in Procs, NEW b \in VA,
                        ps'[r] = "ALIVE", b < sz'[r]
                 PROVE  content'[pt'[r][b].pa] = want'[r][b]
      BY DEF Isolated
    <3>1. /\ pt'[r][b] = pt[r][b] /\ <<r, b>> \notin gone
          /\ want'[r][b] = want[r][b] /\ ps[r] = "ALIVE" /\ b < sz[r]
      OBVIOUS
    <3>2. pt[r][b].pa \in Pages /\ pt[r][b].pa \notin S
      <4>1. pt[r][b].pa # NoPage
        BY <1>0, <3>1 DEF TypeInv
      <4>2. pt[r][b].pa \notin S
        BY <2>1, <3>1
      <4> QED BY <1>0, <4>1, <4>2, PteType
    <3>3. content[pt[r][b].pa] = want[r][b]
      BY <2>1, <3>1 DEF IInv, Isolated
    <3> QED BY <2>1, <3>1, <3>2, <3>3
  <2> QED BY <2>3, <2>4, <2>5 DEF IInv, Owners
<1> QED BY <1>1, <1>2

(* The fault gives the process a page of its own, filled from the shared   *)
(* one.                                                                    *)
LEMMA CopyOnWriteInv ==
  ASSUME IInv, NEW p \in Procs, NEW a \in VA, copy_on_write(p, a)
  PROVE  IInv'
<1>1. CASE Panic("copy_on_write: no page")
  BY <1>1, PanicInv
<1>2. CASE ~Panic("copy_on_write: no page")
  <2> DEFINE g == pt[p][a].pa
             copy(m) == [pa |-> m, w |-> TRUE]
  <2>1. PICK m \in free :
        /\ free' = free \ {m}
        /\ content' = [content EXCEPT ![m] = content[g]]
        /\ pt' = [pt EXCEPT ![p] = [pt[p] EXCEPT ![a] = copy(m)]]
        /\ g # NoPage /\ ps[p] = "ALIVE"
        /\ UNCHANGED <<ps, at, pid, parent, sz, old, cow_enabled, cow_group,
                       nextpid, want, bad, through>>
    BY <1>2 DEF copy_on_write, Copied, User
  <2>2. TypeInv /\ ShapeInv
    BY DEF IInv, Owners
  <2>3. m \in Pages /\ m # NoPage /\ g \in Pages /\ free \subseteq Pages
    <3>1. free \subseteq Pages
      BY <2>2 DEF TypeInv
    <3> QED BY <2>1, <2>2, <3>1, PteType, CowAssumption
  <2>4. copy(m) \in Pte /\ copy(m).pa = m
    BY <2>3 DEF Pte
  <2> HIDE DEF g, copy
  <2>5. \A r \in Procs, b \in VA :
          pt'[r][b] = IF r = p /\ b = a THEN copy(m) ELSE pt[r][b]
    <3>1. pt \in [Procs -> [VA -> Pte]]
      BY <2>2 DEF TypeInv
    <3> QED BY <2>1, <3>1
  <2>6. TypeInv'
    <3>1. pt' \in [Procs -> [VA -> Pte]]
      BY <2>1, <2>2, <2>4 DEF TypeInv
    <3>2. content' \in [Pages -> Values \cup {0, Junk}]
      BY <2>1, <2>2, <2>3 DEF TypeInv
    <3>3. ASSUME NEW r \in Procs, NEW b \in VA
          PROVE  pt'[r][b].pa # NoPage <=> b < sz'[r]
      <4>1. pt[r][b].pa # NoPage <=> b < sz[r]
        BY <2>2 DEF TypeInv
      <4>2. CASE r = p /\ b = a
        BY <2>1, <2>3, <2>4, <2>5, <4>1, <4>2 DEF g
      <4>3. CASE ~(r = p /\ b = a)
        BY <2>1, <2>5, <4>1, <4>3
      <4> QED BY <4>2, <4>3
    <3>4. free' \subseteq Pages
      BY <2>1, <2>3
    <3> QED BY <2>1, <2>2, <3>1, <3>2, <3>3, <3>4 DEF TypeInv
  <2>7. ShapeInv'
    BY <2>1, <2>2, <2>3, <2>4, <2>5 DEF ShapeInv
  <2> DEFINE fresh == {<<p, a>>}
  <2>8. \A r \in Procs, b \in VA : <<r, b>> \in fresh <=> r = p /\ b = a
    OBVIOUS
  <2>9. ~bad /\ ~through /\ a < sz[p] => content[g] = want[p][a]
    BY <2>1 DEF IInv, Isolated, g
  <2>10. /\ content'[m] = content[g]
         /\ \A x \in Pages : x # m => content'[x] = content[x]
    <3>1. content \in [Pages -> Values \cup {0, Junk}]
      BY <2>2 DEF TypeInv
    <3> QED BY <2>1, <2>3, <3>1
  <2>11. {m} \in SUBSET free /\ fresh \in SUBSET (Procs \X VA)
    BY <2>1
  <2> HIDE DEF fresh
  <2>12. \A r \in Procs, b \in VA :
           /\ <<r, b>> \in fresh => pt'[r][b].pa \in {m} \cup {NoPage}
           /\ <<r, b>> \notin fresh => pt'[r][b] = pt[r][b]
           /\ old'[r][b].pa = old[r][b].pa
    BY <2>1, <2>4, <2>5, <2>8, ZenonT(60)
  <2>13. \A r \in Procs, b \in VA : ps'[r] = "ALIVE" /\ b < sz'[r] =>
           /\ <<r, b>> \in fresh /\ ~bad /\ ~through => content'[pt'[r][b].pa] = want'[r][b]
           /\ <<r, b>> \notin fresh => ps[r] = "ALIVE" /\ b < sz[r] /\ want'[r][b] = want[r][b]
    BY <2>1, <2>4, <2>5, <2>8, <2>9, <2>10
  <2>14. Allocates({m}, fresh)
    BY <2>1, <2>8, <2>10, <2>11, <2>12, <2>13 DEF Allocates
  <2> QED BY <2>6, <2>7, <2>14, AllocInv
<1> QED BY <1>1, <1>2

(* A page more, zeroed.                                                    *)
LEMMA SbrkGrowInv ==
  ASSUME IInv, NEW p \in Procs, SbrkGrow(p)
  PROVE  IInv'
<1> DEFINE a == sz[p]
           copy(m) == [pa |-> m, w |-> TRUE]
<1>1. PICK m \in free :
      /\ free' = free \ {m}
      /\ content' = [content EXCEPT ![m] = 0]
      /\ pt' = [pt EXCEPT ![p] = [pt[p] EXCEPT ![a] = copy(m)]]
      /\ want' = [want EXCEPT ![p] = [want[p] EXCEPT ![a] = 0]]
      /\ sz' = [sz EXCEPT ![p] = a + 1]
      /\ sz[p] < MaxVA /\ ps[p] = "ALIVE"
      /\ UNCHANGED <<ps, at, pid, parent, old, cow_enabled, cow_group,
                     nextpid, bad, through>>
  BY DEF SbrkGrow, User
<1>2. TypeInv /\ ShapeInv
  BY DEF IInv, Owners
<1>3. m \in Pages /\ m # NoPage /\ free \subseteq Pages
  <2>1. free \subseteq Pages
    BY <1>2 DEF TypeInv
  <2> QED BY <1>1, <2>1, CowAssumption
<1>4. copy(m) \in Pte /\ copy(m).pa = m
  BY <1>3 DEF Pte
<1>5. a \in VA /\ a + 1 \in 0 .. MaxVA /\ a \in Nat
  <2>1. sz[p] \in 0 .. MaxVA
    BY <1>2 DEF TypeInv
  <2> QED BY <1>1, <2>1, CowAssumption
<1> HIDE DEF a, copy
<1>6. \A r \in Procs, b \in VA :
        /\ pt'[r][b] = IF r = p /\ b = a THEN copy(m) ELSE pt[r][b]
        /\ want'[r][b] = IF r = p /\ b = a THEN 0 ELSE want[r][b]
  <2>1. pt \in [Procs -> [VA -> Pte]] /\ want \in [Procs -> [VA -> Values \cup {0}]]
    BY <1>2 DEF TypeInv
  <2> QED BY <1>1, <2>1
<1>7. \A r \in Procs : sz'[r] = IF r = p THEN a + 1 ELSE sz[r]
  BY <1>1, <1>2 DEF TypeInv
<1>8. TypeInv'
  <2>1. pt' \in [Procs -> [VA -> Pte]]
    BY <1>1, <1>2, <1>4 DEF TypeInv
  <2>2. content' \in [Pages -> Values \cup {0, Junk}]
    BY <1>1, <1>2, <1>3 DEF TypeInv
  <2>3. ASSUME NEW r \in Procs, NEW b \in VA
        PROVE  pt'[r][b].pa # NoPage <=> b < sz'[r]
    <3>1. pt[r][b].pa # NoPage <=> b < sz[r]
      BY <1>2 DEF TypeInv
    <3>2. CASE r = p /\ b = a
      BY <1>3, <1>4, <1>5, <1>6, <1>7, <3>2
    <3>3. CASE r = p /\ b # a
      <4>1. b < a + 1 <=> b < a
        BY <1>5, <3>3, CowAssumption
      <4> QED BY <1>6, <1>7, <3>1, <3>3, <4>1 DEF a
    <3>4. CASE r # p
      BY <1>6, <1>7, <3>1, <3>4
    <3> QED BY <3>2, <3>3, <3>4
  <2>4. free' \subseteq Pages
    BY <1>1, <1>3
  <2>5. want' \in [Procs -> [VA -> Values \cup {0}]]
    BY <1>1, <1>2 DEF TypeInv
  <2>6. sz' \in [Procs -> 0 .. MaxVA]
    BY <1>1, <1>2, <1>5 DEF TypeInv
  <2> QED BY <1>1, <1>2, <2>1, <2>2, <2>3, <2>4, <2>5, <2>6 DEF TypeInv
<1>9. ShapeInv'
  BY <1>1, <1>2, <1>3, <1>4, <1>6, <1>7 DEF ShapeInv
<1> DEFINE fresh == {<<p, a>>}
<1>10. \A r \in Procs, b \in VA : <<r, b>> \in fresh <=> r = p /\ b = a
  OBVIOUS
<1>11. content'[m] = 0 /\ \A x \in Pages : x # m => content'[x] = content[x]
  <2>1. content \in [Pages -> Values \cup {0, Junk}]
    BY <1>2 DEF TypeInv
  <2> QED BY <1>1, <1>3, <2>1
<1>12. {m} \in SUBSET free /\ fresh \in SUBSET (Procs \X VA)
  BY <1>1, <1>5
<1> HIDE DEF fresh
<1>13. \A r \in Procs, b \in VA :
         /\ <<r, b>> \in fresh => pt'[r][b].pa \in {m} \cup {NoPage}
         /\ <<r, b>> \notin fresh => pt'[r][b] = pt[r][b]
         /\ old'[r][b].pa = old[r][b].pa
  <2>1. old' = old
    BY <1>1
  <2> QED BY <1>4, <1>6, <1>10, <2>1
<1>14. ASSUME NEW r \in Procs, NEW b \in VA, ps'[r] = "ALIVE", b < sz'[r]
       PROVE  /\ <<r, b>> \in fresh => content'[pt'[r][b].pa] = want'[r][b]
              /\ <<r, b>> \notin fresh => ps[r] = "ALIVE" /\ b < sz[r] /\ want'[r][b] = want[r][b]
  <2>1. CASE r = p /\ b = a
    BY <1>4, <1>6, <1>10, <1>11, <2>1
  <2>2. CASE r = p /\ b # a
    <3>1. b < a
      BY <1>5, <1>7, <1>14, <2>2, CowAssumption
    <3> QED BY <1>1, <1>6, <1>10, <1>14, <2>2, <3>1 DEF a
  <2>3. CASE r # p
    BY <1>1, <1>6, <1>7, <1>10, <1>14, <2>3
  <2> QED BY <2>1, <2>2, <2>3
<1>15. Allocates({m}, fresh)
  BY <1>1, <1>10, <1>11, <1>12, <1>13, <1>14 DEF Allocates
<1> QED BY <1>8, <1>9, <1>15, AllocInv

(* The last page is unmapped and, unless the group spares it, freed.       *)
LEMMA SbrkShrinkInv ==
  ASSUME IInv, NEW p \in Procs, SbrkShrink(p)
  PROVE  IInv'
<1>1. CASE Panic("null cow group")
  BY <1>1, PanicInv
<1>2. CASE ~Panic("null cow group")
  <2> DEFINE a == sz[p] - 1
             g == pt[p][a].pa
             S == IF Spared(p, g) THEN {} ELSE {g}
             gone == {<<p, a>>}
  <2>1. /\ Kfree(S, gone)
        /\ pt' = [pt EXCEPT ![p] = [pt[p] EXCEPT ![a] = Unmapped]]
        /\ sz' = [sz EXCEPT ![p] = a]
        /\ want' = [want EXCEPT ![p] = [want[p] EXCEPT ![a] = 0]]
        /\ sz[p] > 0 /\ ps[p] = "ALIVE"
        /\ UNCHANGED <<ps, at, pid, parent, old, cow_enabled, cow_group, nextpid, through>>
    BY <1>2 DEF SbrkShrink, User
  <2>2. TypeInv /\ ShapeInv
    BY DEF IInv, Owners
  <2>3. a \in VA /\ a \in 0 .. MaxVA /\ a < sz[p] /\ sz[p] = a + 1
    <3>1. sz[p] \in 0 .. MaxVA
      BY <2>2 DEF TypeInv
    <3> QED BY <2>1, <3>1, CowAssumption
  <2>4. g \in Pages
    <3>1. g # NoPage
      BY <2>2, <2>3 DEF TypeInv
    <3> QED BY <2>2, <2>3, <3>1, PteType
  <2>5. S \in SUBSET Pages
    BY <2>4
  <2>6. /\ \A r \in Procs, b \in VA : <<r, b>> \in gone <=> r = p /\ b = a
        /\ \A r \in Procs, b \in VA : <<r, MaxVA + b>> \notin gone
    BY <2>3, CowAssumption
  <2> HIDE DEF a, g, S, gone
  <2>7. /\ free' \subseteq Pages /\ bad' \in BOOLEAN
        /\ content' \in [Pages -> Values \cup {0, Junk}]
    BY <2>1, <2>2, <2>5, KfreeTypes
  <2>8. \A r \in Procs, b \in VA :
          /\ pt'[r][b] = IF r = p /\ b = a THEN Unmapped ELSE pt[r][b]
          /\ want'[r][b] = IF r = p /\ b = a THEN 0 ELSE want[r][b]
    <3>1. pt \in [Procs -> [VA -> Pte]] /\ want \in [Procs -> [VA -> Values \cup {0}]]
      BY <2>2 DEF TypeInv
    <3> QED BY <2>1, <2>3, <3>1
  <2>9. \A r \in Procs : sz'[r] = IF r = p THEN a ELSE sz[r]
    BY <2>1, <2>2 DEF TypeInv
  <2>10. \A b \in VA : (b < a <=> b < a + 1 /\ b # a)
    BY <2>3, CowAssumption
  <2>11. TypeInv'
    <3>1. pt' \in [Procs -> [VA -> Pte]]
      BY <2>1, <2>2, UnmappedType DEF TypeInv
    <3>2. ASSUME NEW r \in Procs, NEW b \in VA
          PROVE  pt'[r][b].pa # NoPage <=> b < sz'[r]
      <4>1. pt[r][b].pa # NoPage <=> b < sz[r]
        BY <2>2 DEF TypeInv
      <4>2. CASE r = p
        BY <2>3, <2>8, <2>9, <2>10, <4>1, <4>2, UnmappedType
      <4>3. CASE r # p
        BY <2>8, <2>9, <4>1, <4>3
      <4> QED BY <4>2, <4>3
    <3>3. want' \in [Procs -> [VA -> Values \cup {0}]]
      BY <2>1, <2>2 DEF TypeInv
    <3>4. sz' \in [Procs -> 0 .. MaxVA]
      BY <2>1, <2>2, <2>3 DEF TypeInv
    <3> QED BY <2>1, <2>2, <2>7, <3>1, <3>2, <3>3, <3>4 DEF TypeInv
  <2>12. ShapeInv'
    <3>1. ASSUME NEW r \in Procs, NEW b \in VA, pt'[r][b].w
          PROVE  pt'[r][b].pa # NoPage
      <4>1. pt'[r][b] = pt[r][b]
        BY <2>8, <3>1, UnmappedType
      <4> QED BY <2>2, <3>1, <4>1 DEF ShapeInv
    <3>2. \A r \in Procs : ps[r] = "UNUSED" => sz'[r] = 0
      BY <2>1, <2>2, <2>9 DEF ShapeInv
    <3> QED BY <2>1, <2>2, <3>1, <3>2 DEF ShapeInv
  <2>13. ASSUME NEW r \in Procs, NEW b \in VA
         PROVE  /\ IF <<r, b>> \in gone THEN pt'[r][b].pa = NoPage ELSE pt'[r][b] = pt[r][b]
                /\ old'[r][b] = old[r][b]
                /\ ps'[r] = "ALIVE" /\ b < sz'[r] =>
                     /\ <<r, b>> \notin gone /\ ps[r] = "ALIVE" /\ b < sz[r]
                     /\ want'[r][b] = want[r][b]
    <3>1. CASE r = p /\ b = a
      BY <2>1, <2>6, <2>8, <2>9, <2>10, <3>1, UnmappedType
    <3>2. CASE r = p /\ b # a
      BY <2>1, <2>3, <2>6, <2>8, <2>9, <2>10, <3>2
    <3>3. CASE r # p
      BY <2>1, <2>6, <2>8, <2>9, <3>3
    <3> QED BY <3>1, <3>2, <3>3
  <2>14. Frees(S, gone)
    BY <2>1, <2>5, <2>6, <2>13 DEF Frees
  <2> QED BY <2>11, <2>12, <2>14, FreeingInv
<1> QED BY <1>1, <1>2

(* exec() unmaps and frees the next page of the old table, or is done.     *)
LEMMA ExecFreeInv ==
  ASSUME IInv, NEW p \in Procs, ExecFree(p)
  PROVE  IInv'
<1> DEFINE todo == {b \in VA : old[p][b].pa # NoPage}
<1>0. TypeInv /\ ShapeInv
  BY DEF IInv, Owners
<1>1. CASE Panic("null cow group")
  BY <1>1, PanicInv
<1>2. CASE ~Panic("null cow group") /\ todo = {}
  <2>1. /\ at' = [at EXCEPT ![p] = "user"]
        /\ UNCHANGED <<ps, pid, parent, sz, pt, old, cow_enabled, cow_group,
                       grp, free, content, nextpid, panic, want, bad, through>>
    BY <1>2 DEF ExecFree
  <2>2. \A r \in Procs : at'[r] = IF r = p THEN "user" ELSE at[r]
    BY <1>0, <2>1 DEF TypeInv
  <2>3. TypeInv'
    BY <1>0, <2>1 DEF TypeInv
  <2>4. ShapeInv'
    BY <1>0, <1>2, <2>1, <2>2 DEF ShapeInv
  <2> QED BY <2>1, <2>3, <2>4, FrameInv
<1>3. CASE ~Panic("null cow group") /\ todo # {}
  <2>1. PICK a \in todo :
        /\ Kfree(IF Spared(p, old[p][a].pa) THEN {} ELSE {old[p][a].pa}, {<<p, MaxVA + a>>})
        /\ old' = [old EXCEPT ![p] = [old[p] EXCEPT ![a] = Unmapped]]
        /\ at[p] = "free"
        /\ UNCHANGED <<ps, at, pid, parent, sz, pt, cow_enabled, cow_group,
                       nextpid, want, through>>
    BY <1>3 DEF ExecFree
  <2> DEFINE g == old[p][a].pa
             S == IF Spared(p, g) THEN {} ELSE {g}
             gone == {<<p, MaxVA + a>>}
  <2>2. a \in VA /\ g # NoPage
    BY <2>1
  <2>3. S \in SUBSET Pages
    BY <1>0, <2>2, PteType
  <2>4. /\ \A r \in Procs, b \in VA : <<r, MaxVA + b>> \in gone <=> r = p /\ b = a
        /\ \A r \in Procs, b \in VA : <<r, b>> \notin gone
    BY <2>2, CowAssumption
  <2>5. Kfree(S, gone)
    BY <2>1
  <2> HIDE DEF todo, g, S, gone
  <2>6. /\ free' \subseteq Pages /\ bad' \in BOOLEAN
        /\ content' \in [Pages -> Values \cup {0, Junk}]
    BY <1>0, <2>3, <2>5, KfreeTypes
  <2>7. \A r \in Procs, b \in VA :
          old'[r][b] = IF r = p /\ b = a THEN Unmapped ELSE old[r][b]
    <3>1. old \in [Procs -> [VA -> Pte]]
      BY <1>0 DEF TypeInv
    <3> QED BY <2>1, <2>2, <3>1
  <2>8. old' \in [Procs -> [VA -> Pte]]
    BY <1>0, <2>1, UnmappedType DEF TypeInv
  <2>9. TypeInv'
    BY <1>0, <2>1, <2>6, <2>8 DEF TypeInv
  <2>10. ShapeInv'
    <3>1. \A r \in Procs, b \in VA : old[r][b].pa = NoPage => old'[r][b].pa = NoPage
      BY <2>7, UnmappedType
    <3> QED BY <1>0, <2>1, <3>1 DEF ShapeInv
  <2>11. \A r \in Procs, b \in VA :
           IF <<r, MaxVA + b>> \in gone THEN old'[r][b].pa = NoPage
           ELSE old'[r][b] = old[r][b]
    BY <2>4, <2>7, UnmappedType
  <2>12. Frees(S, gone)
    BY <2>1, <2>3, <2>4, <2>5, <2>11 DEF Frees
  <2> QED BY <2>9, <2>10, <2>12, FreeingInv
<1> QED BY <1>1, <1>2, <1>3

(* wait() frees what the zombie alone had mapped.                          *)
LEMMA WaitInv ==
  ASSUME IInv, NEW p \in Procs, NEW q \in Procs, Wait(p, q)
  PROVE  IInv'
<1>1. CASE Panic("null cow group")
  BY <1>1, PanicInv
<1>2. CASE ~Panic("null cow group")
  <2> DEFINE S == {g \in PagesOf(pt[q]) : ~Spared(p, g)}
             gone == {q} \X VA
             Nothing == [a \in VA |-> 0]
  <2>1. /\ Kfree(S, gone)
        /\ ps' = [ps EXCEPT ![q] = "UNUSED"]
        /\ pid' = [pid EXCEPT ![q] = 0]
        /\ parent' = [parent EXCEPT ![q] = 0]
        /\ sz' = [sz EXCEPT ![q] = 0]
        /\ pt' = [pt EXCEPT ![q] = NoTable]
        /\ want' = [want EXCEPT ![q] = Nothing]
        /\ ps[q] = "ZOMBIE"
        /\ UNCHANGED <<at, old, cow_enabled, cow_group, nextpid, through>>
    BY <1>2 DEF Wait
  <2>2. TypeInv /\ ShapeInv
    BY DEF IInv, Owners
  <2>3. S \in SUBSET Pages
    BY <2>2, PteType DEF PagesOf
  <2>4. /\ \A r \in Procs, b \in VA : <<r, b>> \in gone <=> r = q
        /\ \A r \in Procs, b \in VA : <<r, MaxVA + b>> \notin gone
    BY CowAssumption
  <2>5. Nothing \in [VA -> Values \cup {0}]
    OBVIOUS
  <2> HIDE DEF S, gone, Nothing
  <2>6. /\ free' \subseteq Pages /\ bad' \in BOOLEAN
        /\ content' \in [Pages -> Values \cup {0, Junk}]
    BY <2>1, <2>2, <2>3, KfreeTypes
  <2>7. /\ \A r \in Procs : /\ ps'[r] = IF r = q THEN "UNUSED" ELSE ps[r]
                            /\ sz'[r] = IF r = q THEN 0 ELSE sz[r]
        /\ \A r \in Procs : r # q => pt'[r] = pt[r] /\ want'[r] = want[r]
        /\ \A b \in VA : pt'[q][b] = Unmapped
    BY <2>1, <2>2, UnmappedType DEF TypeInv
  <2>8. TypeInv'
    <3>1. pt' \in [Procs -> [VA -> Pte]] /\ want' \in [Procs -> [VA -> Values \cup {0}]]
      BY <2>1, <2>2, <2>5, UnmappedType DEF TypeInv
    <3>2. /\ sz' \in [Procs -> 0 .. MaxVA] /\ pid' \in [Procs -> 0 .. MaxPid]
          /\ parent' \in [Procs -> 0 .. NPROC]
      <4>0. 0 \in 0 .. MaxVA /\ 0 \in 0 .. MaxPid /\ 0 \in 0 .. NPROC
        BY CowAssumption
      <4>1. sz' \in [Procs -> 0 .. MaxVA]
        BY <2>1, <2>2, <4>0 DEF TypeInv
      <4>2. pid' \in [Procs -> 0 .. MaxPid]
        BY <2>1, <2>2, <4>0 DEF TypeInv
      <4>3. parent' \in [Procs -> 0 .. NPROC]
        BY <2>1, <2>2, <4>0 DEF TypeInv
      <4> QED BY <4>1, <4>2, <4>3
    <3>3. ps' \in [Procs -> {"UNUSED", "ALIVE", "ZOMBIE"}]
      BY <2>1, <2>2 DEF TypeInv
    <3>4. ASSUME NEW r \in Procs, NEW b \in VA
          PROVE  pt'[r][b].pa # NoPage <=> b < sz'[r]
      <4>1. CASE r = q
        BY <2>7, <4>1, UnmappedType, VaNat
      <4>2. CASE r # q
        BY <2>2, <2>7, <4>2 DEF TypeInv
      <4> QED BY <4>1, <4>2
    <3> QED BY <2>1, <2>2, <2>6, <3>1, <3>2, <3>3, <3>4 DEF TypeInv
  <2>9. ShapeInv'
    <3>1. ASSUME NEW r \in Procs, NEW b \in VA, pt'[r][b].w
          PROVE  pt'[r][b].pa # NoPage
      BY <2>2, <2>7, <3>1, UnmappedType DEF ShapeInv
    <3> QED BY <2>1, <2>2, <2>7, <3>1 DEF ShapeInv
  <2>10. ASSUME NEW r \in Procs, NEW b \in VA
         PROVE  /\ IF <<r, b>> \in gone THEN pt'[r][b].pa = NoPage ELSE pt'[r][b] = pt[r][b]
                /\ old'[r][b] = old[r][b]
                /\ ps'[r] = "ALIVE" /\ b < sz'[r] =>
                     /\ <<r, b>> \notin gone /\ ps[r] = "ALIVE" /\ b < sz[r]
                     /\ want'[r][b] = want[r][b]
    <3>1. CASE r = q
      BY <2>1, <2>4, <2>7, <3>1, UnmappedType
    <3>2. CASE r # q
      BY <2>1, <2>4, <2>7, <3>2
    <3> QED BY <3>1, <3>2
  <2>11. Frees(S, gone)
    BY <2>1, <2>3, <2>4, <2>10 DEF Frees
  <2> QED BY <2>8, <2>9, <2>11, FreeingInv
<1> QED BY <1>1, <1>2

(* The new image takes pages of its own; the old table is set aside.       *)
LEMMA ExecCommitInv ==
  ASSUME IInv, NEW p \in Procs, ExecCommit(p)
  PROVE  IInv'
<1> DEFINE Image == 0 .. ImgSize - 1
<1>1. PICK f \in [Image -> free] :
      /\ \A a, b \in Image : f[a] = f[b] => a = b
      /\ pt' = [pt EXCEPT ![p] =
            [a \in VA |-> IF a < ImgSize THEN [pa |-> f[a], w |-> TRUE]
                          ELSE Unmapped]]
      /\ free' = free \ {f[a] : a \in Image}
      /\ content' = [g \in Pages |-> IF g \in {f[a] : a \in Image} THEN 0 ELSE content[g]]
  BY ZenonT(60) DEF ExecCommit
<1> DEFINE S == {f[a] : a \in Image}
           copy == [a \in VA |-> IF a < ImgSize THEN [pa |-> f[a], w |-> TRUE]
                                ELSE Unmapped]
           Nothing == [a \in VA |-> 0]
           fresh == {p} \X VA
<1>2. /\ old' = [old EXCEPT ![p] = pt[p]]
      /\ sz' = [sz EXCEPT ![p] = ImgSize]
      /\ at' = [at EXCEPT ![p] = "free"] /\ at[p] = "exec"
      /\ want' = [want EXCEPT ![p] = Nothing]
      /\ UNCHANGED <<ps, pid, parent, cow_enabled, cow_group, nextpid, bad, through>>
  BY DEF ExecCommit
<1>3. TypeInv /\ ShapeInv
  BY DEF IInv, Owners
<1>4. S \subseteq free /\ S \subseteq Pages /\ NoPage \notin S
  <2>1. free \subseteq Pages
    BY <1>3 DEF TypeInv
  <2> QED BY <2>1, CowAssumption
<1>5. \A a \in VA : a < ImgSize <=> a \in Image
  BY CowAssumption
<1>6. \A a \in VA :
        /\ a \in Image => copy[a] = [pa |-> f[a], w |-> TRUE] /\ f[a] \in S
        /\ a \notin Image => copy[a] = Unmapped
  BY <1>5
<1>7. \A a \in VA : \/ a \in Image /\ copy[a].pa = f[a] /\ f[a] \in S /\ copy[a] \in Pte
                    \/ a \notin Image /\ copy[a] = Unmapped /\ copy[a] \in Pte
  <2> TAKE a \in VA
  <2>1. CASE a \in Image
    <3>1. f[a] \in Pages \cup {NoPage}
      BY <1>4, <1>6, <2>1
    <3>2. [pa |-> f[a], w |-> TRUE] \in Pte
      BY <3>1 DEF Pte
    <3>3. copy[a] = [pa |-> f[a], w |-> TRUE]
      BY <1>6, <2>1
    <3> QED BY <1>6, <2>1, <3>2, <3>3
  <2>2. CASE a \notin Image
    BY <1>6, <2>2, UnmappedType
  <2> QED BY <2>1, <2>2
<1>8. pt' = [pt EXCEPT ![p] = copy] /\ copy \in [VA -> Pte] /\ ImgSize \in 0 .. MaxVA
  <2>1. \A a \in VA : copy[a] \in Pte
    BY <1>7
  <2>2. copy \in [VA -> Pte]
    BY <2>1
  <2> QED BY <1>1, <2>2, CowAssumption
<1>9. Nothing \in [VA -> Values \cup {0}] /\ \A a \in VA : Nothing[a] = 0
  OBVIOUS
<1>10. \A r \in Procs, b \in VA : <<r, b>> \in fresh <=> r = p
  OBVIOUS
<1>11. free' = free \ S /\ content' = [g \in Pages |-> IF g \in S THEN 0 ELSE content[g]]
  BY <1>1
<1> HIDE DEF Image, S, copy, Nothing, fresh
<1>12. /\ pt'[p] = copy /\ old'[p] = pt[p] /\ sz'[p] = ImgSize /\ want'[p] = Nothing
       /\ at'[p] = "free"
       /\ \A r \in Procs : r # p => /\ pt'[r] = pt[r] /\ old'[r] = old[r] /\ sz'[r] = sz[r]
                                    /\ want'[r] = want[r] /\ at'[r] = at[r]
  BY <1>2, <1>3, <1>8 DEF TypeInv
<1>13. TypeInv'
  <2>1. /\ pt' \in [Procs -> [VA -> Pte]] /\ old' \in [Procs -> [VA -> Pte]]
    BY <1>2, <1>3, <1>8 DEF TypeInv
  <2>2. sz' \in [Procs -> 0 .. MaxVA] /\ want' \in [Procs -> [VA -> Values \cup {0}]]
    BY <1>2, <1>3, <1>8, <1>9 DEF TypeInv
  <2>3. /\ free' \subseteq Pages /\ content' \in [Pages -> Values \cup {0, Junk}]
        /\ at' \in [Procs -> {"user", "exec", "free"}]
    BY <1>2, <1>3, <1>11 DEF TypeInv
  <2>4. ASSUME NEW r \in Procs, NEW b \in VA
        PROVE  pt'[r][b].pa # NoPage <=> b < sz'[r]
    <3>1. CASE r = p
      BY <1>4, <1>5, <1>7, <1>12, <3>1, UnmappedType
    <3>2. CASE r # p
      BY <1>3, <1>12, <3>2 DEF TypeInv
    <3> QED BY <3>1, <3>2
  <2> QED BY <1>2, <1>3, <2>1, <2>2, <2>3, <2>4 DEF TypeInv
<1>14. ShapeInv'
  <2>1. ps[p] = "ALIVE"
    BY <1>2, <1>3 DEF ShapeInv
  <2>2. ASSUME NEW b \in VA, copy[b].w PROVE copy[b].pa # NoPage
    BY <1>4, <1>7, <2>2, UnmappedType
  <2> QED BY <1>2, <1>3, <1>12, <2>1, <2>2 DEF ShapeInv
<1>15. \A g \in Pages : content'[g] = IF g \in S THEN 0 ELSE content[g]
  BY <1>11
<1>16. ASSUME NEW r \in Procs, NEW b \in VA
       PROVE  /\ <<r, b>> \in fresh => pt'[r][b].pa \in S \cup {NoPage}
              /\ <<r, b>> \notin fresh => pt'[r][b] = pt[r][b]
              /\ \/ old'[r][b].pa = old[r][b].pa
                 \/ <<r, b>> \in fresh /\ old'[r][b].pa = pt[r][b].pa
  <2>1. CASE r = p
    BY <1>7, <1>10, <1>12, <2>1, UnmappedType
  <2>2. CASE r # p
    BY <1>10, <1>12, <2>2
  <2> QED BY <2>1, <2>2
<1>17. ASSUME NEW r \in Procs, NEW t \in Procs, NEW b \in VA, NEW c \in VA,
              <<r, b>> \in fresh, <<t, c>> \in fresh, pt'[r][b].pa = pt'[t][c].pa
       PROVE  pt'[r][b].pa = NoPage \/ (r = t /\ b = c)
  <2>1. r = p /\ t = p /\ copy[b].pa = copy[c].pa /\ pt'[r][b].pa = copy[b].pa
    BY <1>10, <1>12, <1>17
  <2>2. CASE b \in Image /\ c \in Image
    BY <1>1, <1>7, <2>1, <2>2
  <2>3. CASE ~(b \in Image /\ c \in Image)
    BY <1>4, <1>7, <2>1, <2>3, UnmappedType
  <2> QED BY <2>2, <2>3
<1>18. ASSUME NEW r \in Procs, NEW b \in VA, ps'[r] = "ALIVE", b < sz'[r]
       PROVE  /\ <<r, b>> \in fresh => content'[pt'[r][b].pa] = want'[r][b]
              /\ <<r, b>> \notin fresh => ps[r] = "ALIVE" /\ b < sz[r] /\ want'[r][b] = want[r][b]
  <2>1. CASE r = p
    <3>1. b \in Image
      BY <1>5, <1>12, <1>18, <2>1
    <3>2. pt'[r][b].pa \in S /\ want'[r][b] = 0
      BY <1>7, <1>9, <1>12, <2>1, <3>1
    <3>3. content'[pt'[r][b].pa] = 0
      BY <1>4, <1>15, <3>2
    <3> QED BY <1>10, <2>1, <3>2, <3>3
  <2>2. CASE r # p
    BY <1>2, <1>10, <1>12, <1>18, <2>2
  <2> QED BY <2>1, <2>2
<1>19. Allocates(S, fresh)
  BY <1>2, <1>4, <1>11, <1>15, <1>16, <1>17, <1>18 DEF Allocates
<1> QED BY <1>13, <1>14, <1>19, AllocInv


(* What fork() sets for the child, whichever way it copies the pages.      *)
LEMMA BornFacts ==
  ASSUME TypeInv, ShapeInv, NEW p \in Procs, NEW q \in Procs, NEW tables,
         User(p), ChildSlot(q), nextpid <= MaxPid, Born(p, q, tables)
  PROVE  /\ p # q /\ sz[q] = 0 /\ pt' = tables /\ UNCHANGED old
         /\ ps[p] = "ALIVE" /\ at[p] = "user"
         /\ \A b \in VA : old[q][b].pa = NoPage
         /\ ps' \in [Procs -> {"UNUSED", "ALIVE", "ZOMBIE"}]
         /\ at' \in [Procs -> {"user", "exec", "free"}]
         /\ pid' \in [Procs -> 0 .. MaxPid] /\ parent' \in [Procs -> 0 .. NPROC]
         /\ sz' \in [Procs -> 0 .. MaxVA] /\ nextpid' \in 1 .. MaxPid + 1
         /\ want' \in [Procs -> [VA -> Values \cup {0}]]
         /\ ps'[q] = "ALIVE" /\ at'[q] = "user" /\ sz'[q] = sz[p] /\ want'[q] = want[p]
         /\ \A r \in Procs : r # q => /\ ps'[r] = ps[r] /\ at'[r] = at[r]
                                      /\ sz'[r] = sz[r] /\ want'[r] = want[r]
<1>1. /\ ps' = [ps EXCEPT ![q] = "ALIVE"] /\ at' = [at EXCEPT ![q] = "user"]
      /\ pid' = [pid EXCEPT ![q] = nextpid] /\ parent' = [parent EXCEPT ![q] = p]
      /\ sz' = [sz EXCEPT ![q] = sz[p]] /\ pt' = tables
      /\ want' = [want EXCEPT ![q] = want[p]] /\ nextpid' = nextpid + 1
      /\ UNCHANGED old
  BY DEF Born
<1>2. ps[p] = "ALIVE" /\ at[p] = "user" /\ ps[q] = "UNUSED"
  BY DEF User, ChildSlot
<1>3. p # q /\ sz[q] = 0 /\ at[q] = "user" /\ \A b \in VA : old[q][b].pa = NoPage
  BY <1>2 DEF ShapeInv
<1>4. nextpid \in 0 .. MaxPid /\ nextpid' \in 1 .. MaxPid + 1 /\ p \in 0 .. NPROC
  BY <1>1, CowAssumption DEF TypeInv
<1>5. /\ ps' \in [Procs -> {"UNUSED", "ALIVE", "ZOMBIE"}]
      /\ at' \in [Procs -> {"user", "exec", "free"}]
      /\ ps'[q] = "ALIVE" /\ at'[q] = "user"
      /\ \A r \in Procs : r # q => ps'[r] = ps[r] /\ at'[r] = at[r]
  BY <1>1 DEF TypeInv
<1>6. pid' \in [Procs -> 0 .. MaxPid]
  BY <1>1, <1>4 DEF TypeInv
<1>7. parent' \in [Procs -> 0 .. NPROC]
  BY <1>1, <1>4 DEF TypeInv
<1>8. /\ sz' \in [Procs -> 0 .. MaxVA] /\ sz'[q] = sz[p]
      /\ \A r \in Procs : r # q => sz'[r] = sz[r]
  BY <1>1 DEF TypeInv
<1>9. /\ want' \in [Procs -> [VA -> Values \cup {0}]] /\ want'[q] = want[p]
      /\ \A r \in Procs : r # q => want'[r] = want[r]
  BY <1>1 DEF TypeInv
<1> QED BY <1>1, <1>2, <1>3, <1>4, <1>5, <1>6, <1>7, <1>8, <1>9

(* fork() with copies: the child's pages are its own.                      *)
LEMMA ForkInv ==
  ASSUME IInv, NEW p \in Procs, NEW q \in Procs, Fork(p, q)
  PROVE  IInv'
<1> DEFINE Image == 0 .. sz[p] - 1
<1>0. PICK f \in Copies(p) :
      /\ Born(p, q, [pt EXCEPT ![q] =
             [a \in VA |-> IF a < sz[p] THEN [pt[p][a] EXCEPT !.pa = f[a]]
                           ELSE Unmapped]])
      /\ free' = free \ {f[a] : a \in DOMAIN f}
      /\ content' = [g \in Pages |->
             IF g \in {f[a] : a \in DOMAIN f}
             THEN content[pt[p][CHOOSE a \in DOMAIN f : f[a] = g].pa]
             ELSE content[g]]
  BY DEF Fork
<1>1. /\ f \in [Image -> free] /\ \A a, b \in Image : f[a] = f[b] => a = b
      /\ free' = free \ {f[a] : a \in Image}
      /\ content' = [g \in Pages |->
             IF g \in {f[a] : a \in Image}
             THEN content[pt[p][CHOOSE a \in Image : f[a] = g].pa]
             ELSE content[g]]
  <2>1. f \in [Image -> free] /\ \A a, b \in DOMAIN f : f[a] = f[b] => a = b
    BY DEF Copies
  <2>2. DOMAIN f = Image
    BY <2>1
  <2> HIDE DEF Image
  <2> QED BY <1>0, <2>1, <2>2
<1> DEFINE S == {f[a] : a \in Image}
           copy == [a \in VA |-> IF a < sz[p] THEN [pt[p][a] EXCEPT !.pa = f[a]]
                                ELSE Unmapped]
           fresh == {q} \X VA
<1>2. /\ User(p) /\ ChildSlot(q) /\ nextpid <= MaxPid
      /\ UNCHANGED <<cow_enabled, cow_group, bad, through>>
  BY DEF Fork
<1>3. TypeInv /\ ShapeInv
  BY DEF IInv, Owners
<1>4. S \subseteq free /\ S \subseteq Pages /\ NoPage \notin S
  <2>1. free \subseteq Pages
    BY <1>3 DEF TypeInv
  <2>2. \A a \in Image : f[a] \in free
    BY <1>1
  <2> QED BY <2>1, <2>2, CowAssumption
<1>5. \A a \in VA : a < sz[p] <=> a \in Image
  <2>1. sz[p] \in 0 .. MaxVA
    BY <1>3 DEF TypeInv
  <2> QED BY <2>1, CowAssumption
<1>6. ASSUME NEW a \in VA, a \in Image
      PROVE  copy[a] \in Pte /\ copy[a].pa = f[a] /\ f[a] \in S
  <2>1. pt[p][a] \in Pte /\ f[a] \in Pages /\ f[a] \in S
    BY <1>3, <1>4, <1>6, PteType
  <2>2. copy[a] = [pt[p][a] EXCEPT !.pa = f[a]]
    BY <1>5, <1>6
  <2> QED BY <2>1, <2>2 DEF Pte
<1>7. \A a \in VA : a \notin Image => copy[a] = Unmapped
  BY <1>5
<1>8. copy \in [VA -> Pte]
  BY <1>6, <1>7, UnmappedType
<1>9. Image \subseteq VA
  <2>1. sz[p] \in 0 .. MaxVA
    BY <1>3 DEF TypeInv
  <2> QED BY <2>1, CowAssumption
<1>10. ASSUME NEW a \in Image
       PROVE  content'[f[a]] = content[pt[p][a].pa]
  <2>1. (CHOOSE c \in Image : f[c] = f[a]) = a
    BY <1>1
  <2>2. f[a] \in S /\ f[a] \in Pages
    BY <1>4
  <2> QED BY <1>1, <2>1, <2>2
<1>11. /\ free' = free \ S
       /\ \A g \in Pages : g \notin S => content'[g] = content[g]
       /\ content' \in [Pages -> Values \cup {0, Junk}]
  <2>1. ASSUME NEW g \in Pages PROVE content'[g] \in Values \cup {0, Junk}
    <3>1. content \in [Pages -> Values \cup {0, Junk}]
      BY <1>3 DEF TypeInv
    <3>2. CASE g \in S
      <4>1. PICK a \in Image : g = f[a]
        BY <3>2
      <4>2. a \in VA /\ pt[p][a].pa \in Pages
        <5>1. a \in VA /\ a < sz[p]
          BY <1>5, <1>9
        <5>2. pt[p][a].pa # NoPage
          BY <1>3, <5>1 DEF TypeInv
        <5> QED BY <1>3, <5>1, <5>2, PteType
      <4> QED BY <1>10, <3>1, <4>1, <4>2
    <3>3. CASE g \notin S
      BY <1>1, <3>1, <3>3
    <3> QED BY <3>2, <3>3
  <2>2. content' = [g \in Pages |-> content'[g]]
    BY <1>1
  <2> QED BY <1>1, <2>1, <2>2
<1>12. \A r \in Procs, b \in VA : <<r, b>> \in fresh <=> r = q
  OBVIOUS
<1>13. Born(p, q, [pt EXCEPT ![q] = copy])
  BY <1>0
<1>14. free \subseteq Pages /\ pt \in [Procs -> [VA -> Pte]]
  BY <1>3 DEF TypeInv
<1> HIDE DEF Image, S, copy, fresh
<1>15. /\ p # q /\ sz[q] = 0 /\ pt' = [pt EXCEPT ![q] = copy] /\ UNCHANGED old
       /\ ps[p] = "ALIVE" /\ at[p] = "user"
       /\ \A b \in VA : old[q][b].pa = NoPage
       /\ ps' \in [Procs -> {"UNUSED", "ALIVE", "ZOMBIE"}]
       /\ at' \in [Procs -> {"user", "exec", "free"}]
       /\ pid' \in [Procs -> 0 .. MaxPid] /\ parent' \in [Procs -> 0 .. NPROC]
       /\ sz' \in [Procs -> 0 .. MaxVA] /\ nextpid' \in 1 .. MaxPid + 1
       /\ want' \in [Procs -> [VA -> Values \cup {0}]]
       /\ ps'[q] = "ALIVE" /\ at'[q] = "user" /\ sz'[q] = sz[p] /\ want'[q] = want[p]
       /\ \A r \in Procs : r # q => /\ ps'[r] = ps[r] /\ at'[r] = at[r]
                                    /\ sz'[r] = sz[r] /\ want'[r] = want[r]
  BY <1>2, <1>3, <1>13, BornFacts
<1>16. pt'[q] = copy /\ \A r \in Procs : r # q => pt'[r] = pt[r]
  BY <1>14, <1>15
<1>17. TypeInv'
  <2>1. pt' \in [Procs -> [VA -> Pte]]
    BY <1>8, <1>14, <1>15
  <2>2. ASSUME NEW r \in Procs, NEW b \in VA
        PROVE  pt'[r][b].pa # NoPage <=> b < sz'[r]
    <3>1. CASE r = q
      BY <1>4, <1>5, <1>6, <1>7, <1>15, <1>16, <3>1, UnmappedType
    <3>2. CASE r # q
      BY <1>3, <1>15, <1>16, <3>2 DEF TypeInv
    <3> QED BY <3>1, <3>2
  <2>3. /\ old' \in [Procs -> [VA -> Pte]] /\ cow_enabled' \in [Procs -> BOOLEAN]
        /\ cow_group' \in [Procs -> 0 .. MaxPid] /\ free' \subseteq Pages
        /\ bad' \in BOOLEAN /\ through' \in BOOLEAN
    BY <1>2, <1>3, <1>11, <1>14, <1>15 DEF TypeInv
  <2> QED BY <1>11, <1>15, <2>1, <2>2, <2>3 DEF TypeInv
<1>18. ShapeInv'
  <2>1. ASSUME NEW b \in VA, copy[b].w PROVE copy[b].pa # NoPage
    BY <1>4, <1>6, <1>7, <2>1, UnmappedType
  <2> QED BY <1>3, <1>15, <1>16, <2>1 DEF ShapeInv
<1>19. ASSUME NEW r \in Procs, NEW b \in VA
       PROVE  /\ <<r, b>> \in fresh => pt'[r][b].pa \in S \cup {NoPage}
              /\ <<r, b>> \notin fresh => pt'[r][b] = pt[r][b]
              /\ old'[r][b].pa = old[r][b].pa
  <2>1. CASE r = q
    BY <1>6, <1>7, <1>12, <1>15, <1>16, <2>1, UnmappedType
  <2>2. CASE r # q
    BY <1>12, <1>15, <1>16, <2>2
  <2> QED BY <2>1, <2>2
<1>20. ASSUME NEW r \in Procs, NEW t \in Procs, NEW b \in VA, NEW c \in VA,
              <<r, b>> \in fresh, <<t, c>> \in fresh, pt'[r][b].pa = pt'[t][c].pa
       PROVE  pt'[r][b].pa = NoPage \/ (r = t /\ b = c)
  <2>1. r = q /\ t = q /\ copy[b].pa = copy[c].pa /\ pt'[r][b].pa = copy[b].pa
    BY <1>12, <1>16, <1>20
  <2>2. CASE b \in Image /\ c \in Image
    BY <1>1, <1>6, <2>1, <2>2
  <2>3. CASE ~(b \in Image /\ c \in Image)
    BY <1>7, <2>1, <2>3, UnmappedType
  <2> QED BY <2>2, <2>3
<1>21. ASSUME NEW r \in Procs, NEW b \in VA, ps'[r] = "ALIVE", b < sz'[r]
       PROVE  /\ <<r, b>> \in fresh /\ ~bad /\ ~through => content'[pt'[r][b].pa] = want'[r][b]
              /\ <<r, b>> \notin fresh => ps[r] = "ALIVE" /\ b < sz[r] /\ want'[r][b] = want[r][b]
  <2>1. CASE r = q
    <3>1. b \in Image /\ b < sz[p]
      BY <1>5, <1>15, <1>21, <2>1
    <3>2. pt'[r][b].pa = f[b] /\ want'[r][b] = want[p][b]
      BY <1>6, <1>15, <1>16, <2>1, <3>1
    <3>3. content'[f[b]] = content[pt[p][b].pa]
      BY <1>10, <3>1
    <3>4. ~bad /\ ~through => content[pt[p][b].pa] = want[p][b]
      BY <1>15, <3>1 DEF IInv, Isolated
    <3> QED BY <1>12, <2>1, <3>2, <3>3, <3>4
  <2>2. CASE r # q
    BY <1>12, <1>15, <1>21, <2>2
  <2> QED BY <2>1, <2>2
<1>22. UNCHANGED <<bad, through>>
  BY <1>2
<1>23. Allocates(S, fresh)
  BY <1>4, <1>11, <1>19, <1>20, <1>21, <1>22, SMTT(30) DEF Allocates
<1> QED BY <1>17, <1>18, <1>23, AllocInv

(* fork() with sharing: parent and child map the same pages, nobody may    *)
(* store to them.                                                          *)
LEMMA ForkCowInv ==
  ASSUME IInv, NEW p \in Procs, NEW q \in Procs, ForkCow(p, q)
  PROVE  IInv'
<1>1. CASE Panic("null cow group")
  BY <1>1, PanicInv
<1>2. CASE ~Panic("null cow group")
  <2> DEFINE mine == ReadOnly(pt[p])
             copy == [a \in VA |-> [pt[p][a] EXCEPT !.w = FALSE]]
             tables == [pt EXCEPT ![p] = mine, ![q] = copy]
  <2>1. /\ User(p) /\ ChildSlot(q) /\ nextpid <= MaxPid /\ Born(p, q, tables)
        /\ cow_group' = [cow_group EXCEPT ![p] = pid[p], ![q] = pid[p]]
        /\ cow_enabled' = [cow_enabled EXCEPT ![p] = TRUE, ![q] = TRUE]
        /\ UNCHANGED <<free, content, bad, through>>
    BY <1>2 DEF ForkCow
  <2>2. TypeInv /\ ShapeInv
    BY DEF IInv, Owners
  <2>3. ASSUME NEW a \in VA
        PROVE  /\ mine[a] \in Pte /\ mine[a].pa = pt[p][a].pa /\ mine[a].w = FALSE
               /\ copy[a] = mine[a]
    <3>1. pt[p][a] \in Pte
      BY <2>2, PteType
    <3>2. mine[a] = [pt[p][a] EXCEPT !.w = FALSE]
      BY DEF ReadOnly
    <3> QED BY <3>1, <3>2 DEF Pte
  <2>4. mine \in [VA -> Pte] /\ copy = mine
    BY <2>3 DEF ReadOnly
  <2>5. /\ p # q /\ sz[q] = 0 /\ pt' = tables /\ UNCHANGED old
        /\ ps[p] = "ALIVE" /\ at[p] = "user"
        /\ \A b \in VA : old[q][b].pa = NoPage
        /\ ps' \in [Procs -> {"UNUSED", "ALIVE", "ZOMBIE"}]
        /\ at' \in [Procs -> {"user", "exec", "free"}]
        /\ pid' \in [Procs -> 0 .. MaxPid] /\ parent' \in [Procs -> 0 .. NPROC]
        /\ sz' \in [Procs -> 0 .. MaxVA] /\ nextpid' \in 1 .. MaxPid + 1
        /\ want' \in [Procs -> [VA -> Values \cup {0}]]
        /\ ps'[q] = "ALIVE" /\ at'[q] = "user" /\ sz'[q] = sz[p] /\ want'[q] = want[p]
        /\ \A r \in Procs : r # q => /\ ps'[r] = ps[r] /\ at'[r] = at[r]
                                     /\ sz'[r] = sz[r] /\ want'[r] = want[r]
    <3> HIDE DEF tables
    <3> QED BY <2>1, <2>2, BornFacts
  <2>6. pt \in [Procs -> [VA -> Pte]]
    BY <2>2 DEF TypeInv
  <2>7. pt' = [pt EXCEPT ![p] = mine, ![q] = mine]
    BY <2>4, <2>5
  <2> HIDE DEF mine, copy, tables
  <2>8. /\ pt' \in [Procs -> [VA -> Pte]] /\ pt'[p] = mine /\ pt'[q] = mine
        /\ \A r \in Procs : r \notin {p, q} => pt'[r] = pt[r]
    BY <2>4, <2>6, <2>7
  <2>9. ASSUME NEW r \in Procs, NEW b \in VA
        PROVE  /\ r # q => pt'[r][b].pa = pt[r][b].pa
               /\ r = q => pt'[r][b].pa = pt[p][b].pa
               /\ r \in {p, q} => pt'[r][b].w = FALSE
               /\ r \notin {p, q} => pt'[r][b] = pt[r][b]
    <3>1. CASE r \in {p, q}
      <4>1. pt'[r][b] = mine[b]
        BY <2>8, <3>1
      <4> QED BY <2>3, <2>5, <3>1, <4>1
    <3>2. CASE r \notin {p, q}
      <4>1. pt'[r] = pt[r]
        BY <2>8, <3>2
      <4> QED BY <3>2, <4>1
    <3> QED BY <3>1, <3>2
  <2>10. TypeInv'
    <3>1. ASSUME NEW r \in Procs, NEW b \in VA
          PROVE  pt'[r][b].pa # NoPage <=> b < sz'[r]
      <4>1. /\ pt[r][b].pa # NoPage <=> b < sz[r]
            /\ pt[p][b].pa # NoPage <=> b < sz[p]
        BY <2>2 DEF TypeInv
      <4>2. CASE r = q
        BY <2>5, <2>9, <4>1, <4>2
      <4>3. CASE r # q
        BY <2>5, <2>9, <4>1, <4>3
      <4> QED BY <4>2, <4>3
    <3>2. cow_group' \in [Procs -> 0 .. MaxPid]
      <4>1. pid[p] \in 0 .. MaxPid
        BY <2>2 DEF TypeInv
      <4> QED BY <2>1, <2>2, <4>1 DEF TypeInv
    <3>3. cow_enabled' \in [Procs -> BOOLEAN]
      BY <2>1, <2>2 DEF TypeInv
    <3>4. /\ old' \in [Procs -> [VA -> Pte]] /\ free' \subseteq Pages
          /\ content' \in [Pages -> Values \cup {0, Junk}]
          /\ bad' \in BOOLEAN /\ through' \in BOOLEAN
      BY <2>1, <2>2, <2>5 DEF TypeInv
    <3> QED BY <2>5, <2>8, <3>1, <3>2, <3>3, <3>4 DEF TypeInv
  <2>11. ShapeInv'
    <3>1. ASSUME NEW r \in Procs, NEW b \in VA, pt'[r][b].w
          PROVE  pt'[r][b].pa # NoPage
      <4>1. r \notin {p, q}
        BY <2>9, <3>1
      <4>2. pt'[r][b] = pt[r][b]
        BY <2>9, <4>1
      <4> QED BY <2>2, <3>1, <4>2 DEF ShapeInv
    <3> QED BY <2>2, <2>5, <3>1, SMTT(30) DEF ShapeInv
  <2>12. FreeInv'
    <3>1. ASSUME ~bad, NEW r \in Procs, NEW b \in VA
          PROVE  pt'[r][b].pa \notin free /\ old[r][b].pa \notin free
      <4>1. /\ pt[r][b].pa \notin free /\ pt[p][b].pa \notin free
            /\ old[r][b].pa \notin free
        BY <3>1 DEF IInv, Owners, FreeInv
      <4> QED BY <2>9, <4>1
    <3> QED BY <2>1, <2>5, <3>1 DEF FreeInv
  <2>13. PrivateInv'
    <3> SUFFICES ASSUME ~bad, NEW r \in Procs, NEW b \in VA, pt'[r][b].w
                 PROVE  Only(r, b)'
      BY <2>1 DEF PrivateInv
    <3>1. r \notin {p, q} /\ pt'[r][b] = pt[r][b] /\ Only(r, b)
      <4>1. r \notin {p, q}
        BY <2>9
      <4>2. pt'[r][b] = pt[r][b]
        BY <2>9, <4>1
      <4> QED BY <4>1, <4>2 DEF IInv, Owners, PrivateInv
    <3>2. ASSUME NEW t \in Procs, NEW c \in VA, pt'[t][c].pa = pt'[r][b].pa
          PROVE  t = r /\ c = b
      <4>1. CASE t = q
        <5>1. pt[p][c].pa = pt[r][b].pa
          BY <2>9, <3>1, <3>2, <4>1
        <5> QED BY <3>1, <5>1 DEF Only
      <4>2. CASE t # q
        <5>1. pt[t][c].pa = pt[r][b].pa
          BY <2>9, <3>1, <3>2, <4>2
        <5> QED BY <3>1, <5>1 DEF Only
      <4> QED BY <4>1, <4>2
    <3>3. ASSUME NEW t \in Procs, NEW c \in VA PROVE old'[t][c].pa # pt'[r][b].pa
      BY <2>5, <3>1 DEF Only
    <3> QED BY <3>2, <3>3 DEF Only
  <2>14. Isolated'
    <3> SUFFICES ASSUME ~bad, ~through, NEW r \in Procs, NEW b \in VA,
                        ps'[r] = "ALIVE", b < sz'[r]
                 PROVE  content[pt'[r][b].pa] = want'[r][b]
      BY <2>1 DEF Isolated
    <3>1. CASE r = q
      <4>1. content[pt[p][b].pa] = want[p][b]
        BY <2>5, <3>1 DEF IInv, Isolated
      <4> QED BY <2>5, <2>9, <3>1, <4>1
    <3>2. CASE r # q
      <4>1. content[pt[r][b].pa] = want[r][b]
        BY <2>5, <3>2, SMTT(30) DEF IInv, Isolated
      <4> QED BY <2>5, <2>9, <3>2, <4>1
    <3> QED BY <3>1, <3>2
  <2> QED BY <2>10, <2>11, <2>12, <2>13, <2>14 DEF IInv, Owners
<1> QED BY <1>1, <1>2

-----------------------------------------------------------------------------
(* The invariant is inductive.                                             *)
LEMMA NextInv == IInv /\ [Next]_vars => IInv'
<1> SUFFICES ASSUME IInv, [Next]_vars PROVE IInv'
  OBVIOUS
<1>1. ASSUME NEW p \in Procs, NEW a \in VA, copy_on_write(p, a) PROVE IInv'
  BY <1>1, CopyOnWriteInv
<1>2. ASSUME NEW p \in Procs, NEW a \in VA, NEW v \in Values,
             Store(p, a, v) \/ CopyOut(p, a, v)
      PROVE  IInv'
  BY <1>2, StoreInv
<1>3. ASSUME NEW p \in Procs, NEW q \in Procs, ForkCow(p, q) PROVE IInv'
  BY <1>3, ForkCowInv
<1>4. ASSUME NEW p \in Procs, NEW q \in Procs, Fork(p, q) PROVE IInv'
  BY <1>4, ForkInv
<1>5. ASSUME NEW p \in Procs, NEW q \in Procs, ForkFails(p, q) PROVE IInv'
  BY <1>5, ForkFailsInv
<1>6. ASSUME NEW p \in Procs, NEW q \in Procs, Wait(p, q) PROVE IInv'
  BY <1>6, WaitInv
<1>7. ASSUME NEW p \in Procs, Exit(p) PROVE IInv'
  BY <1>7, ExitInv
<1>8. ASSUME NEW p \in Procs, ExecStart(p) PROVE IInv'
  BY <1>8, ExecStartInv
<1>9. ASSUME NEW p \in Procs, ExecFails(p) PROVE IInv'
  BY <1>9, ExecFailsInv
<1>10. ASSUME NEW p \in Procs, ExecCommit(p) PROVE IInv'
  BY <1>10, ExecCommitInv
<1>11. ASSUME NEW p \in Procs, ExecFree(p) PROVE IInv'
  BY <1>11, ExecFreeInv
<1>12. ASSUME NEW p \in Procs, SbrkGrow(p) PROVE IInv'
  BY <1>12, SbrkGrowInv
<1>13. ASSUME NEW p \in Procs, SbrkShrink(p) PROVE IInv'
  BY <1>13, SbrkShrinkInv
<1>14. CASE UNCHANGED vars
  <2>1. TypeInv' /\ ShapeInv'
    BY <1>14 DEF IInv, Owners, TypeInv, ShapeInv, vars
  <2> QED BY <1>14, <2>1, FrameInv DEF vars
<1> QED BY <1>1, <1>2, <1>3, <1>4, <1>5, <1>6, <1>7, <1>8, <1>9, <1>10, <1>11, <1>12,
           <1>13, <1>14 DEF Next, Halted

(* The inductive invariant holds in every reachable state.                 *)
THEOREM Invariance == Spec => []IInv
BY InitInv, NextInv, PTL DEF Spec

(* While no page in use was freed, a page a process may store to is mapped *)
(* nowhere else and is not on the free list.                               *)
THEOREM PrivateCorrect == Spec => []WritableIsPrivate
<1>1. IInv => WritableIsPrivate
  BY WordsPrivate DEF IInv, Owners
<1> QED BY <1>1, Invariance, PTL

(* While, besides, copyout() stored into no shared page, every live        *)
(* process reads what it last wrote or inherited at fork().                *)
THEOREM IsolatedCorrect == Spec => []Isolated
<1>1. IInv => Isolated
  BY DEF IInv
<1> QED BY <1>1, Invariance, PTL

----------------------------------------------------------------------------
(* The inductive invariant of Fs. *)

\* No element of a path but the first is "/", and none is "..": the ".." of a removed directory that a
\* process is still in may name an inode that has been freed since, and ilock() panics on it.
PlainPaths == \A s \in Path : Elems(s) \in Seq(Name)

Inode == [type : {"free", "file", "dir", "device"}, nlink : Nat, addr : Block \cup {0}]
Ref == Inum \cup {0}
Walks == {"open", "create", "mkdir", "mknod", "link", "unlink", "chdir", "link to"}
Positions == {"idle", "namex", "found", "exists", "made", "victim", "bad", "write", "end"}

DiskOK ==
  /\ dinode \in [Inum -> Inode] /\ ents \in [Inum -> [Entry -> Ref]] /\ used \subseteq Block
  /\ dinode[root].type = "dir"
  /\ \A i \in Inum : dinode[i].type = "free" => dinode[i] = FreeInode
TableOK ==
  /\ inode \in [Inum -> Inode] /\ valid \in [Inum -> BOOLEAN]
  /\ ref \in [Inum -> Int] /\ lock \in [Inum -> Proc \cup {None}]
LocalOK ==
  /\ cwd \in [Proc -> Inum] /\ file \in [Proc -> Ref]
  /\ cur \in [Proc -> Ref] /\ ip \in [Proc -> Ref]
  /\ puts \in [Proc -> Seq(Inum \X BOOLEAN)] /\ \A p \in Proc : Len(puts[p]) <= 2
  /\ path \in [Proc -> Seq(Name)] /\ new \in [Proc -> Path \cup {<<>>}]
  /\ pc \in [Proc -> Positions] /\ op \in [Proc -> Walks \cup {"close", "write", None}]

\* What the locals of a call are at each of its places.
Shape(p) ==
  /\ pc[p] \in {"idle", "end"} => cur[p] = 0 /\ ip[p] = 0
  /\ pc[p] \in {"idle", "found", "made", "victim", "write"} => puts[p] = <<>>
  /\ pc[p] \in {"namex", "found"} => op[p] \in Walks /\ (op[p] = "link" => new[p] \in Path)
  /\ pc[p] = "namex" \/ (pc[p] = "found" /\ nameiparent(p)) =>
       cur[p] \in Inum /\ (IF op[p] = "link to" THEN ip[p] \in Inum ELSE ip[p] = 0)
  /\ pc[p] \in {"exists", "bad"} \/ (pc[p] = "found" /\ ~nameiparent(p)) =>
       cur[p] = 0 /\ ip[p] \in Inum
  /\ pc[p] \in {"made", "victim"} => cur[p] \in Inum /\ ip[p] \in Inum
  /\ pc[p] \in {"made", "victim"} \/ (pc[p] = "found" /\ nameiparent(p)) => Len(path[p]) = 1
  /\ pc[p] = "write" => cur[p] = 0 /\ ip[p] = file[p] /\ file[p] \in Inum

\* The table has what the disk has.
CopyInv == \A i \in Inum : valid[i] => inode[i] = dinode[i] /\ dinode[i].type # "free"

\* A process has an inode if a variable names it, or an iput() that has not freed it yet.
Has(p, i) == \/ i \in {cwd[p], file[p], cur[p], ip[p]}
             \/ \E k \in DOMAIN puts[p] : puts[p][k] = <<i, FALSE>>
HasOf(p) == \A i \in Inum : Has(p, i) => dinode[i].type # "free"

\* What a call at a place knows of the disk.
Linking(p) == pc[p] = "bad" \/ (pc[p] \in {"namex", "found"} /\ op[p] = "link to")
KnowOf(p) ==
  /\ Linking(p) => dinode[ip[p]].type # "dir"
  /\ pc[p] = "found" /\ nameiparent(p) => dinode[cur[p]].type = "dir"
  /\ pc[p] \in {"made", "victim"} =>
       lock[cur[p]] = p /\ valid[cur[p]] /\ dinode[cur[p]].type = "dir"
  /\ pc[p] = "made" => ents[cur[p]][Head(path[p])] = 0
  /\ pc[p] = "victim" => ents[cur[p]][Head(path[p])] = ip[p]
LockInv ==
  \A i \in Inum : lock[i] # None =>
    \E p \in Proc : lock[i] = p /\ pc[p] \in {"made", "victim"} /\ cur[p] = i

\* A new inode is its creator's alone.
New(p) == pc[p] = "made"
NewOf(p) ==
  New(p) =>
    LET i == ip[p] IN
      /\ i # root /\ dinode[i].nlink = 0 /\ dinode[i].addr = 0
      /\ \A n \in Name : ents[i][n] = 0
      /\ \A d \in Inum, n \in Name : ents[d][n] # i
      /\ \A q \in Proc : q # p => ~Has(q, i)
      /\ i \notin {cwd[p], file[p], cur[p]}

\* Names are in directories and name allocated inodes.
NameInv ==
  \A d \in Inum, n \in Name : ents[d][n] # 0 =>
    dinode[d].type = "dir" /\ dinode[ents[d][n]].type # "free" /\ ents[d][n] # root

\* Link counts.
NamesOf(i) == {s \in Inum \X Name : ents[s[1]][s[2]] = i}
LinksTo(i) == {p \in Proc : Linking(p) /\ ip[p] = i}
DirsIn(i) == {n \in Name : ents[i][n] # 0 /\ dinode[ents[i][n]].type = "dir"}
FileLinks ==
  \A i \in Inum : dinode[i].type # "dir" =>
    dinode[i].nlink >= Cardinality(NamesOf(i)) + Cardinality(LinksTo(i))
DirLinks ==
  \A i \in Inum : dinode[i].type = "dir" =>
    /\ dinode[i].nlink >= Cardinality(DirsIn(i))
    /\ i = root \/ NamesOf(i) # {} => dinode[i].nlink >= 1 + Cardinality(DirsIn(i))
    /\ \A a, b \in NamesOf(i) : a = b

\* Directories are a forest: every set of inodes has one without names in the set.
TreeInv ==
  \A T \in SUBSET Inum : T # {} => \E d \in T : \A n \in Name : ents[d][n] \notin T

FsInv ==
  /\ DiskOK /\ TableOK /\ LocalOK
  /\ \A p \in Proc : Shape(p) /\ HasOf(p) /\ KnowOf(p) /\ NewOf(p)
  /\ CopyInv /\ LockInv /\ NameInv
  /\ FileLinks /\ DirLinks /\ TreeInv /\ BlocksOwned /\ RefsExact

----------------------------------------------------------------------------
(* Counting. *)

One(b) == IF b THEN 1 ELSE 0

\* How often i is among the six pointers h.
Count(h, i) == One(h[1] = i) + One(h[2] = i) + One(h[3] = i) + One(h[4] = i) + One(h[5] = i)
               + One(h[6] = i)

\* A set is the part with an element and the part without it.
LEMMA CardSplit ==
  ASSUME NEW S, IsFiniteSet(S), NEW x
  PROVE  /\ IsFiniteSet(S \ {x}) /\ Cardinality(S) \in Nat /\ Cardinality(S \ {x}) \in Nat
         /\ Cardinality(S) = Cardinality(S \ {x}) + One(x \in S)
<1>1. IsFiniteSet(S \ {x}) /\ Cardinality(S \ {x}) = IF x \in S THEN Cardinality(S) - 1 ELSE Cardinality(S)
  BY FS_RemoveElement
<1>2. Cardinality(S) \in Nat /\ Cardinality(S \ {x}) \in Nat
  BY <1>1, FS_CardinalityType
<1> QED BY <1>1, <1>2 DEF One

\* The places of i, counted one by one.
PlacesOf(h, i) == {k \in 1..6 : h[k] = i}

LEMMA CountIs ==
  ASSUME NEW h, NEW i
  PROVE  IsFiniteSet(PlacesOf(h, i)) /\ Cardinality(PlacesOf(h, i)) = Count(h, i)
<1> DEFINE S == PlacesOf(h, i)
           R(n) == {k \in S : k <= n}
<1>1. S \subseteq 1..6 /\ \A k \in 1..6 : k \in S <=> h[k] = i
  BY DEF PlacesOf
<1>2. IsFiniteSet(S)
  BY <1>1, FS_Interval, FS_Subset
<1>3. ASSUME NEW n \in 0..5
      PROVE  Cardinality(R(n + 1)) = Cardinality(R(n)) + One(h[n + 1] = i)
             /\ Cardinality(R(n)) \in Nat
  <2>1. R(n) = R(n + 1) \ {n + 1}
    BY <1>1
  <2>2. n + 1 \in R(n + 1) <=> h[n + 1] = i
    BY <1>1
  <2>3. IsFiniteSet(R(n + 1))
    BY <1>2, FS_Subset
  <2> HIDE DEF R
  <2>4. /\ Cardinality(R(n + 1)) = Cardinality(R(n + 1) \ {n + 1}) + One(n + 1 \in R(n + 1))
        /\ Cardinality(R(n + 1) \ {n + 1}) \in Nat
    BY <2>3, CardSplit
  <2> QED BY <2>1, <2>2, <2>4 DEF One
<1>4. R(0) = {} /\ R(6) = S
  <2>1. \A k \in S : k \in 1..6
    BY <1>1
  <2> HIDE DEF S
  <2> QED BY <2>1
<1>5. Cardinality(R(0)) = 0
  BY <1>4, FS_EmptySet
<1> HIDE DEF R
<1>6. /\ Cardinality(R(1)) = One(h[1] = i)
      /\ Cardinality(R(2)) = Cardinality(R(1)) + One(h[2] = i)
      /\ Cardinality(R(3)) = Cardinality(R(2)) + One(h[3] = i)
      /\ Cardinality(R(4)) = Cardinality(R(3)) + One(h[4] = i)
      /\ Cardinality(R(5)) = Cardinality(R(4)) + One(h[5] = i)
      /\ Cardinality(R(6)) = Cardinality(R(5)) + One(h[6] = i)
  <2>1. Cardinality(R(0 + 1)) = Cardinality(R(0)) + One(h[0 + 1] = i)
    BY <1>3
  <2>2. Cardinality(R(1 + 1)) = Cardinality(R(1)) + One(h[1 + 1] = i)
    BY <1>3
  <2>3. Cardinality(R(2 + 1)) = Cardinality(R(2)) + One(h[2 + 1] = i)
    BY <1>3
  <2>4. Cardinality(R(3 + 1)) = Cardinality(R(3)) + One(h[3 + 1] = i)
    BY <1>3
  <2>5. Cardinality(R(4 + 1)) = Cardinality(R(4)) + One(h[4 + 1] = i)
    BY <1>3
  <2>6. Cardinality(R(5 + 1)) = Cardinality(R(5)) + One(h[5 + 1] = i)
    BY <1>3
  <2>7. 0 + 1 = 1 /\ 1 + 1 = 2 /\ 2 + 1 = 3 /\ 3 + 1 = 4 /\ 4 + 1 = 5 /\ 5 + 1 = 6
    OBVIOUS
  <2>8. One(h[1] = i) \in Nat
    BY DEF One
  <2> QED BY <1>5, <2>1, <2>2, <2>3, <2>4, <2>5, <2>6, <2>7, <2>8
<1> QED BY <1>2, <1>4, <1>6 DEF Count

\* All pointers to an inode are those of one process and those of the others.
Pairs(f, i) == {s \in Proc \X (1..6) : f[s[1]][s[2]] = i}
Others(f, p, i) == {s \in Pairs(f, i) : s[1] # p}

LEMMA PairsFinite ==
  ASSUME NEW f, NEW i
  PROVE  IsFiniteSet(Pairs(f, i))
<1> DEFINE all == Proc \X (1..6)
<1>1. IsFiniteSet(all)
  <2>1. IsFiniteSet(1..6)
    <3>1. \A n \in Nat : IsFiniteSet(1..n)
      BY FS_Interval
    <3>2. 6 \in Nat
      OBVIOUS
    <3> QED BY <3>1, <3>2, Zenon
  <2>2. IsFiniteSet(Proc)
    BY FsAssumption, Zenon
  <2> QED BY <2>1, <2>2, FS_Product, Zenon
<1>2. Pairs(f, i) \in SUBSET all
  BY DEF Pairs
<1> HIDE DEF all
<1> QED BY <1>1, <1>2, FS_Subset

LEMMA CountSplit ==
  ASSUME NEW f, NEW p \in Proc, NEW i
  PROVE  /\ Cardinality(Pairs(f, i)) = Cardinality(Others(f, p, i)) + Count(f[p], i)
         /\ Cardinality(Others(f, p, i)) \in Nat /\ Count(f[p], i) \in Nat
         /\ Cardinality(Others(f, p, i)) = 0 => \A q \in Proc : q # p => Count(f[q], i) = 0
<1> DEFINE Mine == {s \in Pairs(f, i) : s[1] = p}
           g == [k \in PlacesOf(f[p], i) |-> <<p, k>>]
<1>1. IsFiniteSet(Others(f, p, i)) /\ IsFiniteSet(Mine)
  BY PairsFinite, FS_Subset DEF Others
<1>2. Pairs(f, i) = Others(f, p, i) \cup Mine /\ Others(f, p, i) \cap Mine = {}
  BY DEF Others
<1>3. g \in Bijection(PlacesOf(f[p], i), Mine)
  <2>1. \A k \in PlacesOf(f[p], i) : g[k] \in Mine
    BY DEF PlacesOf, Pairs
  <2>2. \A k, m \in PlacesOf(f[p], i) : g[k] = g[m] => k = m
    OBVIOUS
  <2>3. \A s \in Mine : s[2] \in PlacesOf(f[p], i) /\ g[s[2]] = s
    BY DEF PlacesOf, Pairs
  <2> HIDE DEF g, Mine
  <2>4. g \in [PlacesOf(f[p], i) -> Mine]
    BY <2>1 DEF g
  <2> QED BY <2>2, <2>3, <2>4 DEF Bijection, Injection, Surjection, IsInjective
<1>4. Cardinality(Mine) = Count(f[p], i)
  <2> HIDE DEF g, Mine
  <2>1. ExistsBijection(PlacesOf(f[p], i), Mine)
    BY <1>3 DEF ExistsBijection
  <2> QED BY <2>1, CountIs, FS_Bijection
<1>5. Cardinality(Pairs(f, i)) = Cardinality(Others(f, p, i)) + Count(f[p], i)
      /\ Cardinality(Others(f, p, i)) \in Nat /\ Count(f[p], i) \in Nat
  <2>1. Cardinality(Others(f, p, i) \cap Mine) = 0
    BY <1>2, FS_EmptySet
  <2>2. Cardinality(Others(f, p, i)) \in Nat /\ Cardinality(Mine) \in Nat
    BY <1>1, FS_CardinalityType
  <2>3. Cardinality(Others(f, p, i) \cup Mine) =
          Cardinality(Others(f, p, i)) + Cardinality(Mine) - Cardinality(Others(f, p, i) \cap Mine)
    BY <1>1, FS_Union
  <2> HIDE DEF Mine
  <2> QED BY <1>2, <1>4, <2>1, <2>2, <2>3
<1>6. ASSUME Cardinality(Others(f, p, i)) = 0, NEW q \in Proc, q # p PROVE Count(f[q], i) = 0
  <2>1. Others(f, p, i) = {}
    BY <1>1, <1>6, FS_EmptySet
  <2>2. ASSUME NEW k \in 1..6 PROVE f[q][k] # i
    <3>1. f[q][k] = i => <<q, k>> \in Others(f, p, i)
      BY <1>6 DEF Others, Pairs
    <3> QED BY <2>1, <3>1
  <2> QED BY <2>2 DEF Count, One
<1> QED BY <1>5, <1>6

----------------------------------------------------------------------------
(* Reference counts. *)

Ptr == [p \in Proc |-> [k \in 1..6 |-> Pointer(p, k)]]

\* The pointers a process has to an inode, by the variables they are in.
PutTo(p, k, i) == k \in DOMAIN puts[p] /\ puts[p][k][1] = i
Mine(p, i) == One(cwd[p] = i) + One(file[p] = i) + One(cur[p] = i)
              + One(pc[p] # "write" /\ ip[p] = i) + One(PutTo(p, 1, i)) + One(PutTo(p, 2, i))

LEMMA PtrIs ==
  ASSUME NEW p \in Proc, NEW i \in Inum
  PROVE  Count(Ptr[p], i) = Mine(p, i) /\ Mine(p, i) \in Nat
<1>1. i # 0
  BY FsAssumption
<1>2. /\ Ptr[p][1] = cwd[p] /\ Ptr[p][2] = file[p] /\ Ptr[p][3] = cur[p]
      /\ Ptr[p][4] = (IF pc[p] = "write" THEN 0 ELSE ip[p])
      /\ Ptr[p][5] = (IF 1 \in DOMAIN puts[p] THEN puts[p][1][1] ELSE 0)
      /\ Ptr[p][6] = (IF 2 \in DOMAIN puts[p] THEN puts[p][2][1] ELSE 0)
  BY DEF Ptr, Pointer
<1> QED BY <1>1, <1>2 DEF Count, Mine, PutTo, One

LEMMA PtrIsNext ==
  ASSUME NEW p \in Proc, NEW i \in Inum
  PROVE  Count(Ptr'[p], i) = Mine(p, i)' /\ Mine(p, i)' \in Nat
<1>1. i # 0
  BY FsAssumption
<1>2. /\ Ptr'[p][1] = cwd'[p] /\ Ptr'[p][2] = file'[p] /\ Ptr'[p][3] = cur'[p]
      /\ Ptr'[p][4] = (IF pc'[p] = "write" THEN 0 ELSE ip'[p])
      /\ Ptr'[p][5] = (IF 1 \in DOMAIN puts'[p] THEN puts'[p][1][1] ELSE 0)
      /\ Ptr'[p][6] = (IF 2 \in DOMAIN puts'[p] THEN puts'[p][2][1] ELSE 0)
  BY DEF Ptr, Pointer
<1> QED BY <1>1, <1>2 DEF Count, Mine, PutTo, One

\* The locals of other processes stay.
SameLocal(q) == /\ cwd'[q] = cwd[q] /\ file'[q] = file[q] /\ cur'[q] = cur[q] /\ ip'[q] = ip[q]
                /\ puts'[q] = puts[q] /\ pc'[q] = pc[q] /\ op'[q] = op[q]
                /\ path'[q] = path[q] /\ new'[q] = new[q]
SameOthers(p) == \A q \in Proc : q # p => SameLocal(q)

\* The counts stay exact if ref changes by what p's pointers do.
LEMMA RefsStep ==
  ASSUME RefsExact, NEW p \in Proc, SameOthers(p), ref \in [Inum -> Int], ref' \in [Inum -> Int],
         \A i \in Inum : ref'[i] - ref[i] = Mine(p, i)' - Mine(p, i)
  PROVE  RefsExact'
<1>1. SUFFICES ASSUME NEW i \in Inum PROVE ref'[i] = Pointers(i)'
  BY DEF RefsExact
<1>2. Pointers(i) = Cardinality(Pairs(Ptr, i)) /\ Pointers(i)' = Cardinality(Pairs(Ptr', i))
  BY DEF Pointers, Pairs, Ptr
<1>3. Others(Ptr', p, i) = Others(Ptr, p, i)
  <2>1. \A q \in Proc, k \in 1..6 : q # p => Ptr'[q][k] = Ptr[q][k]
    BY DEF SameOthers, SameLocal, Ptr, Pointer
  <2> QED BY <2>1 DEF Others, Pairs
<1>4. /\ Cardinality(Pairs(Ptr, i)) = Cardinality(Others(Ptr, p, i)) + Count(Ptr[p], i)
      /\ Cardinality(Pairs(Ptr', i)) = Cardinality(Others(Ptr', p, i)) + Count(Ptr'[p], i)
      /\ Cardinality(Others(Ptr, p, i)) \in Nat
  BY CountSplit
<1>5. ref[i] = Pointers(i)
  BY DEF RefsExact
<1> QED BY <1>2, <1>3, <1>4, <1>5, PtrIs, PtrIsNext

\* An iput() that finds one reference has the only pointer.
LEMMA LastAlone ==
  ASSUME RefsExact, LocalOK, \A q \in Proc : Shape(q), NEW p \in Proc, NEW i \in Inum,
         ref[i] = 1, puts[p] # <<>>, puts[p][1][1] = i
  PROVE  /\ \A q \in Proc : q # p => ~Has(q, i)
         /\ i \notin {cwd[p], file[p], cur[p], ip[p]} /\ ~PutTo(p, 2, i)
<1>0. \A q \in Proc : puts[q] \in Seq(Inum \X BOOLEAN) /\ Len(puts[q]) <= 2
  BY DEF LocalOK
<1>1. PutTo(p, 1, i)
  BY <1>0 DEF PutTo
<1>2. /\ Cardinality(Pairs(Ptr, i)) = Cardinality(Others(Ptr, p, i)) + Count(Ptr[p], i)
      /\ Cardinality(Others(Ptr, p, i)) \in Nat
      /\ Cardinality(Others(Ptr, p, i)) = 0 => \A q \in Proc : q # p => Count(Ptr[q], i) = 0
  BY CountSplit
<1>3. Cardinality(Pairs(Ptr, i)) = 1
  BY DEF Pointers, Pairs, Ptr, RefsExact
<1>4. Mine(p, i) >= 1 /\ Mine(p, i) \in Nat
  BY <1>1, PtrIs DEF Mine, One
<1>5. Mine(p, i) = 1 /\ \A q \in Proc : q # p => Mine(q, i) = 0
  BY <1>2, <1>3, <1>4, PtrIs
<1>6. i \notin {cwd[p], file[p], cur[p]} /\ (pc[p] # "write" => ip[p] # i) /\ ~PutTo(p, 2, i)
  BY <1>1, <1>5 DEF Mine, One
<1>7. ip[p] # i
  BY <1>6 DEF Shape
<1>8. ASSUME NEW q \in Proc, q # p PROVE ~Has(q, i)
  <2>1. Mine(q, i) = 0
    BY <1>5, <1>8
  <2>2. /\ i \notin {cwd[q], file[q], cur[q]} /\ (pc[q] # "write" => ip[q] # i)
        /\ ~PutTo(q, 1, i) /\ ~PutTo(q, 2, i)
    BY <2>1 DEF Mine, One
  <2>3. ip[q] # i
    BY <2>2 DEF Shape
  <2>4. \A k \in DOMAIN puts[q] : k = 1 \/ k = 2
    BY <1>0
  <2>5. ASSUME NEW k \in DOMAIN puts[q] PROVE puts[q][k] # <<i, FALSE>>
    <3>1. puts[q][k][1] # i
      BY <2>2, <2>4 DEF PutTo
    <3>2. <<i, FALSE>>[1] = i
      OBVIOUS
    <3> QED BY <3>1, <3>2
  <2> QED BY <2>2, <2>3, <2>5 DEF Has
<1> QED BY <1>6, <1>7, <1>8

----------------------------------------------------------------------------
(* What a step of one process leaves to the others. *)

\* Inodes that others have keep their types and stay in the table; p changes inodes that it has or
\* takes, and leaves what is locked by others alone; it enters names of inodes it has, and gets
\* pointers to the root, to inodes it has, that have names, or that it takes.
OthersFrame(p) ==
  /\ SameOthers(p)
  /\ \A q \in Proc, i \in Inum : q # p /\ Has(q, i) =>
       dinode'[i].type = dinode[i].type /\ (valid[i] => valid'[i])
  /\ \A i \in Inum : dinode[i].type # "free" /\ ~Has(p, i) =>
       dinode'[i] = dinode[i] /\ ents'[i] = ents[i]
  /\ \A i \in Inum : lock[i] # None /\ lock[i] # p => lock'[i] = lock[i] /\ ents'[i] = ents[i]
  /\ \A d \in Inum, n \in Name : ents'[d][n] = ents[d][n] \/ ents'[d][n] = 0 \/ Has(p, ents'[d][n])
  /\ \A i \in Inum : Has(p, i)' =>
       \/ Has(p, i) \/ i = root \/ dinode[i].type = "free"
       \/ \E d \in Inum, n \in Name : ents[d][n] = i

LEMMA SameHas ==
  ASSUME NEW q, SameLocal(q), NEW i
  PROVE  Has(q, i)' <=> Has(q, i)
BY DEF SameLocal, Has

\* Then nothing is lost that the others rely on.
LEMMA OthersKeep ==
  ASSUME FsInv, NEW p \in Proc, OthersFrame(p), NEW q \in Proc, q # p
  PROVE  Shape(q)' /\ HasOf(q)' /\ KnowOf(q)' /\ NewOf(q)'
<1>1. SameLocal(q) /\ Shape(q) /\ HasOf(q) /\ KnowOf(q) /\ NewOf(q)
  BY DEF OthersFrame, SameOthers, FsInv
<1>2. cur[q] \in Ref /\ ip[q] \in Ref /\ Has(q, cur[q]) /\ Has(q, ip[q])
  BY DEF Has, FsInv, LocalOK
<1>3. (Linking(q)' <=> Linking(q)) /\ (nameiparent(q)' <=> nameiparent(q)) /\ (New(q)' <=> New(q))
  BY <1>1 DEF SameLocal, Linking, nameiparent, New
<1>4. Shape(q)'
  BY <1>1, <1>3 DEF SameLocal, Shape
<1>5. HasOf(q)'
  BY <1>1, SameHas DEF HasOf, OthersFrame
<1>6. KnowOf(q)'
  <2>1. Linking(q) => ip[q] \in Inum
    BY <1>1 DEF Linking, Shape, nameiparent
  <2>2. pc[q] \in {"made", "victim"} \/ (pc[q] = "found" /\ nameiparent(q)) => cur[q] \in Inum
    BY <1>1 DEF Shape
  <2>3. Linking(q)' => dinode'[ip'[q]].type # "dir"
    BY <1>1, <1>2, <1>3, <2>1 DEF KnowOf, SameLocal, OthersFrame
  <2>4. pc'[q] = "found" /\ nameiparent(q)' => dinode'[cur'[q]].type = "dir"
    BY <1>1, <1>2, <1>3, <2>2 DEF KnowOf, SameLocal, OthersFrame
  <2>5. ASSUME pc[q] \in {"made", "victim"}
        PROVE  /\ lock'[cur[q]] = q /\ valid'[cur[q]] /\ dinode'[cur[q]].type = "dir"
               /\ ents'[cur[q]] = ents[cur[q]]
    <3>1. cur[q] \in Inum /\ lock[cur[q]] = q /\ valid[cur[q]] /\ dinode[cur[q]].type = "dir"
      BY <1>1, <2>2, <2>5 DEF KnowOf
    <3>2. q # None
      BY FsAssumption
    <3> QED BY <1>2, <3>1, <3>2 DEF OthersFrame
  <2> QED BY <1>1, <2>3, <2>4, <2>5 DEF KnowOf, SameLocal
<1>7. NewOf(q)'
  <2>1. SUFFICES ASSUME New(q) PROVE NewOf(q)'
    BY <1>3 DEF NewOf
  <2>2. PICK i \in Inum : i = ip[q] /\ dinode[i].type # "free"
    BY <1>1, <1>2, <2>1 DEF New, Shape, HasOf
  <2>3. /\ i # root /\ dinode[i].nlink = 0 /\ dinode[i].addr = 0
        /\ \A n \in Name : ents[i][n] = 0
        /\ \A d \in Inum, n \in Name : ents[d][n] # i
        /\ \A r \in Proc : r # q => ~Has(r, i)
        /\ i \notin {cwd[q], file[q], cur[q]}
    BY <1>1, <2>1, <2>2 DEF NewOf
  <2>a. ~Has(p, i) /\ i # 0
    BY <2>2, <2>3, FsAssumption
  <2>4. dinode'[i] = dinode[i] /\ ents'[i] = ents[i]
    BY <2>2, <2>a DEF OthersFrame
  <2>5. \A d \in Inum, n \in Name : ents'[d][n] # i
    BY <2>2, <2>3, <2>a DEF OthersFrame
  <2>6. ASSUME NEW r \in Proc, r # q PROVE ~Has(r, i)'
    <3>1. CASE r = p
      BY <2>2, <2>3, <2>a, <3>1 DEF OthersFrame
    <3>2. CASE r # p
      BY <2>3, <2>6, <3>2, SameHas DEF OthersFrame, SameOthers
    <3> QED BY <3>1, <3>2
  <2>7. ip'[q] = i /\ i \notin {cwd'[q], file'[q], cur'[q]}
    BY <1>1, <2>2, <2>3 DEF SameLocal
  <2> QED BY <2>3, <2>4, <2>5, <2>6, <2>7 DEF NewOf
<1> QED BY <1>4, <1>5, <1>6, <1>7

\* Names and directories stay if no directory and no type changes.
LEMMA NamesFrame ==
  ASSUME NameInv, TreeInv, UNCHANGED ents, \A i \in Inum : dinode'[i].type = dinode[i].type,
         ents \in [Inum -> [Entry -> Ref]]
  PROVE  /\ NameInv' /\ TreeInv'
         /\ \A i \in Inum : NamesOf(i)' = NamesOf(i) /\ DirsIn(i)' = DirsIn(i)
<1>1. \A d \in Inum, n \in Name : ents[d][n] \in Ref
  BY DEF Entry
<1>2. NameInv'
  BY <1>1 DEF NameInv, Ref
<1>3. TreeInv'
  BY DEF TreeInv
<1>4. \A i \in Inum : NamesOf(i)' = NamesOf(i) /\ DirsIn(i)' = DirsIn(i)
  BY <1>1 DEF NamesOf, DirsIn, Ref
<1> QED BY <1>2, <1>3, <1>4

\* Whose links are pending stays if p's call stays in or out of that part of link().
LEMMA LinkersFrame ==
  ASSUME NEW p \in Proc, SameOthers(p), Linking(p)' <=> Linking(p), Linking(p) => ip'[p] = ip[p],
         NEW i
  PROVE  LinksTo(i)' = LinksTo(i)
<1>1. \A q \in Proc : (Linking(q)' <=> Linking(q)) /\ (Linking(q) => ip'[q] = ip[q])
  BY DEF SameOthers, SameLocal, Linking
<1> QED BY <1>1 DEF LinksTo

\* The copy in the table is that of the disk.
LEMMA LoadedIs ==
  ASSUME FsInv, NEW i \in Inum
  PROVE  Loaded(i) = dinode[i] /\ (Ilock(i) => dinode[i].type # "free" /\ lock[i] = None)
BY DEF FsInv, CopyInv, Loaded, Ilock

\* The copy that ilock() makes.
LEMMA PeekStep ==
  ASSUME FsInv, NEW i \in Inum, dinode[i].type # "free", Peek(i), UNCHANGED dinode
  PROVE  /\ inode' \in [Inum -> Inode] /\ valid' \in [Inum -> BOOLEAN] /\ CopyInv'
         /\ \A j \in Inum : valid[j] => valid'[j]
<1>1. inode' = [inode EXCEPT ![i] = dinode[i]] /\ valid' = [valid EXCEPT ![i] = TRUE]
  BY LoadedIs DEF Peek
<1>2. inode \in [Inum -> Inode] /\ valid \in [Inum -> BOOLEAN] /\ dinode \in [Inum -> Inode] /\ CopyInv
  BY DEF FsInv, TableOK, DiskOK
<1>3. dinode[i] \in Inode
  BY <1>2
<1>4. inode' \in [Inum -> Inode] /\ valid' \in [Inum -> BOOLEAN]
  BY <1>1, <1>2, <1>3
<1>5. \A j \in Inum : /\ inode'[j] = IF j = i THEN dinode[i] ELSE inode[j]
                      /\ valid'[j] = IF j = i THEN TRUE ELSE valid[j]
  BY <1>1, <1>2
<1>6. CopyInv'
  BY <1>2, <1>5 DEF CopyInv
<1> QED BY <1>4, <1>5, <1>6

\* Locks that nobody takes or gives up.
LEMMA LocksFrame ==
  ASSUME FsInv, NEW p \in Proc, SameOthers(p), UNCHANGED lock, pc[p] \notin {"made", "victim"}
  PROVE  LockInv'
<1>1. SUFFICES ASSUME NEW i \in Inum, lock[i] # None
               PROVE  \E q \in Proc : lock[i] = q /\ pc'[q] \in {"made", "victim"} /\ cur'[q] = i
  BY DEF LockInv
<1>2. PICK q \in Proc : lock[i] = q /\ pc[q] \in {"made", "victim"} /\ cur[q] = i
  BY <1>1 DEF FsInv, LockInv
<1> QED BY <1>2 DEF SameOthers, SameLocal

\* A step that writes nothing to the disk, and gives p pointers to the root, to inodes p has, or that
\* it finds by name.
Quiet(p) ==
  /\ UNCHANGED disk /\ SameOthers(p)
  /\ \A i \in Inum : valid[i] => valid'[i]
  /\ \A i \in Inum : lock[i] # None /\ lock[i] # p => lock'[i] = lock[i]
  /\ \A i \in Inum : Has(p, i)' =>
       Has(p, i) \/ i = root \/ \E d \in Inum, n \in Name : ents[d][n] = i
  /\ (Linking(p)' <=> Linking(p)) /\ (Linking(p) => ip'[p] = ip[p])
  /\ \A i \in Inum : ref'[i] - ref[i] = Mine(p, i)' - Mine(p, i)

LEMMA QuietStep ==
  ASSUME FsInv, NEW p \in Proc, Quiet(p), TableOK', LocalOK', CopyInv', LockInv',
         Shape(p)', KnowOf(p)', ~New(p)'
  PROVE  FsInv'
<1>0. UNCHANGED <<dinode, ents, used>> /\ SameOthers(p)
  BY DEF Quiet, disk
<1>1. DiskOK'
  BY <1>0 DEF FsInv, DiskOK
<1>2. OthersFrame(p)
  BY <1>0 DEF Quiet, OthersFrame
<1>3. \A q \in Proc : q # p => Shape(q)' /\ HasOf(q)' /\ KnowOf(q)' /\ NewOf(q)'
  BY <1>2, OthersKeep
<1>4. HasOf(p)'
  <2>1. ASSUME NEW i \in Inum, Has(p, i)' PROVE dinode[i].type # "free"
    <3>1. CASE Has(p, i)
      BY <3>1 DEF FsInv, HasOf
    <3>2. CASE i = root
      BY <3>2 DEF FsInv, DiskOK
    <3>3. CASE \E d \in Inum, n \in Name : ents[d][n] = i
      <4>1. i # 0
        BY FsAssumption
      <4> QED BY <3>3, <4>1 DEF FsInv, NameInv
    <3> QED BY <2>1, <3>1, <3>2, <3>3 DEF Quiet
  <2> QED BY <1>0, <2>1 DEF HasOf
<1>5. NewOf(p)'
  BY DEF NewOf
<1>6. /\ NameInv' /\ TreeInv'
      /\ \A i \in Inum : NamesOf(i)' = NamesOf(i) /\ DirsIn(i)' = DirsIn(i)
  BY <1>0, NamesFrame DEF FsInv, DiskOK
<1>7. \A i \in Inum : LinksTo(i)' = LinksTo(i)
  BY LinkersFrame DEF Quiet
<1>8. FileLinks' /\ DirLinks'
  BY <1>0, <1>6, <1>7 DEF FsInv, FileLinks, DirLinks
<1>9. BlocksOwned'
  BY <1>0 DEF FsInv, BlocksOwned
<1>10. RefsExact'
  BY RefsStep DEF FsInv, TableOK, Quiet
<1> QED BY <1>1, <1>3, <1>4, <1>5, <1>6, <1>8, <1>9, <1>10 DEF FsInv

----------------------------------------------------------------------------
(* Steps that write nothing to the disk. *)

\* A function on 1..n is a sequence.
LEMMA FunSeq ==
  ASSUME NEW S, NEW n \in Nat, NEW f \in [1..n -> S]
  PROVE  f \in Seq(S) /\ Len(f) = n
OBVIOUS

\* The list of iput()s that a step leaves.
LEMMA PutIs ==
  ASSUME LocalOK, NEW p \in Proc, NEW s \in Seq(Inum), Len(s) <= 2, Put(p, s)
  PROVE  /\ puts' \in [Proc -> Seq(Inum \X BOOLEAN)] /\ \A q \in Proc : Len(puts'[q]) <= 2
         /\ \A q \in Proc : q # p => puts'[q] = puts[q]
         /\ DOMAIN puts'[p] = 1..Len(s) /\ \A k \in 1..Len(s) : puts'[p][k] = <<s[k], FALSE>>
<1> DEFINE f == [k \in DOMAIN s |-> <<s[k], FALSE>>]
<1>1. Len(s) \in Nat /\ DOMAIN s = 1..Len(s) /\ \A k \in 1..Len(s) : s[k] \in Inum
  OBVIOUS
<1>2. f \in [1..Len(s) -> Inum \X BOOLEAN]
  BY <1>1
<1>3. f \in Seq(Inum \X BOOLEAN) /\ Len(f) = Len(s)
  <2> HIDE DEF f
  <2>1. Len(s) \in Nat
    BY <1>1
  <2> QED BY <1>2, <2>1, FunSeq, Zenon
<1>4. DOMAIN f = 1..Len(s) /\ \A k \in 1..Len(s) : f[k] = <<s[k], FALSE>>
  BY <1>1
<1>5. puts' = [puts EXCEPT ![p] = f]
  BY DEF Put
<1>6. puts \in [Proc -> Seq(Inum \X BOOLEAN)] /\ \A q \in Proc : Len(puts[q]) <= 2
  BY DEF LocalOK
<1> HIDE DEF f
<1>7. puts' \in [Proc -> Seq(Inum \X BOOLEAN)]
  BY <1>3, <1>5, <1>6
<1>8. puts'[p] = f /\ \A q \in Proc : q # p => puts'[q] = puts[q]
  BY <1>5, <1>6
<1>9. \A q \in Proc : Len(puts'[q]) <= 2
  BY <1>3, <1>6, <1>8
<1> QED BY <1>4, <1>7, <1>8, <1>9

LEMMA PutOne ==
  ASSUME LocalOK, NEW p \in Proc, NEW a \in Inum, Put(p, <<a>>)
  PROVE  /\ puts' \in [Proc -> Seq(Inum \X BOOLEAN)] /\ \A q \in Proc : Len(puts'[q]) <= 2
         /\ \A q \in Proc : q # p => puts'[q] = puts[q]
         /\ \A i \in Inum : (PutTo(p, 1, i)' <=> i = a) /\ ~PutTo(p, 2, i)'
         /\ \A i \in Inum : Has(p, i)' => i \in {cwd'[p], file'[p], cur'[p], ip'[p], a}
<1> DEFINE s == <<a>>
<1>1. s \in Seq(Inum) /\ Len(s) = 1 /\ s[1] = a
  OBVIOUS
<1> HIDE DEF s
<1>2. Put(p, s)
  BY DEF s
<1>3. /\ puts' \in [Proc -> Seq(Inum \X BOOLEAN)] /\ \A q \in Proc : Len(puts'[q]) <= 2
      /\ \A q \in Proc : q # p => puts'[q] = puts[q]
      /\ DOMAIN puts'[p] = 1..1 /\ puts'[p][1] = <<a, FALSE>>
  <2>1. Len(s) <= 2
    BY <1>1
  <2>2. /\ puts' \in [Proc -> Seq(Inum \X BOOLEAN)] /\ \A q \in Proc : Len(puts'[q]) <= 2
        /\ \A q \in Proc : q # p => puts'[q] = puts[q]
        /\ DOMAIN puts'[p] = 1..Len(s) /\ \A k \in 1..Len(s) : puts'[p][k] = <<s[k], FALSE>>
    BY <1>1, <1>2, <2>1, PutIs, Zenon
  <2>3. \A k \in 1..Len(s) : puts'[p][k] = <<s[k], FALSE>>
    BY <2>2, Zenon
  <2>4. 1 \in 1..Len(s) /\ (Len(s) = 2 => 2 \in 1..Len(s))
    BY <1>1
  <2> QED BY <1>1, <2>2, <2>3, <2>4, Zenon
<1>4. \A i \in Inum : (PutTo(p, 1, i)' <=> i = a) /\ ~PutTo(p, 2, i)'
  BY <1>3 DEF PutTo
<1>5. \A k \in DOMAIN puts'[p] : k = 1
  BY <1>3
<1>6. ASSUME NEW i \in Inum, Has(p, i)' PROVE i \in {cwd'[p], file'[p], cur'[p], ip'[p], a}
  <2>1. \A x, y : <<x, FALSE>> = <<y, FALSE>> => x = y
    OBVIOUS
  <2>2. ASSUME NEW k \in DOMAIN puts'[p], puts'[p][k] = <<i, FALSE>> PROVE i \in {a}
    BY <1>3, <1>5, <2>1, <2>2, Zenon
  <2> QED BY <1>6, <2>2 DEF Has
<1> QED BY <1>3, <1>4, <1>6

LEMMA PutTwo ==
  ASSUME LocalOK, NEW p \in Proc, NEW a \in Inum, NEW b \in Inum, Put(p, <<a, b>>)
  PROVE  /\ puts' \in [Proc -> Seq(Inum \X BOOLEAN)] /\ \A q \in Proc : Len(puts'[q]) <= 2
         /\ \A q \in Proc : q # p => puts'[q] = puts[q]
         /\ \A i \in Inum : (PutTo(p, 1, i)' <=> i = a) /\ (PutTo(p, 2, i)' <=> i = b)
         /\ \A i \in Inum : Has(p, i)' => i \in {cwd'[p], file'[p], cur'[p], ip'[p], a, b}
<1> DEFINE s == <<a, b>>
<1>1. s \in Seq(Inum) /\ Len(s) = 2 /\ s[1] = a /\ s[2] = b
  OBVIOUS
<1> HIDE DEF s
<1>2. Put(p, s)
  BY DEF s
<1>3. /\ puts' \in [Proc -> Seq(Inum \X BOOLEAN)] /\ \A q \in Proc : Len(puts'[q]) <= 2
      /\ \A q \in Proc : q # p => puts'[q] = puts[q]
      /\ DOMAIN puts'[p] = 1..2 /\ puts'[p][1] = <<a, FALSE>> /\ puts'[p][2] = <<b, FALSE>>
  <2>1. Len(s) <= 2
    BY <1>1
  <2>2. /\ puts' \in [Proc -> Seq(Inum \X BOOLEAN)] /\ \A q \in Proc : Len(puts'[q]) <= 2
        /\ \A q \in Proc : q # p => puts'[q] = puts[q]
        /\ DOMAIN puts'[p] = 1..Len(s) /\ \A k \in 1..Len(s) : puts'[p][k] = <<s[k], FALSE>>
    BY <1>1, <1>2, <2>1, PutIs, Zenon
  <2>3. \A k \in 1..Len(s) : puts'[p][k] = <<s[k], FALSE>>
    BY <2>2, Zenon
  <2>4. 1 \in 1..Len(s) /\ (Len(s) = 2 => 2 \in 1..Len(s))
    BY <1>1
  <2> QED BY <1>1, <2>2, <2>3, <2>4, Zenon
<1>4. \A i \in Inum : (PutTo(p, 1, i)' <=> i = a) /\ (PutTo(p, 2, i)' <=> i = b)
  BY <1>3 DEF PutTo
<1>5. \A k \in DOMAIN puts'[p] : k = 1 \/ k = 2
  BY <1>3
<1>6. ASSUME NEW i \in Inum, Has(p, i)' PROVE i \in {cwd'[p], file'[p], cur'[p], ip'[p], a, b}
  <2>1. \A x, y : <<x, FALSE>> = <<y, FALSE>> => x = y
    OBVIOUS
  <2>2. ASSUME NEW k \in DOMAIN puts'[p], puts'[p][k] = <<i, FALSE>> PROVE i \in {a, b}
    BY <1>3, <1>5, <2>1, <2>2, Zenon
  <2> QED BY <1>6, <2>2 DEF Has
<1> QED BY <1>3, <1>4, <1>6

LEMMA PutNone ==
  ASSUME NEW p, puts[p] = <<>>
  PROVE  /\ \A i \in Inum : ~PutTo(p, 1, i) /\ ~PutTo(p, 2, i)
         /\ \A i \in Inum : Has(p, i) => i \in {cwd[p], file[p], cur[p], ip[p]}
BY DEF PutTo, Has

LEMMA PutNoneNext ==
  ASSUME NEW p, puts'[p] = <<>>
  PROVE  /\ \A i \in Inum : ~PutTo(p, 1, i)' /\ ~PutTo(p, 2, i)'
         /\ \A i \in Inum : Has(p, i)' => i \in {cwd'[p], file'[p], cur'[p], ip'[p]}
BY DEF PutTo, Has

\* The end of a call: only the lists change, the call's names are forgotten.
LEMMA EndOpStep ==
  ASSUME FsInv, NEW p \in Proc, EndOp(p)
  PROVE  FsInv'
<1>1. LocalOK /\ TableOK /\ CopyInv /\ Shape(p)
  BY DEF FsInv
<1>2. /\ pc[p] = "end" /\ puts[p] = <<>>
      /\ UNCHANGED <<dinode, ents, used, inode, valid, ref, lock, cwd, file, cur, ip, puts>>
      /\ pc' = [pc EXCEPT ![p] = "idle"] /\ op' = [op EXCEPT ![p] = None]
      /\ path' = [path EXCEPT ![p] = <<>>] /\ new' = [new EXCEPT ![p] = <<>>]
  BY DEF EndOp, At, Goto, disk, table, held
<1>3. LocalOK'
  <2>1. pc' \in [Proc -> Positions] /\ op' \in [Proc -> Walks \cup {"close", "write", None}]
    BY <1>1, <1>2 DEF LocalOK, Positions
  <2>2. path' \in [Proc -> Seq(Name)] /\ new' \in [Proc -> Path \cup {<<>>}]
    BY <1>1, <1>2 DEF LocalOK
  <2> QED BY <1>1, <1>2, <2>1, <2>2 DEF LocalOK
<1>4. pc'[p] = "idle" /\ SameOthers(p)
  BY <1>1, <1>2 DEF LocalOK, SameOthers, SameLocal
<1>5. TableOK' /\ CopyInv'
  BY <1>1, <1>2 DEF TableOK, CopyInv
<1>6. Quiet(p)
  <2>1. ~Linking(p) /\ ~Linking(p)'
    BY <1>2, <1>4 DEF Linking
  <2>2. \A i \in Inum : Has(p, i)' => Has(p, i)
    BY <1>2 DEF Has
  <2>3. \A i \in Inum : Mine(p, i)' = Mine(p, i) /\ Mine(p, i) \in Nat
    BY <1>2, <1>4, PtrIs DEF Mine, PutTo
  <2> QED BY <1>1, <1>2, <1>4, <2>1, <2>2, <2>3 DEF Quiet, disk, TableOK
<1>7. LockInv'
  BY <1>2, <1>4, LocksFrame
<1>8. Shape(p)' /\ KnowOf(p)' /\ ~New(p)'
  BY <1>1, <1>2, <1>4 DEF Shape, KnowOf, New, Linking
<1> QED BY <1>3, <1>5, <1>6, <1>7, <1>8, QuietStep

\* One value of a function changes.
LEMMA SetIs ==
  ASSUME NEW S, NEW T, NEW f \in [S -> T], NEW p \in S, NEW v \in T, NEW g, g = [f EXCEPT ![p] = v]
  PROVE  g \in [S -> T] /\ g[p] = v /\ \A q \in S : q # p => g[q] = f[q]
OBVIOUS

LEMMA GotoIs ==
  ASSUME LocalOK, NEW p \in Proc, NEW s \in Positions, Goto(p, s)
  PROVE  pc' \in [Proc -> Positions] /\ pc'[p] = s /\ \A q \in Proc : q # p => pc'[q] = pc[q]
BY DEF LocalOK, Goto

LEMMA HoldIs ==
  ASSUME LocalOK, NEW p \in Proc, NEW c \in Ref, NEW i \in Ref, Hold(p, c, i)
  PROVE  /\ cur' \in [Proc -> Ref] /\ cur'[p] = c /\ \A q \in Proc : q # p => cur'[q] = cur[q]
         /\ ip' \in [Proc -> Ref] /\ ip'[p] = i /\ \A q \in Proc : q # p => ip'[q] = ip[q]
BY DEF LocalOK, Hold

\* A list of one or two, and the rest of it.
LEMMA TailOf ==
  ASSUME NEW S, NEW s \in Seq(S), s # <<>>, Len(s) <= 2
  PROVE  /\ Tail(s) \in Seq(S) /\ Len(Tail(s)) <= 1
         /\ DOMAIN s = (IF Len(s) = 2 THEN {1, 2} ELSE {1}) /\ s[1] \in S
         /\ DOMAIN Tail(s) = (IF Len(s) = 2 THEN {1} ELSE {}) /\ (Len(s) = 2 => Tail(s)[1] = s[2])
<1>1. Len(s) \in Nat /\ Len(s) # 0 /\ DOMAIN s = 1..Len(s)
  OBVIOUS
<1>2. Len(s) \in {1, 2}
  BY <1>1
<1>3. Tail(s) \in Seq(S) /\ Len(Tail(s)) = Len(s) - 1 /\ DOMAIN Tail(s) = 1..Len(Tail(s))
      /\ \A k \in 1..Len(s) - 1 : Tail(s)[k] = s[k + 1]
  <2>1. Tail(s) \in Seq(S) /\ Len(Tail(s)) = Len(s) - 1 /\ \A k \in 1..Len(Tail(s)) : Tail(s)[k] = s[k + 1]
    BY HeadTailProperties
  <2> QED BY <2>1
<1>4. CASE Len(s) = 1
  <2>1. 1..1 = {1} /\ 1..0 = {}
    OBVIOUS
  <2>2. DOMAIN s = {1} /\ DOMAIN Tail(s) = {}
    BY <1>1, <1>3, <1>4, <2>1
  <2> QED BY <1>3, <1>4, <2>2
<1>5. CASE Len(s) = 2
  <2>1. 1..1 = {1} /\ 1..2 = {1, 2}
    OBVIOUS
  <2>a. Len(Tail(s)) = 1
    BY <1>3, <1>5
  <2>2. DOMAIN s = {1, 2} /\ DOMAIN Tail(s) = {1}
    <3>1. DOMAIN s = 1..2
      BY <1>1, <1>5
    <3>2. DOMAIN Tail(s) = 1..1
      BY <1>3, <2>a
    <3> QED BY <2>1, <3>1, <3>2
  <2>3. Tail(s)[1] = s[2]
    BY <1>3, <1>5
  <2> QED BY <1>3, <1>5, <2>2, <2>3
<1> QED BY <1>2, <1>4, <1>5

\* The end of an iput().
LEMMA PutDrop ==
  ASSUME LocalOK, NEW p \in Proc, puts[p] # <<>>, puts' = [puts EXCEPT ![p] = Tail(@)],
         UNCHANGED <<cwd, file, cur, ip, pc>>
  PROVE  /\ puts' \in [Proc -> Seq(Inum \X BOOLEAN)] /\ \A q \in Proc : Len(puts'[q]) <= 2
         /\ \A q \in Proc : q # p => puts'[q] = puts[q]
         /\ puts[p][1][1] \in Inum
         /\ \A i \in Inum : /\ PutTo(p, 1, i) <=> i = puts[p][1][1]
                            /\ PutTo(p, 1, i)' <=> PutTo(p, 2, i)
                            /\ ~PutTo(p, 2, i)' /\ (Has(p, i)' => Has(p, i))
<1>1. puts \in [Proc -> Seq(Inum \X BOOLEAN)] /\ \A q \in Proc : Len(puts[q]) <= 2
  BY DEF LocalOK
<1> DEFINE s == puts[p]
           t == Tail(s)
<1>2. s \in Seq(Inum \X BOOLEAN) /\ s # <<>> /\ Len(s) <= 2
  BY <1>1
<1>4. puts' = [puts EXCEPT ![p] = t]
  OBVIOUS
<1> HIDE DEF s
<1>3. /\ Tail(s) \in Seq(Inum \X BOOLEAN) /\ Len(Tail(s)) <= 1
      /\ DOMAIN s = (IF Len(s) = 2 THEN {1, 2} ELSE {1}) /\ s[1] \in Inum \X BOOLEAN
      /\ DOMAIN Tail(s) = (IF Len(s) = 2 THEN {1} ELSE {}) /\ (Len(s) = 2 => Tail(s)[1] = s[2])
  BY <1>2, TailOf, Zenon
<1>5. /\ t \in Seq(Inum \X BOOLEAN) /\ Len(t) <= 2
      /\ DOMAIN t = (IF Len(s) = 2 THEN {1} ELSE {}) /\ (Len(s) = 2 => t[1] = s[2])
  BY <1>2, <1>3
<1> HIDE DEF t
<1>6. puts'[p] = t /\ (\A q \in Proc : q # p => puts'[q] = puts[q])
      /\ puts' \in [Proc -> Seq(Inum \X BOOLEAN)]
  BY <1>1, <1>4, <1>5
<1>7. \A q \in Proc : Len(puts'[q]) <= 2
  BY <1>1, <1>5, <1>6
<1>8. puts[p] = s
  BY DEF s
<1>9. s[1][1] \in Inum
  BY <1>3
<1>10. ASSUME NEW i \in Inum
      PROVE  /\ PutTo(p, 1, i) <=> i = puts[p][1][1]
             /\ PutTo(p, 1, i)' <=> PutTo(p, 2, i)
             /\ ~PutTo(p, 2, i)' /\ (Has(p, i)' => Has(p, i))
  <2>1. PutTo(p, 1, i) <=> i = puts[p][1][1]
    BY <1>3, <1>8 DEF PutTo
  <2>2. (PutTo(p, 1, i)' <=> PutTo(p, 2, i)) /\ ~PutTo(p, 2, i)'
    BY <1>3, <1>5, <1>6, <1>8 DEF PutTo
  <2>3. ASSUME NEW k \in DOMAIN puts'[p], puts'[p][k] = <<i, FALSE>>
        PROVE  2 \in DOMAIN puts[p] /\ puts[p][2] = <<i, FALSE>>
    <3>1. k = 1 /\ Len(s) = 2
      BY <1>5, <1>6, <2>3
    <3> QED BY <1>3, <1>5, <1>6, <1>8, <2>3, <3>1
  <2>4. Has(p, i)' => Has(p, i)
    BY <2>3 DEF Has
  <2> QED BY <2>1, <2>2, <2>4
<1> QED BY <1>6, <1>7, <1>8, <1>9, <1>10

LEMMA IputDropStep ==
  ASSUME FsInv, NEW p \in Proc, IputDrop(p)
  PROVE  FsInv'
<1>1. LocalOK /\ TableOK /\ CopyInv /\ Shape(p) /\ KnowOf(p)
  BY DEF FsInv
<1>2. /\ puts[p] # <<>> /\ ref' = [ref EXCEPT ![puts[p][1][1]] = @ - 1]
      /\ puts' = [puts EXCEPT ![p] = Tail(@)]
      /\ UNCHANGED <<dinode, ents, used, inode, valid, lock, cwd, file, pc, op, path, new, cur, ip>>
  BY DEF IputDrop, disk, held
<1>3. /\ puts' \in [Proc -> Seq(Inum \X BOOLEAN)] /\ \A q \in Proc : Len(puts'[q]) <= 2
      /\ \A q \in Proc : q # p => puts'[q] = puts[q]
      /\ puts[p][1][1] \in Inum
      /\ \A i \in Inum : /\ PutTo(p, 1, i) <=> i = puts[p][1][1]
                         /\ PutTo(p, 1, i)' <=> PutTo(p, 2, i)
                         /\ ~PutTo(p, 2, i)' /\ (Has(p, i)' => Has(p, i))
  BY <1>1, <1>2, PutDrop
<1>4. LocalOK'
  BY <1>1, <1>2, <1>3 DEF LocalOK
<1>5. SameOthers(p)
  BY <1>2, <1>3 DEF SameOthers, SameLocal
<1>6. TableOK' /\ CopyInv' /\ \A i \in Inum : ref'[i] = ref[i] - One(i = puts[p][1][1])
  <2>1. PICK a \in Inum : a = puts[p][1][1]
    BY <1>3
  <2>2. ref' = [ref EXCEPT ![a] = @ - 1] /\ ref \in [Inum -> Int]
    BY <1>1, <1>2, <2>1 DEF TableOK
  <2>3. ref' \in [Inum -> Int] /\ \A i \in Inum : ref'[i] = ref[i] - One(i = a)
    BY <2>2 DEF One
  <2> QED BY <1>1, <1>2, <2>1, <2>3 DEF TableOK, CopyInv
<1>7. pc[p] \notin {"idle", "found", "made", "victim", "write"}
  BY <1>1, <1>2 DEF Shape
<1>8. Quiet(p)
  <2>1. ASSUME NEW i \in Inum PROVE ref'[i] - ref[i] = Mine(p, i)' - Mine(p, i)
    <3>1. ref[i] \in Int
      BY <1>1 DEF TableOK
    <3> QED BY <1>2, <1>3, <1>6, <3>1 DEF Mine, One
  <2>2. Linking(p)' <=> Linking(p)
    BY <1>2 DEF Linking
  <2> QED BY <1>2, <1>3, <1>5, <2>1, <2>2 DEF Quiet, disk
<1>9. LockInv'
  BY <1>2, <1>5, <1>7, LocksFrame
<1>10. Shape(p)' /\ KnowOf(p)' /\ ~New(p)'
  BY <1>1, <1>2, <1>7 DEF Shape, KnowOf, New, Linking, nameiparent
<1> QED BY <1>4, <1>6, <1>8, <1>9, <1>10, QuietStep

\* Where namex() starts.
LEMMA StartIs ==
  ASSUME LocalOK, NEW p \in Proc, NEW s
  PROVE  StartOf(p, s) \in Inum /\ (StartOf(p, s) = root \/ Has(p, StartOf(p, s)))
BY FsAssumption DEF LocalOK, StartOf, root, Has

LEMMA BeginStep ==
  ASSUME PlainPaths, FsInv, NEW p \in Proc, NEW o \in Call, NEW s \in Path, NEW t \in Path,
         Begin(p, o, s, t)
  PROVE  FsInv'
<1>1. LocalOK /\ TableOK /\ CopyInv /\ Shape(p) /\ KnowOf(p)
  BY DEF FsInv
<1>c. PICK c \in Inum : c = StartOf(p, s) /\ (c = root \/ Has(p, c))
  BY <1>1, StartIs
<1>2. /\ pc[p] = "idle" /\ puts[p] = <<>> /\ o \in Walks /\ o # "link to"
      /\ op' = [op EXCEPT ![p] = o] /\ pc' = [pc EXCEPT ![p] = "namex"]
      /\ path' = [path EXCEPT ![p] = Elems(s)]
      /\ new' = [new EXCEPT ![p] = IF o = "link" THEN t ELSE <<>>]
      /\ cur' = [cur EXCEPT ![p] = c] /\ ip' = [ip EXCEPT ![p] = 0]
      /\ ref' = [ref EXCEPT ![c] = @ + 1]
      /\ UNCHANGED <<dinode, ents, used, inode, valid, lock, cwd, file, puts>>
  BY <1>c, FsAssumption DEF Begin, At, Goto, Hold, Walks, disk, held
<1>3. cur[p] = 0 /\ ip[p] = 0
  BY <1>1, <1>2 DEF Shape
<1>4. /\ pc'[p] = "namex" /\ op'[p] = o /\ cur'[p] = c /\ ip'[p] = 0
      /\ new'[p] = (IF o = "link" THEN t ELSE <<>>) /\ puts'[p] = <<>>
      /\ SameOthers(p)
  BY <1>1, <1>2 DEF LocalOK, SameOthers, SameLocal
<1>5. LocalOK'
  <2>1. pc' \in [Proc -> Positions] /\ op' \in [Proc -> Walks \cup {"close", "write", None}]
    BY <1>1, <1>2 DEF LocalOK, Positions
  <2>2. path' \in [Proc -> Seq(Name)] /\ new' \in [Proc -> Path \cup {<<>>}]
    BY <1>1, <1>2 DEF LocalOK, PlainPaths
  <2>3. cur' \in [Proc -> Ref] /\ ip' \in [Proc -> Ref]
    BY <1>1, <1>2 DEF LocalOK, Ref
  <2> QED BY <1>1, <1>2, <2>1, <2>2, <2>3 DEF LocalOK
<1>6. TableOK' /\ CopyInv' /\ \A i \in Inum : ref'[i] = ref[i] + One(i = c)
  <2>1. ref' \in [Inum -> Int] /\ \A i \in Inum : ref'[i] = ref[i] + One(i = c)
    <3>1. ref \in [Inum -> Int] /\ ref' = [ref EXCEPT ![c] = @ + 1]
      BY <1>1, <1>2 DEF TableOK
    <3>2. \A i \in Inum : ref[i] \in Int /\ ref'[i] = IF i = c THEN ref[i] + 1 ELSE ref[i]
      BY <3>1
    <3>3. ref' \in [Inum -> Int]
      BY <3>1
    <3> QED BY <3>2, <3>3 DEF One
  <2> QED BY <1>1, <1>2, <2>1 DEF TableOK, CopyInv
<1>7. Quiet(p)
  <2>1. ASSUME NEW i \in Inum PROVE ref'[i] - ref[i] = Mine(p, i)' - Mine(p, i)
    <3>1. ref[i] \in Int /\ i # 0
      BY <1>1, FsAssumption DEF TableOK
    <3>2. ~PutTo(p, 1, i) /\ ~PutTo(p, 2, i) /\ ~PutTo(p, 1, i)' /\ ~PutTo(p, 2, i)'
      BY <1>2, <1>4, PutNone, PutNoneNext
    <3>3. cwd'[p] = cwd[p] /\ file'[p] = file[p] /\ pc'[p] = "namex" /\ ref'[i] = ref[i] + One(i = c)
      BY <1>2, <1>4, <1>6
    <3>4. pc[p] = "idle" /\ cur[p] = 0 /\ ip[p] = 0 /\ cur'[p] = c /\ ip'[p] = 0
      BY <1>2, <1>3, <1>4
    <3> HIDE <1>1, <1>2, <1>4
    <3> QED BY <3>1, <3>2, <3>3, <3>4 DEF Mine, One
  <2>2. ~Linking(p) /\ ~Linking(p)'
    BY <1>2, <1>4 DEF Linking
  <2>3. ASSUME NEW i \in Inum, Has(p, i)' PROVE Has(p, i) \/ i = root
    <3>1. i \in {cwd[p], file[p], c, 0}
      BY <1>2, <1>4, <2>3, PutNoneNext
    <3> QED BY <1>c, <3>1, FsAssumption DEF Has
  <2> QED BY <1>2, <1>4, <2>1, <2>2, <2>3 DEF Quiet, disk
<1>8. LockInv'
  BY <1>2, <1>4, LocksFrame
<1>9. Shape(p)' /\ KnowOf(p)' /\ ~New(p)'
  BY <1>2, <1>4 DEF Shape, KnowOf, New, Linking, nameiparent
<1> QED BY <1>5, <1>6, <1>7, <1>8, <1>9, QuietStep

\* The pointers of a call that ends, and of the others.
EndPointers(p) ==
  /\ cwd' \in [Proc -> Inum] /\ file' \in [Proc -> Ref]
  /\ puts' \in [Proc -> Seq(Inum \X BOOLEAN)] /\ \A q \in Proc : Len(puts'[q]) <= 2
  /\ \A q \in Proc : q # p => cwd'[q] = cwd[q] /\ file'[q] = file[q] /\ puts'[q] = puts[q]

\* A call that has only iput()s left to do.
LEMMA EndLocals ==
  ASSUME LocalOK, NEW p \in Proc, EndPointers(p), Goto(p, "end"), Hold(p, 0, 0),
         UNCHANGED <<op, path, new>>
  PROVE  /\ LocalOK' /\ SameOthers(p) /\ Shape(p)' /\ KnowOf(p)' /\ NewOf(p)'
         /\ ~New(p)' /\ ~Linking(p)'
         /\ pc'[p] = "end" /\ cur'[p] = 0 /\ ip'[p] = 0
<1>1. pc' \in [Proc -> Positions] /\ pc'[p] = "end" /\ \A q \in Proc : q # p => pc'[q] = pc[q]
  BY GotoIs DEF Positions
<1>2. /\ cur' \in [Proc -> Ref] /\ cur'[p] = 0 /\ \A q \in Proc : q # p => cur'[q] = cur[q]
      /\ ip' \in [Proc -> Ref] /\ ip'[p] = 0 /\ \A q \in Proc : q # p => ip'[q] = ip[q]
  BY HoldIs DEF Ref
<1>3. LocalOK'
  BY <1>1, <1>2 DEF LocalOK, EndPointers
<1>4. SameOthers(p)
  BY <1>1, <1>2 DEF SameOthers, SameLocal, EndPointers
<1>5. Shape(p)' /\ KnowOf(p)' /\ NewOf(p)' /\ ~New(p)' /\ ~Linking(p)'
  BY <1>1, <1>2 DEF Shape, KnowOf, NewOf, New, Linking
<1> QED BY <1>1, <1>2, <1>3, <1>4, <1>5

\* It has written nothing to the disk.
LEMMA EndQuiet ==
  ASSUME FsInv, NEW p \in Proc, EndPointers(p), Goto(p, "end"), Hold(p, 0, 0),
         UNCHANGED <<disk, op, path, new>>, ~Linking(p),
         TableOK', CopyInv', LockInv', \A i \in Inum : valid[i] => valid'[i],
         \A i \in Inum : lock[i] # None /\ lock[i] # p => lock'[i] = lock[i],
         \A i \in Inum : Has(p, i)' => Has(p, i),
         \A i \in Inum : ref'[i] - ref[i] = Mine(p, i)' - Mine(p, i)
  PROVE  FsInv'
<1>1. /\ LocalOK' /\ SameOthers(p) /\ Shape(p)' /\ KnowOf(p)' /\ ~New(p)' /\ ~Linking(p)'
  BY EndLocals DEF FsInv
<1>2. Quiet(p)
  BY <1>1 DEF Quiet
<1> QED BY <1>1, <1>2, QuietStep

\* namex() finds nothing, or link() finds the new name taken.
LEMMA NoNameStep ==
  ASSUME FsInv, NEW p \in Proc, pc[p] = "namex" \/ (pc[p] = "found" /\ nameiparent(p)),
         puts[p] = <<>>, NoName(p),
         UNCHANGED <<disk, ref, lock, held, op, path, new>>, TableOK', CopyInv',
         \A i \in Inum : valid[i] => valid'[i]
  PROVE  FsInv'
<1>1. LocalOK /\ TableOK /\ Shape(p) /\ KnowOf(p)
  BY DEF FsInv
<1>2. pc[p] \in {"namex", "found"} /\ puts[p] = <<>> /\ UNCHANGED <<cwd, file>>
  BY DEF held
<1>3. PICK d \in Inum : d = cur[p]
  BY <1>1, <1>2 DEF Shape
<1>4. IF op[p] = "link to" THEN ip[p] \in Inum ELSE ip[p] = 0
  BY <1>1, <1>2 DEF Shape
<1>5. PICK s \in {"bad", "end"} : s = Failed(p) /\ (s = "bad" <=> op[p] = "link to")
  BY DEF Failed
<1>6. pc' \in [Proc -> Positions] /\ pc'[p] = s /\ \A q \in Proc : q # p => pc'[q] = pc[q]
  <2>1. s \in Positions /\ Goto(p, s)
    BY <1>5 DEF Positions, NoName
  <2> QED BY <1>1, <2>1, GotoIs
<1>7. /\ cur' \in [Proc -> Ref] /\ cur'[p] = 0 /\ \A q \in Proc : q # p => cur'[q] = cur[q]
      /\ ip' \in [Proc -> Ref] /\ ip'[p] = ip[p] /\ \A q \in Proc : q # p => ip'[q] = ip[q]
  <2>1. 0 \in Ref /\ ip[p] \in Ref /\ Hold(p, 0, ip[p])
    BY <1>1 DEF Ref, LocalOK, NoName
  <2> QED BY <1>1, <2>1, HoldIs
<1>8. /\ puts' \in [Proc -> Seq(Inum \X BOOLEAN)] /\ \A q \in Proc : Len(puts'[q]) <= 2
      /\ \A q \in Proc : q # p => puts'[q] = puts[q]
      /\ \A i \in Inum : (PutTo(p, 1, i)' <=> i = d) /\ ~PutTo(p, 2, i)'
      /\ \A i \in Inum : Has(p, i)' => i \in {cwd'[p], file'[p], cur'[p], ip'[p], d}
  <2>1. Put(p, <<d>>)
    BY <1>3 DEF NoName
  <2> QED BY <1>1, <2>1, PutOne
<1>9. LocalOK'
  BY <1>1, <1>2, <1>6, <1>7, <1>8 DEF LocalOK
<1>10. SameOthers(p)
  BY <1>2, <1>6, <1>7, <1>8 DEF SameOthers, SameLocal
<1>11. (Linking(p)' <=> Linking(p)) /\ ~New(p)'
  BY <1>2, <1>5, <1>6 DEF Linking, New
<1>12. Quiet(p)
  <2>1. ASSUME NEW i \in Inum PROVE Mine(p, i)' = Mine(p, i) /\ Mine(p, i) \in Nat /\ ref[i] \in Int
    <3>1. i # 0 /\ Mine(p, i) \in Nat /\ ref[i] \in Int
      BY <1>1, PtrIs, FsAssumption DEF TableOK
    <3>2. ~PutTo(p, 1, i) /\ ~PutTo(p, 2, i)
      BY <1>2, PutNone
    <3>3. cwd'[p] = cwd[p] /\ file'[p] = file[p] /\ pc[p] # "write" /\ pc'[p] # "write"
      BY <1>2, <1>5, <1>6
    <3> QED BY <1>3, <1>7, <1>8, <3>1, <3>2, <3>3 DEF Mine, One
  <2>2. \A i \in Inum : Has(p, i)' => Has(p, i)
    BY <1>2, <1>3, <1>7, <1>8, FsAssumption DEF Has
  <2> QED BY <1>7, <1>10, <1>11, <2>1, <2>2 DEF Quiet
<1>13. LockInv'
  BY <1>2, <1>10, LocksFrame
<1>14. Shape(p)'
  BY <1>4, <1>5, <1>6, <1>7 DEF Shape
<1>15. KnowOf(p)'
  BY <1>1, <1>5, <1>6, <1>7, <1>11 DEF KnowOf, disk
<1> QED BY <1>9, <1>11, <1>12, <1>13, <1>14, <1>15, QuietStep

\* What an element of a path is.
LEMMA HeadIs ==
  ASSUME LocalOK, NEW p \in Proc, path[p] # <<>>
  PROVE  /\ Head(path[p]) \in Name /\ Tail(path[p]) \in Seq(Name)
         /\ path[p] \in Seq(Name)
BY DEF LocalOK

\* A directory that a call works on, and an entry in it.
LEMMA LookupIs ==
  ASSUME FsInv, NEW p \in Proc, path[p] # <<>>, NEW d \in Inum
  PROVE  /\ dirlookup(d, Head(path[p])) \in Ref
         /\ dirlookup(d, Head(path[p])) # 0 =>
              /\ dirlookup(d, Head(path[p])) \in Inum
              /\ dinode[dirlookup(d, Head(path[p]))].type # "free"
              /\ dirlookup(d, Head(path[p])) # root
              /\ \E c \in Inum, m \in Name : ents[c][m] = dirlookup(d, Head(path[p]))
<1>1. PICK m \in Name : m = Head(path[p])
  BY HeadIs DEF FsInv
<1>2. ents[d][m] \in Ref
  BY DEF FsInv, DiskOK, Entry
<1>3. ents[d][m] # 0 => dinode[ents[d][m]].type # "free" /\ ents[d][m] # root
  BY DEF FsInv, NameInv
<1> QED BY <1>1, <1>2, <1>3 DEF dirlookup, Ref

LEMMA NamexTurn ==
  ASSUME FsInv, NEW p \in Proc, NamexStep(p)
  PROVE  FsInv'
<1>1. LocalOK /\ TableOK /\ Shape(p) /\ KnowOf(p)
  BY DEF FsInv
<1>2. /\ At(p, "namex") /\ pc[p] = "namex" /\ puts[p] = <<>> /\ path[p] # <<>>
      /\ UNCHANGED <<disk, lock, held, op, new, cwd, file>>
  BY DEF NamexStep, At, held
<1>3. PICK d \in Inum : d = cur[p]
  BY <1>1, <1>2 DEF Shape
<1>4. Ilock(d) /\ Peek(d) /\ dinode[d].type # "free" /\ Loaded(d) = dinode[d] /\ lock[d] = None
  BY <1>3, LoadedIs DEF NamexStep
<1>5. UNCHANGED <<dinode, ents, used>>
  BY <1>2 DEF disk
<1>6. /\ inode' \in [Inum -> Inode] /\ valid' \in [Inum -> BOOLEAN] /\ CopyInv'
      /\ \A j \in Inum : valid[j] => valid'[j]
  BY <1>4, <1>5, PeekStep
<1>7. PICK n \in Ref : /\ n = dirlookup(d, Head(path[p]))
                       /\ n # 0 => n \in Inum /\ \E c \in Inum, m \in Name : ents[c][m] = n
  BY <1>2, LookupIs
<1>8. /\ IF op[p] = "link to" THEN ip[p] \in Inum ELSE ip[p] = 0
      /\ op[p] \in Walks /\ (op[p] = "link" => new[p] \in Path)
  BY <1>1, <1>2 DEF Shape
<1>9. UNCHANGED ref => TableOK'
  BY <1>1, <1>2, <1>6 DEF TableOK
<1>10. CASE NoName(p) /\ UNCHANGED <<path, ref>>
  BY <1>2, <1>6, <1>9, <1>10, NoNameStep
<1>11. CASE /\ dinode[d].type = "dir" /\ nameiparent(p) /\ Len(path[p]) = 1
            /\ Goto(p, "found") /\ UNCHANGED <<path, ref, puts, cur, ip>>
  <2>1. pc' \in [Proc -> Positions] /\ pc'[p] = "found" /\ \A q \in Proc : q # p => pc'[q] = pc[q]
    BY <1>1, <1>11, GotoIs DEF Positions
  <2>2. LocalOK'
    BY <1>1, <1>2, <1>11, <2>1 DEF LocalOK
  <2>3. SameOthers(p)
    BY <1>2, <1>11, <2>1 DEF SameOthers, SameLocal
  <2>4. (Linking(p)' <=> Linking(p)) /\ ~New(p)'
    BY <1>2, <2>1 DEF Linking, New
  <2>5. Quiet(p)
    <3>1. ASSUME NEW i \in Inum PROVE Mine(p, i)' = Mine(p, i) /\ Mine(p, i) \in Nat /\ ref[i] \in Int
      BY <1>1, <1>2, <1>11, <2>1, PtrIs DEF Mine, PutTo, TableOK
    <3>2. \A i \in Inum : Has(p, i)' => Has(p, i)
      BY <1>2, <1>11 DEF Has
    <3> QED BY <1>2, <1>6, <1>11, <2>3, <2>4, <3>1, <3>2 DEF Quiet
  <2>6. LockInv'
    BY <1>2, <2>3, LocksFrame
  <2>7. nameiparent(p)'
    BY <1>2, <1>11 DEF nameiparent
  <2>8. Shape(p)'
    BY <1>2, <1>3, <1>8, <1>11, <2>1, <2>7 DEF Shape
  <2>9. KnowOf(p)'
    BY <1>1, <1>2, <1>3, <1>5, <1>11, <2>1, <2>4 DEF KnowOf
  <2> QED BY <1>6, <1>9, <1>11, <2>2, <2>4, <2>5, <2>6, <2>8, <2>9, QuietStep
<1>12. CASE /\ n # 0
            /\ ref' = [ref EXCEPT ![n] = @ + 1]
            /\ Put(p, <<d>>) /\ Hold(p, n, ip[p])
            /\ path' = [path EXCEPT ![p] = Tail(@)]
            /\ UNCHANGED pc
  <2>1. /\ cur' \in [Proc -> Ref] /\ cur'[p] = n /\ \A q \in Proc : q # p => cur'[q] = cur[q]
        /\ ip' \in [Proc -> Ref] /\ ip'[p] = ip[p] /\ \A q \in Proc : q # p => ip'[q] = ip[q]
    <3>1. ip[p] \in Ref
      BY <1>1 DEF LocalOK
    <3> QED BY <1>1, <1>12, <3>1, HoldIs
  <2>2. /\ puts' \in [Proc -> Seq(Inum \X BOOLEAN)] /\ \A q \in Proc : Len(puts'[q]) <= 2
        /\ \A q \in Proc : q # p => puts'[q] = puts[q]
        /\ \A i \in Inum : (PutTo(p, 1, i)' <=> i = d) /\ ~PutTo(p, 2, i)'
        /\ \A i \in Inum : Has(p, i)' => i \in {cwd'[p], file'[p], cur'[p], ip'[p], d}
    BY <1>1, <1>12, PutOne
  <2>3. path' \in [Proc -> Seq(Name)] /\ \A q \in Proc : q # p => path'[q] = path[q]
    BY <1>1, <1>2, <1>12, HeadIs DEF LocalOK
  <2>4. LocalOK'
    BY <1>1, <1>2, <1>12, <2>1, <2>2, <2>3 DEF LocalOK
  <2>5. SameOthers(p)
    BY <1>2, <1>12, <2>1, <2>2, <2>3 DEF SameOthers, SameLocal
  <2>6. (Linking(p)' <=> Linking(p)) /\ ~New(p)'
    BY <1>2, <1>12 DEF Linking, New
  <2>7. ref' \in [Inum -> Int] /\ \A i \in Inum : ref'[i] = ref[i] + One(i = n)
    <3>1. ref \in [Inum -> Int] /\ n \in Inum
      BY <1>1, <1>7, <1>12 DEF TableOK
    <3>2. \A i \in Inum : ref[i] \in Int /\ ref'[i] = IF i = n THEN ref[i] + 1 ELSE ref[i]
      BY <1>12, <3>1
    <3>3. ref' \in [Inum -> Int]
      BY <1>12, <3>1
    <3> QED BY <3>2, <3>3 DEF One
  <2>8. Quiet(p)
    <3>1. ASSUME NEW i \in Inum PROVE ref'[i] - ref[i] = Mine(p, i)' - Mine(p, i)
      <4>1. i # 0 /\ ref[i] \in Int /\ ref'[i] = ref[i] + One(i = n)
        BY <1>1, <2>7, FsAssumption DEF TableOK
      <4>2. ~PutTo(p, 1, i) /\ ~PutTo(p, 2, i)
        BY <1>2, PutNone
      <4>3. cwd'[p] = cwd[p] /\ file'[p] = file[p] /\ pc[p] = "namex" /\ pc'[p] = "namex"
        BY <1>2, <1>12
      <4> QED BY <1>3, <2>1, <2>2, <4>1, <4>2, <4>3 DEF Mine, One
    <3>2. \A i \in Inum : Has(p, i)' => Has(p, i) \/ i = n
      BY <1>2, <1>3, <2>1, <2>2 DEF Has
    <3> QED BY <1>2, <1>6, <1>7, <1>12, <2>1, <2>5, <2>6, <3>1, <3>2 DEF Quiet
  <2>9. LockInv'
    BY <1>2, <2>5, LocksFrame
  <2>10. Shape(p)'
    <3>1. n \in Inum /\ pc'[p] = "namex" /\ op'[p] = op[p] /\ new'[p] = new[p]
      BY <1>2, <1>7, <1>12
    <3> QED BY <1>8, <2>1, <3>1 DEF Shape
  <2>11. KnowOf(p)'
    BY <1>1, <1>2, <1>5, <1>12, <2>1, <2>6 DEF KnowOf
  <2>12. TableOK'
    BY <1>1, <1>2, <1>6, <2>7 DEF TableOK
  <2> QED BY <1>6, <2>4, <2>6, <2>8, <2>9, <2>10, <2>11, <2>12, QuietStep
<1> QED BY <1>3, <1>4, <1>7, <1>10, <1>11, <1>12 DEF NamexStep

LEMMA NamexEndStep ==
  ASSUME FsInv, NEW p \in Proc, NamexEnd(p)
  PROVE  FsInv'
<1>1. LocalOK /\ TableOK /\ CopyInv /\ Shape(p) /\ KnowOf(p)
  BY DEF FsInv
<1>2. /\ At(p, "namex") /\ pc[p] = "namex" /\ puts[p] = <<>>
      /\ UNCHANGED <<disk, inode, valid, ref, lock, held, op, path, new, cwd, file>>
      /\ UNCHANGED <<dinode, ents, used>>
  BY DEF NamexEnd, At, held, disk, table
<1>3. PICK d \in Inum : d = cur[p]
  BY <1>1, <1>2 DEF Shape
<1>4. TableOK' /\ CopyInv'
  BY <1>1, <1>2 DEF TableOK, CopyInv
<1>5. CASE NoName(p)
  BY <1>2, <1>4, <1>5, NoNameStep
<1>6. CASE ~nameiparent(p) /\ Goto(p, "found") /\ Hold(p, 0, d) /\ UNCHANGED puts
  <2>1. /\ cur' \in [Proc -> Ref] /\ cur'[p] = 0 /\ \A q \in Proc : q # p => cur'[q] = cur[q]
        /\ ip' \in [Proc -> Ref] /\ ip'[p] = d /\ \A q \in Proc : q # p => ip'[q] = ip[q]
    <3>1. 0 \in Ref /\ d \in Ref
      BY DEF Ref
    <3> QED BY <1>1, <1>6, <3>1, HoldIs
  <2>2. pc' \in [Proc -> Positions] /\ pc'[p] = "found" /\ \A q \in Proc : q # p => pc'[q] = pc[q]
    BY <1>1, <1>6, GotoIs DEF Positions
  <2>3. LocalOK'
    BY <1>1, <1>2, <1>6, <2>1, <2>2 DEF LocalOK
  <2>4. SameOthers(p)
    BY <1>2, <1>6, <2>1, <2>2 DEF SameOthers, SameLocal
  <2>5. op[p] # "link to" /\ ip[p] = 0 /\ ~nameiparent(p)'
    BY <1>1, <1>2, <1>6 DEF nameiparent, Shape
  <2>6. ~Linking(p) /\ ~Linking(p)' /\ ~New(p)'
    BY <1>2, <2>2, <2>5 DEF Linking, New
  <2>7. Quiet(p)
    <3>1. ASSUME NEW i \in Inum PROVE Mine(p, i)' = Mine(p, i) /\ Mine(p, i) \in Nat /\ ref[i] \in Int
      <4>1. i # 0 /\ Mine(p, i) \in Nat /\ ref[i] \in Int
        BY <1>1, PtrIs, FsAssumption DEF TableOK
      <4>2. ~PutTo(p, 1, i) /\ ~PutTo(p, 2, i) /\ ~PutTo(p, 1, i)' /\ ~PutTo(p, 2, i)'
        BY <1>2, <1>6, PutNone, PutNoneNext
      <4>3. cwd'[p] = cwd[p] /\ file'[p] = file[p] /\ pc[p] # "write" /\ pc'[p] # "write"
        BY <1>2, <2>2
      <4>4. cur[p] = d /\ ip[p] = 0 /\ cur'[p] = 0 /\ ip'[p] = d
        BY <1>3, <2>1, <2>5
      <4>5. Mine(p, i) = One(cwd[p] = i) + One(file[p] = i) + One(d = i)
        BY <4>1, <4>2, <4>3, <4>4 DEF Mine, One
      <4>6. Mine(p, i)' = One(cwd[p] = i) + One(file[p] = i) + One(d = i)
        BY <4>1, <4>2, <4>3, <4>4 DEF Mine, One
      <4> QED BY <4>1, <4>5, <4>6
    <3>2. \A i \in Inum : Has(p, i)' => Has(p, i)
      BY <1>2, <1>3, <1>6, <2>1, FsAssumption DEF Has
    <3> QED BY <1>2, <2>4, <2>6, <3>1, <3>2 DEF Quiet
  <2>8. LockInv'
    BY <1>2, <2>4, LocksFrame
  <2>9. Shape(p)'
    <3>1. op'[p] \in Walks /\ (op'[p] = "link" => new'[p] \in Path) /\ puts'[p] = <<>>
      BY <1>1, <1>2, <1>6 DEF Shape
    <3> QED BY <2>1, <2>2, <2>5, <3>1 DEF Shape
  <2>10. KnowOf(p)'
    BY <2>2, <2>5, <2>6 DEF KnowOf
  <2> QED BY <1>4, <2>3, <2>6, <2>7, <2>8, <2>9, <2>10, QuietStep
<1> QED BY <1>3, <1>5, <1>6 DEF NamexEnd

LEMMA CloseStep ==
  ASSUME FsInv, NEW p \in Proc, Close(p)
  PROVE  FsInv'
<1>1. LocalOK /\ TableOK /\ CopyInv /\ Shape(p)
  BY DEF FsInv
<1>2. /\ pc[p] = "idle" /\ puts[p] = <<>> /\ file[p] # 0
      /\ op' = [op EXCEPT ![p] = "close"] /\ file' = [file EXCEPT ![p] = 0]
      /\ Put(p, <<file[p]>>) /\ Goto(p, "end")
      /\ UNCHANGED <<disk, inode, valid, ref, lock, cwd, path, new, cur, ip>>
      /\ UNCHANGED <<dinode, ents, used>>
  BY DEF Close, At, table, disk
<1>3. PICK f \in Inum : f = file[p]
  BY <1>1, <1>2 DEF LocalOK, Ref
<1>4. cur[p] = 0 /\ ip[p] = 0
  BY <1>1, <1>2 DEF Shape
<1>5. /\ puts' \in [Proc -> Seq(Inum \X BOOLEAN)] /\ \A q \in Proc : Len(puts'[q]) <= 2
      /\ \A q \in Proc : q # p => puts'[q] = puts[q]
      /\ \A i \in Inum : (PutTo(p, 1, i)' <=> i = f) /\ ~PutTo(p, 2, i)'
      /\ \A i \in Inum : Has(p, i)' => i \in {cwd'[p], file'[p], cur'[p], ip'[p], f}
  BY <1>1, <1>2, <1>3, PutOne
<1>6. pc' \in [Proc -> Positions] /\ pc'[p] = "end" /\ \A q \in Proc : q # p => pc'[q] = pc[q]
  BY <1>1, <1>2, GotoIs DEF Positions
<1>7. file' \in [Proc -> Ref] /\ file'[p] = 0 /\ \A q \in Proc : q # p => file'[q] = file[q]
  BY <1>1, <1>2 DEF LocalOK, Ref
<1>8. /\ op' \in [Proc -> Walks \cup {"close", "write", None}]
      /\ \A q \in Proc : q # p => op'[q] = op[q]
  BY <1>1, <1>2 DEF LocalOK
<1>9. LocalOK'
  BY <1>1, <1>2, <1>5, <1>6, <1>7, <1>8 DEF LocalOK
<1>10. SameOthers(p)
  BY <1>2, <1>5, <1>6, <1>7, <1>8 DEF SameOthers, SameLocal
<1>11. TableOK' /\ CopyInv'
  BY <1>1, <1>2 DEF TableOK, CopyInv
<1>12. ~Linking(p) /\ ~Linking(p)' /\ ~New(p)'
  BY <1>2, <1>6 DEF Linking, New
<1>13. Quiet(p)
  <2>1. ASSUME NEW i \in Inum PROVE Mine(p, i)' = Mine(p, i) /\ Mine(p, i) \in Nat /\ ref[i] \in Int
    <3>1. i # 0 /\ Mine(p, i) \in Nat /\ ref[i] \in Int
      BY <1>1, PtrIs, FsAssumption DEF TableOK
    <3>2. ~PutTo(p, 1, i) /\ ~PutTo(p, 2, i)
      BY <1>2, PutNone
    <3>3. cwd'[p] = cwd[p] /\ cur'[p] = 0 /\ ip'[p] = 0
      BY <1>2, <1>4
    <3> QED BY <1>3, <1>4, <1>5, <1>7, <3>1, <3>2, <3>3 DEF Mine, One
  <2>2. \A i \in Inum : Has(p, i)' => Has(p, i)
    BY <1>2, <1>3, <1>4, <1>5, <1>7, FsAssumption DEF Has
  <2> QED BY <1>2, <1>10, <1>12, <2>1, <2>2 DEF Quiet
<1>14. LockInv'
  BY <1>2, <1>10, LocksFrame
<1>15. Shape(p)' /\ KnowOf(p)'
  BY <1>2, <1>4, <1>6, <1>12 DEF Shape, KnowOf
<1> QED BY <1>9, <1>11, <1>12, <1>13, <1>14, <1>15, QuietStep

LEMMA WriteStep ==
  ASSUME FsInv, NEW p \in Proc, Write(p)
  PROVE  FsInv'
<1>1. LocalOK /\ TableOK /\ CopyInv /\ Shape(p)
  BY DEF FsInv
<1>2. /\ pc[p] = "idle" /\ puts[p] = <<>> /\ file[p] # 0
      /\ op' = [op EXCEPT ![p] = "write"] /\ ip' = [ip EXCEPT ![p] = file[p]]
      /\ Goto(p, "write")
      /\ UNCHANGED <<disk, inode, valid, ref, lock, cwd, file, path, new, cur, puts>>
      /\ UNCHANGED <<dinode, ents, used>>
  BY DEF Write, At, table, disk, held
<1>3. PICK f \in Inum : f = file[p]
  BY <1>1, <1>2 DEF LocalOK, Ref
<1>4. cur[p] = 0 /\ ip[p] = 0
  BY <1>1, <1>2 DEF Shape
<1>6. pc' \in [Proc -> Positions] /\ pc'[p] = "write" /\ \A q \in Proc : q # p => pc'[q] = pc[q]
  BY <1>1, <1>2, GotoIs DEF Positions
<1>7. ip' \in [Proc -> Ref] /\ ip'[p] = f /\ \A q \in Proc : q # p => ip'[q] = ip[q]
  BY <1>1, <1>2, <1>3 DEF LocalOK
<1>8. /\ op' \in [Proc -> Walks \cup {"close", "write", None}]
      /\ \A q \in Proc : q # p => op'[q] = op[q]
  BY <1>1, <1>2 DEF LocalOK
<1>9. LocalOK'
  BY <1>1, <1>2, <1>6, <1>7, <1>8 DEF LocalOK
<1>10. SameOthers(p)
  BY <1>2, <1>6, <1>7, <1>8 DEF SameOthers, SameLocal
<1>11. TableOK' /\ CopyInv'
  BY <1>1, <1>2 DEF TableOK, CopyInv
<1>12. ~Linking(p) /\ ~Linking(p)' /\ ~New(p)'
  BY <1>2, <1>6 DEF Linking, New
<1>13. Quiet(p)
  <2>1. ASSUME NEW i \in Inum PROVE Mine(p, i)' = Mine(p, i) /\ Mine(p, i) \in Nat /\ ref[i] \in Int
    <3>1. i # 0 /\ Mine(p, i) \in Nat /\ ref[i] \in Int
      BY <1>1, PtrIs, FsAssumption DEF TableOK
    <3>2. ~PutTo(p, 1, i) /\ ~PutTo(p, 2, i) /\ ~PutTo(p, 1, i)' /\ ~PutTo(p, 2, i)'
      BY <1>2, PutNone, PutNoneNext
    <3>3. cwd'[p] = cwd[p] /\ cur'[p] = cur[p] /\ file'[p] = file[p]
      BY <1>2
    <3> QED BY <1>4, <1>6, <3>1, <3>2, <3>3 DEF Mine, One
  <2>2. \A i \in Inum : Has(p, i)' => Has(p, i)
    BY <1>2, <1>3, <1>7 DEF Has
  <2> QED BY <1>2, <1>10, <1>12, <2>1, <2>2 DEF Quiet
<1>14. LockInv'
  BY <1>2, <1>10, LocksFrame
<1>15. Shape(p)' /\ KnowOf(p)'
  BY <1>2, <1>3, <1>4, <1>6, <1>7, <1>12 DEF Shape, KnowOf
<1> QED BY <1>9, <1>11, <1>12, <1>13, <1>14, <1>15, QuietStep

\* A non-empty set of natural numbers has a least element.
LEMMA LeastNat ==
  ASSUME NEW S \in SUBSET Nat, S # {}
  PROVE  \E n \in S : \A m \in S : n <= m
<1> DEFINE Seg(n) == {k \in Nat : k <= n}
           Segs == {Seg(n) : n \in S}
           R == StrictSubsetOrdering(Nat)
<1>1. \A n \in Nat : Seg(n) \in FiniteSubsetsOf(Nat)
  <2> TAKE n \in Nat
  <2>1. \A k \in Seg(n) : k <= n
    OBVIOUS
  <2>2. Seg(n) \in SUBSET Nat
    OBVIOUS
  <2>3. IsFiniteSet(Seg(n))
    <3> HIDE DEF Seg
    <3> QED BY <2>1, <2>2, FS_BoundedSetOfNaturals
  <2> HIDE DEF Seg
  <2> QED BY <2>2, <2>3 DEF FiniteSubsetsOf
<1>2. Segs \subseteq FiniteSubsetsOf(Nat) /\ Segs # {}
  <2> HIDE DEF Seg
  <2> QED BY <1>1
<1>3. IsWellFoundedOn(R, FiniteSubsetsOf(Nat))
  BY FS_StrictSubsetOrderingWellFounded
<1>4. \E X \in Segs : \A Y \in Segs : <<Y, X>> \notin R
  <2> HIDE DEF Segs, R
  <2> QED BY <1>2, <1>3, WFMin
<1>5. PICK n \in S : \A m \in S : <<Seg(m), Seg(n)>> \notin R
  BY <1>4
<1>6. ASSUME NEW m \in S, m < n PROVE FALSE
  <2>1. \A k \in Nat : k <= m => k <= n
    BY <1>6
  <2>2. n <= n /\ ~(n <= m)
    BY <1>6
  <2>3. Seg(m) \subseteq Seg(n) /\ n \in Seg(n) /\ n \notin Seg(m)
    BY <2>1, <2>2
  <2>4. Seg(m) \in SUBSET Nat /\ Seg(n) \in SUBSET Nat
    OBVIOUS
  <2> HIDE DEF Seg
  <2>5. <<Seg(m), Seg(n)>> \in R
    BY <2>3, <2>4 DEF StrictSubsetOrdering
  <2> QED BY <2>5, <1>5
<1> QED BY <1>6

\* A lock that p gives up, and one that it takes.
LEMMA UnlockIs ==
  ASSUME FsInv, NEW p \in Proc, SameOthers(p), pc[p] \in {"made", "victim"}, NEW d \in Inum, d = cur[p],
         Iunlock(d)
  PROVE  /\ LockInv' /\ lock' \in [Inum -> Proc \cup {None}]
         /\ \A i \in Inum : lock[i] # None /\ lock[i] # p => lock'[i] = lock[i]
<1>1. lock \in [Inum -> Proc \cup {None}] /\ lock[d] = p /\ lock' = [lock EXCEPT ![d] = None]
  BY DEF FsInv, TableOK, KnowOf, Iunlock
<1>2. lock' \in [Inum -> Proc \cup {None}] /\ \A i \in Inum : lock'[i] = IF i = d THEN None ELSE lock[i]
  BY <1>1
<1>3. \A i \in Inum : lock[i] # None /\ lock[i] # p => lock'[i] = lock[i]
  BY <1>1, <1>2
<1>4. ASSUME NEW i \in Inum, lock'[i] # None
      PROVE  \E q \in Proc : lock'[i] = q /\ pc'[q] \in {"made", "victim"} /\ cur'[q] = i
  <2>1. i # d /\ lock'[i] = lock[i]
    BY <1>2, <1>4
  <2>2. PICK q \in Proc : lock[i] = q /\ pc[q] \in {"made", "victim"} /\ cur[q] = i
    BY <1>4, <2>1 DEF FsInv, LockInv
  <2>3. q # p
    BY <2>1, <2>2
  <2> QED BY <2>1, <2>2, <2>3 DEF SameOthers, SameLocal
<1> QED BY <1>2, <1>3, <1>4 DEF LockInv

LEMMA LockIs ==
  ASSUME FsInv, NEW p \in Proc, SameOthers(p), pc[p] \notin {"made", "victim"}, NEW d \in Inum,
         lock[d] = None, lock' = [lock EXCEPT ![d] = p],
         pc'[p] \in {"made", "victim"}, cur'[p] = d
  PROVE  /\ LockInv' /\ lock' \in [Inum -> Proc \cup {None}] /\ lock'[d] = p
         /\ \A i \in Inum : lock[i] # None /\ lock[i] # p => lock'[i] = lock[i]
<1>1. lock \in [Inum -> Proc \cup {None}]
  BY DEF FsInv, TableOK
<1>2. lock' \in [Inum -> Proc \cup {None}] /\ \A i \in Inum : lock'[i] = IF i = d THEN p ELSE lock[i]
  BY <1>1
<1>3. \A i \in Inum : lock[i] # None /\ lock[i] # p => lock'[i] = lock[i]
  BY <1>1, <1>2
<1>4. ASSUME NEW i \in Inum, lock'[i] # None
      PROVE  \E q \in Proc : lock'[i] = q /\ pc'[q] \in {"made", "victim"} /\ cur'[q] = i
  <2>1. CASE i = d
    BY <1>2, <2>1
  <2>2. CASE i # d
    <3>1. lock'[i] = lock[i]
      BY <1>2, <2>2
    <3>2. PICK q \in Proc : lock[i] = q /\ pc[q] \in {"made", "victim"} /\ cur[q] = i
      BY <1>4, <3>1 DEF FsInv, LockInv
    <3>3. q # p
      BY <3>2
    <3> QED BY <3>1, <3>2, <3>3 DEF SameOthers, SameLocal
  <2> QED BY <2>1, <2>2
<1> QED BY <1>2, <1>3, <1>4 DEF LockInv

\* A call that looked at the one inode it has, and puts it.
LEMMA DropOne ==
  ASSUME FsInv, NEW p \in Proc, puts[p] = <<>>, pc[p] \in {"found", "exists"}, ~Linking(p),
         NEW a \in Inum, (cur[p] = 0 /\ ip[p] = a) \/ (cur[p] = a /\ ip[p] = 0), dinode[a].type # "free",
         Peek(a), Put(p, <<a>>), Goto(p, "end"), Hold(p, 0, 0),
         UNCHANGED <<disk, ref, lock, held, op, path, new>>
  PROVE  FsInv'
<1>1. LocalOK /\ TableOK /\ UNCHANGED <<dinode, ents, used, cwd, file>>
  BY DEF FsInv, disk, held
<1>2. /\ puts' \in [Proc -> Seq(Inum \X BOOLEAN)] /\ \A q \in Proc : Len(puts'[q]) <= 2
      /\ \A q \in Proc : q # p => puts'[q] = puts[q]
      /\ \A i \in Inum : (PutTo(p, 1, i)' <=> i = a) /\ ~PutTo(p, 2, i)'
      /\ \A i \in Inum : Has(p, i)' => i \in {cwd'[p], file'[p], cur'[p], ip'[p], a}
  BY <1>1, PutOne
<1>3. EndPointers(p)
  BY <1>1, <1>2 DEF EndPointers, LocalOK
<1>4. /\ inode' \in [Inum -> Inode] /\ valid' \in [Inum -> BOOLEAN] /\ CopyInv'
      /\ \A j \in Inum : valid[j] => valid'[j]
  BY <1>1, PeekStep
<1>5. SameOthers(p) /\ pc'[p] = "end" /\ cur'[p] = 0 /\ ip'[p] = 0
  BY <1>1, <1>3, EndLocals
<1>6. LockInv'
  BY <1>5, LocksFrame
<1>7. TableOK'
  BY <1>1, <1>4 DEF TableOK
<1>8. \A i \in Inum : Has(p, i)' => Has(p, i)
  BY <1>1, <1>2, <1>5, FsAssumption DEF Has
<1>9. ASSUME NEW i \in Inum PROVE ref'[i] - ref[i] = Mine(p, i)' - Mine(p, i)
  <2>1. i # 0 /\ Mine(p, i) \in Nat /\ ref[i] \in Int
    BY <1>1, PtrIs, FsAssumption DEF TableOK
  <2>2. ~PutTo(p, 1, i) /\ ~PutTo(p, 2, i)
    BY PutNone
  <2>3. Mine(p, i)' = One(cwd[p] = i) + One(file[p] = i) + One(a = i)
    BY <1>1, <1>2, <1>5, <2>1 DEF Mine, One
  <2>4. Mine(p, i) = One(cwd[p] = i) + One(file[p] = i) + One(a = i)
    BY <2>1, <2>2 DEF Mine, One
  <2> QED BY <2>1, <2>3, <2>4
<1> QED BY <1>3, <1>4, <1>6, <1>7, <1>8, <1>9, EndQuiet

\* open() of an inode without truncation.
LEMMA KeepOne ==
  ASSUME FsInv, NEW p \in Proc, puts[p] = <<>>, pc[p] \in {"found", "exists"}, ~Linking(p),
         NEW a \in Inum, cur[p] = 0, ip[p] = a, dinode[a].type # "free", file[p] = 0,
         Peek(a), file' = [file EXCEPT ![p] = a], Goto(p, "end"), Hold(p, 0, 0),
         UNCHANGED <<disk, ref, lock, cwd, puts, op, path, new>>
  PROVE  FsInv'
<1>1. LocalOK /\ TableOK /\ UNCHANGED <<dinode, ents, used>>
  BY DEF FsInv, disk
<1>2. file' \in [Proc -> Ref] /\ file'[p] = a /\ \A q \in Proc : q # p => file'[q] = file[q]
  BY <1>1 DEF LocalOK, Ref
<1>3. EndPointers(p)
  BY <1>1, <1>2 DEF EndPointers, LocalOK
<1>4. /\ inode' \in [Inum -> Inode] /\ valid' \in [Inum -> BOOLEAN] /\ CopyInv'
      /\ \A j \in Inum : valid[j] => valid'[j]
  BY <1>1, PeekStep
<1>5. SameOthers(p) /\ pc'[p] = "end" /\ cur'[p] = 0 /\ ip'[p] = 0
  BY <1>1, <1>3, EndLocals
<1>6. LockInv'
  BY <1>5, LocksFrame
<1>7. TableOK'
  BY <1>1, <1>4 DEF TableOK
<1>8. \A i \in Inum : Has(p, i)' => Has(p, i)
  BY <1>1, <1>2, <1>5, FsAssumption DEF Has
<1>9. ASSUME NEW i \in Inum PROVE ref'[i] - ref[i] = Mine(p, i)' - Mine(p, i)
  <2>1. i # 0 /\ Mine(p, i) \in Nat /\ ref[i] \in Int
    BY <1>1, PtrIs, FsAssumption DEF TableOK
  <2>2. ~PutTo(p, 1, i) /\ ~PutTo(p, 2, i) /\ ~PutTo(p, 1, i)' /\ ~PutTo(p, 2, i)'
    BY PutNone, PutNoneNext
  <2>3. Mine(p, i)' = One(cwd[p] = i) + One(a = i)
    BY <1>1, <1>2, <1>5, <2>1, <2>2 DEF Mine, One
  <2>4. Mine(p, i) = One(cwd[p] = i) + One(a = i)
    BY <2>1, <2>2 DEF Mine, One
  <2> QED BY <2>1, <2>3, <2>4
<1> QED BY <1>3, <1>4, <1>6, <1>7, <1>8, <1>9, EndQuiet

LEMMA ChdirStep ==
  ASSUME FsInv, NEW p \in Proc, ChdirFound(p)
  PROVE  FsInv'
<1>1. LocalOK /\ TableOK /\ Shape(p)
  BY DEF FsInv
<1>2. /\ pc[p] = "found" /\ op[p] = "chdir" /\ puts[p] = <<>> /\ Goto(p, "end") /\ Hold(p, 0, 0)
      /\ UNCHANGED <<disk, dinode, ents, used, ref, lock, file, op, path, new>>
  BY DEF ChdirFound, At, disk
<1>3. cur[p] = 0 /\ ~Linking(p)
  BY <1>1, <1>2 DEF Shape, nameiparent, Linking
<1>4. PICK a \in Inum : a = ip[p]
  BY <1>1, <1>2 DEF Shape, nameiparent
<1>5. Ilock(a) /\ Peek(a) /\ dinode[a].type # "free"
  BY <1>4, LoadedIs DEF ChdirFound
<1>6. CASE Put(p, <<a>>) /\ UNCHANGED cwd
  BY <1>2, <1>3, <1>4, <1>5, <1>6, DropOne DEF held
<1>7. CASE Put(p, <<cwd[p]>>) /\ cwd' = [cwd EXCEPT ![p] = a]
  <2>1. PICK c \in Inum : c = cwd[p]
    BY <1>1 DEF LocalOK
  <2>2. /\ puts' \in [Proc -> Seq(Inum \X BOOLEAN)] /\ \A q \in Proc : Len(puts'[q]) <= 2
        /\ \A q \in Proc : q # p => puts'[q] = puts[q]
        /\ \A i \in Inum : (PutTo(p, 1, i)' <=> i = c) /\ ~PutTo(p, 2, i)'
        /\ \A i \in Inum : Has(p, i)' => i \in {cwd'[p], file'[p], cur'[p], ip'[p], c}
    BY <1>1, <1>7, <2>1, PutOne
  <2>3. cwd' \in [Proc -> Inum] /\ cwd'[p] = a /\ \A q \in Proc : q # p => cwd'[q] = cwd[q]
    BY <1>1, <1>7 DEF LocalOK
  <2>4. EndPointers(p)
    BY <1>1, <1>2, <2>2, <2>3 DEF EndPointers, LocalOK
  <2>5. /\ inode' \in [Inum -> Inode] /\ valid' \in [Inum -> BOOLEAN] /\ CopyInv'
        /\ \A j \in Inum : valid[j] => valid'[j]
    BY <1>2, <1>5, PeekStep
  <2>6. SameOthers(p) /\ pc'[p] = "end" /\ cur'[p] = 0 /\ ip'[p] = 0
    BY <1>1, <1>2, <2>4, EndLocals
  <2>7. LockInv'
    BY <1>2, <2>6, LocksFrame
  <2>8. TableOK'
    BY <1>1, <1>2, <2>5 DEF TableOK
  <2>9. \A i \in Inum : Has(p, i)' => Has(p, i)
    <3>1. ASSUME NEW i \in Inum, Has(p, i)' PROVE i \in {cwd[p], file[p], ip[p]}
      <4>1. i # 0 /\ file'[p] = file[p]
        BY <1>2, FsAssumption
      <4>2. i \in {cwd'[p], file'[p], cur'[p], ip'[p], c}
        BY <2>2, <3>1
      <4> QED BY <1>4, <2>1, <2>3, <2>6, <4>1, <4>2
    <3> QED BY <3>1 DEF Has
  <2>10. ASSUME NEW i \in Inum PROVE ref'[i] - ref[i] = Mine(p, i)' - Mine(p, i)
    <3>1. i # 0 /\ Mine(p, i) \in Nat /\ ref[i] \in Int /\ file'[p] = file[p]
      BY <1>1, <1>2, PtrIs, FsAssumption DEF TableOK
    <3>2. ~PutTo(p, 1, i) /\ ~PutTo(p, 2, i)
      BY <1>2, PutNone
    <3>3. Mine(p, i)' = One(c = i) + One(file[p] = i) + One(a = i)
      BY <2>2, <2>3, <2>6, <3>1 DEF Mine, One
    <3>4. Mine(p, i) = One(c = i) + One(file[p] = i) + One(a = i)
      BY <1>2, <1>3, <1>4, <2>1, <3>1, <3>2 DEF Mine, One
    <3> QED BY <1>2, <3>1, <3>3, <3>4
  <2> QED BY <1>2, <1>3, <2>4, <2>5, <2>7, <2>8, <2>9, <2>10, EndQuiet
<1> QED BY <1>4, <1>6, <1>7 DEF ChdirFound

\* There are finitely many names and calls.
LEMMA NamesFinite ==
  ASSUME NEW i
  PROVE  IsFiniteSet(NamesOf(i)) /\ IsFiniteSet(LinksTo(i)) /\ IsFiniteSet(DirsIn(i))
<1>1. IsFiniteSet(Inum) /\ IsFiniteSet(Name) /\ IsFiniteSet(Proc)
  BY FsAssumption
<1>2. IsFiniteSet(Inum \X Name)
  BY <1>1, FS_Product
<1>3. NamesOf(i) \subseteq Inum \X Name /\ LinksTo(i) \subseteq Proc /\ DirsIn(i) \subseteq Name
  BY DEF NamesOf, LinksTo, DirsIn
<1> QED BY <1>1, <1>2, <1>3, FS_Subset

----------------------------------------------------------------------------
(* Steps that change an inode on the disk, and no names. *)

\* What is left to show of a step that keeps what others rely on.
LEMMA DiskStep ==
  ASSUME FsInv, NEW p \in Proc, OthersFrame(p), DiskOK', TableOK', LocalOK', CopyInv', LockInv',
         Shape(p)', HasOf(p)', KnowOf(p)', NewOf(p)', NameInv', FileLinks', DirLinks', TreeInv',
         BlocksOwned', \A i \in Inum : ref'[i] - ref[i] = Mine(p, i)' - Mine(p, i)
  PROVE  FsInv'
<1>1. \A q \in Proc : Shape(q)' /\ HasOf(q)' /\ KnowOf(q)' /\ NewOf(q)'
  BY OthersKeep
<1>2. RefsExact'
  BY RefsStep DEF FsInv, TableOK, OthersFrame
<1> QED BY <1>1, <1>2 DEF FsInv

\* The block of one inode changes.
LEMMA BlocksStep ==
  ASSUME BlocksOwned, NEW i \in Inum, \A j \in Inum : j # i => dinode'[j].addr = dinode[j].addr,
         NEW a, dinode'[i].addr = a, a = 0 \/ a = dinode[i].addr \/ a \notin used,
         used' = (used \ {dinode[i].addr}) \cup ({a} \ {0})
  PROVE  BlocksOwned'
<1>1. /\ \A j, k \in Inum : j # k /\ dinode[j].addr # 0 => dinode[j].addr # dinode[k].addr
      /\ \A b : b \in used <=> b # 0 /\ \E j \in Inum : b = dinode[j].addr
  BY DEF BlocksOwned
<1>2. ASSUME NEW j \in Inum, NEW k \in Inum, j # k, dinode'[j].addr # 0
      PROVE  dinode'[j].addr # dinode'[k].addr
  BY <1>1, <1>2
<1>3. \A b : b \in used' <=> b # 0 /\ \E j \in Inum : b = dinode'[j].addr
  BY <1>1
<1> QED BY <1>2, <1>3 DEF BlocksOwned

\* iupdate() of one inode.
LEMMA UpdateIs ==
  ASSUME FsInv, NEW i \in Inum, dinode[i].type # "free", NEW r \in Inode, r.type = dinode[i].type,
         Iupdate([j \in {i} |-> r])
  PROVE  /\ inode' \in [Inum -> Inode] /\ dinode' \in [Inum -> Inode] /\ valid' \in [Inum -> BOOLEAN]
         /\ dinode'[i] = r /\ \A j \in Inum : j # i => dinode'[j] = dinode[j]
         /\ \A j \in Inum : dinode'[j].type = dinode[j].type /\ (valid[j] => valid'[j])
         /\ CopyInv' /\ dinode'[root].type = "dir"
         /\ \A j \in Inum : dinode'[j].type = "free" => dinode'[j] = FreeInode
<1>1. /\ inode' = [j \in Inum |-> IF j = i THEN r ELSE inode[j]]
      /\ dinode' = [j \in Inum |-> IF j = i THEN r ELSE dinode[j]]
      /\ valid' = [j \in Inum |-> j = i \/ valid[j]]
  BY DEF Iupdate
<1>2. /\ inode \in [Inum -> Inode] /\ dinode \in [Inum -> Inode] /\ valid \in [Inum -> BOOLEAN]
      /\ CopyInv /\ dinode[root].type = "dir" /\ root \in Inum
      /\ \A j \in Inum : dinode[j].type = "free" => dinode[j] = FreeInode
  BY FsAssumption DEF FsInv, TableOK, DiskOK, root
<1>3. inode' \in [Inum -> Inode] /\ dinode' \in [Inum -> Inode] /\ valid' \in [Inum -> BOOLEAN]
  BY <1>1, <1>2
<1>4. \A j \in Inum : /\ inode'[j] = IF j = i THEN r ELSE inode[j]
                      /\ dinode'[j] = IF j = i THEN r ELSE dinode[j]
                      /\ valid'[j] <=> (j = i \/ valid[j])
  BY <1>1
<1>5. CopyInv'
  BY <1>2, <1>4 DEF CopyInv
<1> QED BY <1>2, <1>3, <1>4, <1>5

LEMMA InodeStep ==
  ASSUME FsInv, NEW p \in Proc, SameOthers(p), NEW i \in Inum, Has(p, i), dinode[i].type # "free",
         NEW r \in Inode, r.type = dinode[i].type, Iupdate([j \in {i} |-> r]), UNCHANGED ents,
         used' \subseteq Block, ref' \in [Inum -> Int], lock' \in [Inum -> Proc \cup {None}], LocalOK', LockInv',
         \A j \in Inum : lock[j] # None /\ lock[j] # p => lock'[j] = lock[j],
         \A j \in Inum : Has(p, j)' => Has(p, j) \/ j = root,
         Shape(p)', KnowOf(p)', ~New(p)', FileLinks', DirLinks', BlocksOwned',
         \A j \in Inum : ref'[j] - ref[j] = Mine(p, j)' - Mine(p, j)
  PROVE  FsInv'
<1>1. /\ inode' \in [Inum -> Inode] /\ dinode' \in [Inum -> Inode] /\ valid' \in [Inum -> BOOLEAN]
      /\ dinode'[i] = r /\ \A j \in Inum : j # i => dinode'[j] = dinode[j]
      /\ \A j \in Inum : dinode'[j].type = dinode[j].type /\ (valid[j] => valid'[j])
      /\ CopyInv' /\ dinode'[root].type = "dir"
      /\ \A j \in Inum : dinode'[j].type = "free" => dinode'[j] = FreeInode
  BY UpdateIs
<1>2. DiskOK' /\ TableOK'
  BY <1>1 DEF DiskOK, TableOK, FsInv
<1>3. OthersFrame(p)
  <2>1. \A j \in Inum : ~Has(p, j) => dinode'[j] = dinode[j]
    BY <1>1
  <2> QED BY <1>1, <2>1 DEF OthersFrame
<1>4. HasOf(p)'
  BY <1>1 DEF FsInv, HasOf
<1>5. NewOf(p)'
  BY DEF NewOf
<1>6. NameInv' /\ TreeInv'
  BY <1>1, NamesFrame DEF FsInv, DiskOK
<1> QED BY <1>1, <1>2, <1>3, <1>4, <1>5, <1>6, DiskStep

\* Names and types stay, and no link count goes down.
LEMMA LinksKeep ==
  ASSUME FsInv, NEW p \in Proc, SameOthers(p), Linking(p)' <=> Linking(p), Linking(p) => ip'[p] = ip[p],
         UNCHANGED ents, dinode' \in [Inum -> Inode],
         \A j \in Inum : dinode'[j].type = dinode[j].type /\ dinode'[j].nlink >= dinode[j].nlink
  PROVE  FileLinks' /\ DirLinks'
<1>1. \A i \in Inum : NamesOf(i)' = NamesOf(i) /\ DirsIn(i)' = DirsIn(i)
  BY NamesFrame DEF FsInv, DiskOK
<1>2. \A i \in Inum : LinksTo(i)' = LinksTo(i)
  BY LinkersFrame
<1>3. \A i \in Inum : dinode'[i].nlink \in Nat /\ dinode[i].nlink \in Nat
  BY DEF FsInv, DiskOK, Inode
<1>4. \A i \in Inum : IsFiniteSet(NamesOf(i)) /\ IsFiniteSet(LinksTo(i)) /\ IsFiniteSet(DirsIn(i))
  BY NamesFinite
<1>5. \A i \in Inum : /\ Cardinality(NamesOf(i)) \in Nat /\ Cardinality(LinksTo(i)) \in Nat
                      /\ Cardinality(DirsIn(i)) \in Nat
  BY <1>4, FS_CardinalityType
<1>6. FileLinks'
  <2>1. ASSUME NEW i \in Inum, dinode[i].type # "dir"
        PROVE  dinode'[i].nlink >= Cardinality(NamesOf(i)) + Cardinality(LinksTo(i))
    BY <1>3, <1>5, <2>1 DEF FsInv, FileLinks
  <2> QED BY <1>1, <1>2, <2>1 DEF FileLinks
<1>7. DirLinks'
  <2>1. ASSUME NEW i \in Inum, dinode[i].type = "dir"
        PROVE  /\ dinode'[i].nlink >= Cardinality(DirsIn(i))
               /\ i = root \/ NamesOf(i) # {} => dinode'[i].nlink >= 1 + Cardinality(DirsIn(i))
               /\ \A a, b \in NamesOf(i) : a = b
    BY <1>3, <1>5, <2>1 DEF FsInv, DirLinks
  <2> QED BY <1>1, <2>1 DEF DirLinks
<1> QED BY <1>6, <1>7

\* What ialloc() and balloc() take.
LEMMA MinIs ==
  ASSUME NEW S, S \subseteq Nat, S # {}
  PROVE  MinOf(S) \in S
<1>1. \E x \in S : \A y \in S : x <= y
  BY LeastNat
<1> QED BY <1>1 DEF MinOf

LEMMA AddrIs ==
  ASSUME NEW x \in Inode, NEW b \in Block \cup {0}, NEW r, r = [x EXCEPT !.addr = b]
  PROVE  r \in Inode /\ r.type = x.type /\ r.nlink = x.nlink /\ r.addr = b
BY DEF Inode

LEMMA NlinkIs ==
  ASSUME NEW x \in Inode, NEW n \in Nat, NEW r, r = [x EXCEPT !.nlink = n]
  PROVE  r \in Inode /\ r.type = x.type /\ r.nlink = n /\ r.addr = x.addr
BY DEF Inode

\* open() with O_TRUNC.
LEMMA OpenTrunc ==
  ASSUME FsInv, NEW p \in Proc, puts[p] = <<>>, pc[p] \in {"found", "exists"}, ~Linking(p),
         NEW a \in Inum, cur[p] = 0, ip[p] = a, dinode[a].type # "free", file[p] = 0,
         used' = Truncated(dinode[a]), Iupdate([j \in {a} |-> [dinode[a] EXCEPT !.addr = 0]]),
         file' = [file EXCEPT ![p] = a], Goto(p, "end"), Hold(p, 0, 0),
         UNCHANGED <<ents, ref, lock, cwd, puts, op, path, new>>
  PROVE  FsInv'
<1>1. LocalOK /\ TableOK /\ DiskOK /\ BlocksOwned
  BY DEF FsInv
<1>2. file' \in [Proc -> Ref] /\ file'[p] = a /\ \A q \in Proc : q # p => file'[q] = file[q]
  BY <1>1 DEF LocalOK, Ref
<1>3. EndPointers(p)
  BY <1>1, <1>2 DEF EndPointers, LocalOK
<1>4. /\ LocalOK' /\ SameOthers(p) /\ Shape(p)' /\ KnowOf(p)' /\ ~New(p)' /\ ~Linking(p)'
      /\ pc'[p] = "end" /\ cur'[p] = 0 /\ ip'[p] = 0
  BY <1>1, <1>3, EndLocals
<1>5. PICK r \in Inode : /\ r = [dinode[a] EXCEPT !.addr = 0] /\ r.type = dinode[a].type
                         /\ r.nlink = dinode[a].nlink /\ r.addr = 0
  <2>1. dinode[a] \in Inode /\ 0 \in Block \cup {0}
    BY <1>1 DEF DiskOK
  <2> QED BY <2>1, AddrIs
<1>6. Iupdate([j \in {a} |-> r])
  BY <1>5
<1>7. /\ dinode' \in [Inum -> Inode] /\ dinode'[a] = r /\ \A j \in Inum : j # a => dinode'[j] = dinode[j]
      /\ \A j \in Inum : dinode'[j].type = dinode[j].type
  BY <1>5, <1>6, UpdateIs
<1>8. used' \subseteq Block /\ BlocksOwned'
  <2>1. used' = (used \ {dinode[a].addr}) \cup ({0} \ {0}) /\ dinode'[a].addr = 0
    BY <1>5, <1>7 DEF Truncated
  <2>2. \A j \in Inum : j # a => dinode'[j].addr = dinode[j].addr
    BY <1>7
  <2> QED BY <1>1, <2>1, <2>2, BlocksStep DEF DiskOK
<1>9. FileLinks' /\ DirLinks'
  <2>a. \A j \in Inum : dinode[j].nlink \in Nat
    BY <1>1 DEF DiskOK, Inode
  <2>1. \A j \in Inum : dinode'[j].type = dinode[j].type /\ dinode'[j].nlink >= dinode[j].nlink
    <3>1. \A j \in Inum : dinode'[j].nlink = dinode[j].nlink
      BY <1>5, <1>7
    <3> QED BY <1>7, <2>a, <3>1
  <2> QED BY <1>4, <1>7, <2>1, LinksKeep
<1>10. LockInv'
  BY <1>4, LocksFrame
<1>11. \A i \in Inum : Has(p, i)' => Has(p, i)
  BY <1>1, <1>2, <1>4, FsAssumption DEF Has
<1>12. ASSUME NEW i \in Inum PROVE ref'[i] - ref[i] = Mine(p, i)' - Mine(p, i)
  <2>1. i # 0 /\ Mine(p, i) \in Nat /\ ref[i] \in Int
    BY <1>1, PtrIs, FsAssumption DEF TableOK
  <2>2. ~PutTo(p, 1, i) /\ ~PutTo(p, 2, i) /\ ~PutTo(p, 1, i)' /\ ~PutTo(p, 2, i)'
    BY PutNone, PutNoneNext
  <2>3. Mine(p, i)' = One(cwd[p] = i) + One(a = i)
    BY <1>1, <1>2, <1>4, <2>1, <2>2 DEF Mine, One
  <2>4. Mine(p, i) = One(cwd[p] = i) + One(a = i)
    BY <2>1, <2>2 DEF Mine, One
  <2> QED BY <2>1, <2>3, <2>4
<1>13. Has(p, a) /\ ref' \in [Inum -> Int] /\ lock' \in [Inum -> Proc \cup {None}]
  BY <1>1 DEF Has, TableOK
<1> QED BY <1>4, <1>5, <1>6, <1>8, <1>9, <1>10, <1>11, <1>12, <1>13, InodeStep

LEMMA OpenIpStep ==
  ASSUME FsInv, NEW p \in Proc, puts[p] = <<>>, pc[p] \in {"found", "exists"}, ~Linking(p),
         NEW a \in Inum, cur[p] = 0, ip[p] = a, Ilock(a), OpenIp(p, a), Goto(p, "end"), Hold(p, 0, 0),
         UNCHANGED <<ents, ref, lock, cwd, op, path, new>>
  PROVE  FsInv'
<1>1. Loaded(a) = dinode[a] /\ dinode[a].type # "free"
  BY LoadedIs
<1>2. CASE /\ file[p] = 0 /\ file' = [file EXCEPT ![p] = a] /\ UNCHANGED puts
           /\ Peek(a) /\ UNCHANGED <<used, dinode>>
  BY <1>1, <1>2, KeepOne DEF disk
<1>3. CASE /\ file[p] = 0 /\ file' = [file EXCEPT ![p] = a] /\ UNCHANGED puts
           /\ used' = Truncated(Loaded(a))
           /\ Iupdate([j \in {a} |-> [Loaded(a) EXCEPT !.addr = 0]])
  <2>1. used' = Truncated(dinode[a]) /\ Iupdate([j \in {a} |-> [dinode[a] EXCEPT !.addr = 0]])
    BY <1>1, <1>3
  <2> QED BY <1>1, <1>3, <2>1, OpenTrunc
<1>4. CASE Peek(a) /\ Put(p, <<a>>) /\ UNCHANGED <<used, dinode, file>>
  BY <1>1, <1>4, DropOne DEF disk, held
<1> QED BY <1>2, <1>3, <1>4 DEF OpenIp

LEMMA OpenStep ==
  ASSUME FsInv, NEW p \in Proc, OpenFound(p)
  PROVE  FsInv'
<1>1. LocalOK /\ Shape(p)
  BY DEF FsInv
<1>2. /\ pc[p] = "found" /\ op[p] = "open" /\ puts[p] = <<>> /\ Goto(p, "end") /\ Hold(p, 0, 0)
      /\ UNCHANGED <<ents, ref, lock, cwd, op, path, new>>
  BY DEF OpenFound, At
<1>3. cur[p] = 0 /\ ~Linking(p)
  BY <1>1, <1>2 DEF Shape, nameiparent, Linking
<1>4. PICK a \in Inum : a = ip[p]
  BY <1>1, <1>2 DEF Shape, nameiparent
<1>5. Ilock(a) /\ OpenIp(p, a)
  BY <1>4 DEF OpenFound
<1> QED BY <1>2, <1>3, <1>4, <1>5, OpenIpStep

LEMMA CreateExistsStep ==
  ASSUME FsInv, NEW p \in Proc, CreateExists(p)
  PROVE  FsInv'
<1>1. LocalOK /\ Shape(p)
  BY DEF FsInv
<1>2. /\ pc[p] = "exists" /\ puts[p] = <<>> /\ Goto(p, "end") /\ Hold(p, 0, 0)
      /\ UNCHANGED <<ents, ref, lock, cwd, op, path, new>>
  BY DEF CreateExists, At
<1>3. cur[p] = 0 /\ ~Linking(p)
  BY <1>1, <1>2 DEF Shape, Linking
<1>4. PICK a \in Inum : a = ip[p]
  BY <1>1, <1>2 DEF Shape
<1>5. Ilock(a) /\ dinode[a].type # "free"
  BY <1>4, LoadedIs DEF CreateExists
<1>6. CASE OpenIp(p, a)
  BY <1>2, <1>3, <1>4, <1>5, <1>6, OpenIpStep
<1>7. CASE Peek(a) /\ Put(p, <<a>>) /\ UNCHANGED <<used, dinode, file>>
  BY <1>2, <1>3, <1>4, <1>5, <1>7, DropOne DEF disk, held
<1> QED BY <1>4, <1>6, <1>7 DEF CreateExists

LEMMA WriteiStep ==
  ASSUME FsInv, NEW p \in Proc, Writei(p)
  PROVE  FsInv'
<1>1. LocalOK /\ TableOK /\ DiskOK /\ BlocksOwned /\ Shape(p)
  BY DEF FsInv
<1>2. /\ pc[p] = "write" /\ puts[p] = <<>> /\ Goto(p, "end") /\ Hold(p, 0, 0)
      /\ UNCHANGED <<ents, ref, lock, cwd, file, op, path, new, puts>>
  BY DEF Writei, At, held
<1>3. PICK a \in Inum : a = ip[p] /\ file[p] = a /\ cur[p] = 0
  BY <1>1, <1>2 DEF Shape
<1>4. Loaded(a) = dinode[a] /\ dinode[a].type # "free"
  BY <1>3, LoadedIs DEF Writei
<1>5. EndPointers(p)
  BY <1>1, <1>2 DEF EndPointers, LocalOK
<1>6. /\ LocalOK' /\ SameOthers(p) /\ Shape(p)' /\ KnowOf(p)' /\ ~New(p)' /\ ~Linking(p)'
      /\ pc'[p] = "end" /\ cur'[p] = 0 /\ ip'[p] = 0
  BY <1>1, <1>2, <1>5, EndLocals
<1>7. PICK r \in Inode :
        /\ Iupdate([j \in {a} |-> r])
        /\ r.type = dinode[a].type /\ r.nlink = dinode[a].nlink
        /\ r.addr = 0 \/ r.addr = dinode[a].addr \/ r.addr \notin used
        /\ used' = (used \ {dinode[a].addr}) \cup ({r.addr} \ {0})
  <2>1. dinode[a] \in Inode
    BY <1>1 DEF DiskOK
  <2>2. CASE dinode[a].type = "file" /\ dinode[a].addr = 0 /\ FreeBlocks # {}
    <3>1. PICK b \in Block : b = balloc /\ b \notin used /\ b # 0
      <4>1. FreeBlocks # {} /\ FreeBlocks \subseteq Block /\ \A c \in FreeBlocks : c # 0 /\ c \notin used
        BY <2>2, FsAssumption DEF FreeBlocks
      <4>2. FreeBlocks \subseteq Nat
        BY <4>1, FsAssumption
      <4> QED BY <4>1, <4>2, MinIs DEF balloc
    <3>2. PICK r \in Inode : /\ r = [dinode[a] EXCEPT !.addr = b]
                             /\ r.type = dinode[a].type /\ r.nlink = dinode[a].nlink /\ r.addr = b
      <4>1. b \in Block \cup {0}
        OBVIOUS
      <4>2. \E r : r = [dinode[a] EXCEPT !.addr = b]
        OBVIOUS
      <4>3. ASSUME NEW r, r = [dinode[a] EXCEPT !.addr = b]
            PROVE  r \in Inode /\ r.type = dinode[a].type /\ r.nlink = dinode[a].nlink /\ r.addr = b
        BY <2>1, <4>1, <4>3, AddrIs
      <4> QED BY <4>2, <4>3
    <3>3. Iupdate([j \in {a} |-> r]) /\ used' = used \cup {b}
      <4>1. \E g \in BOOLEAN :
               /\ g <=> Loaded(a).type = "file" /\ Loaded(a).addr = 0 /\ FreeBlocks # {}
               /\ used' = IF g THEN used \cup {balloc} ELSE used
               /\ Iupdate([j \in {a} |-> IF g THEN [Loaded(a) EXCEPT !.addr = balloc] ELSE Loaded(a)])
        BY <1>3 DEF Writei
      <4>2. used' = used \cup {balloc} /\ Iupdate([j \in {a} |-> [Loaded(a) EXCEPT !.addr = balloc]])
        BY <1>4, <2>2, <4>1
      <4> QED BY <1>4, <3>1, <3>2, <4>2
    <3>4. 0 \notin used
      BY <1>1 DEF BlocksOwned
    <3>5. used' = (used \ {dinode[a].addr}) \cup ({r.addr} \ {0})
      BY <2>2, <3>1, <3>2, <3>3, <3>4
    <3> QED BY <3>1, <3>2, <3>3, <3>5
  <2>3. CASE ~(dinode[a].type = "file" /\ dinode[a].addr = 0 /\ FreeBlocks # {})
    <3>1. Iupdate([j \in {a} |-> dinode[a]]) /\ used' = used
      BY <1>3, <1>4, <2>3 DEF Writei
    <3>2. \A b : b \in used <=> b # 0 /\ \E j \in Inum : b = dinode[j].addr
      BY <1>1 DEF BlocksOwned
    <3>3. used' = (used \ {dinode[a].addr}) \cup ({dinode[a].addr} \ {0})
      BY <3>1, <3>2
    <3> QED BY <2>1, <3>1, <3>3
  <2> QED BY <2>2, <2>3
<1>8. /\ dinode' \in [Inum -> Inode] /\ dinode'[a] = r /\ \A j \in Inum : j # a => dinode'[j] = dinode[j]
      /\ \A j \in Inum : dinode'[j].type = dinode[j].type
  BY <1>4, <1>7, UpdateIs
<1>9. used' \subseteq Block /\ BlocksOwned'
  <2>1. dinode'[a].addr = r.addr /\ r.addr \in Block \cup {0}
    BY <1>8 DEF Inode
  <2>2. \A j \in Inum : j # a => dinode'[j].addr = dinode[j].addr
    BY <1>8
  <2> QED BY <1>1, <1>7, <2>1, <2>2, BlocksStep DEF DiskOK
<1>10. FileLinks' /\ DirLinks'
  <2>a. \A j \in Inum : dinode[j].nlink \in Nat
    BY <1>1 DEF DiskOK, Inode
  <2>1. \A j \in Inum : dinode'[j].type = dinode[j].type /\ dinode'[j].nlink >= dinode[j].nlink
    BY <1>7, <1>8, <2>a
  <2>2. ~Linking(p)
    BY <1>2 DEF Linking
  <2> QED BY <1>2, <1>6, <1>8, <2>1, <2>2, LinksKeep
<1>11. LockInv'
  BY <1>2, <1>6, LocksFrame
<1>12. \A i \in Inum : Has(p, i)' => Has(p, i)
  BY <1>2, <1>6, FsAssumption DEF Has
<1>13. ASSUME NEW i \in Inum PROVE ref'[i] - ref[i] = Mine(p, i)' - Mine(p, i)
  <2>1. i # 0 /\ Mine(p, i) \in Nat /\ ref[i] \in Int
    BY <1>1, PtrIs, FsAssumption DEF TableOK
  <2>2. ~PutTo(p, 1, i) /\ ~PutTo(p, 2, i) /\ ~PutTo(p, 1, i)' /\ ~PutTo(p, 2, i)'
    BY <1>2, PutNone, PutNoneNext
  <2>3. Mine(p, i)' = One(cwd[p] = i) + One(a = i)
    BY <1>2, <1>3, <1>6, <2>1, <2>2 DEF Mine, One
  <2>4. Mine(p, i) = One(cwd[p] = i) + One(a = i)
    BY <1>2, <1>3, <2>1, <2>2 DEF Mine, One
  <2> QED BY <1>2, <2>1, <2>3, <2>4
<1>14. Has(p, a) /\ ref' \in [Inum -> Int] /\ lock' \in [Inum -> Proc \cup {None}]
  BY <1>1, <1>2, <1>3 DEF Has, TableOK
<1> QED BY <1>2, <1>4, <1>6, <1>7, <1>9, <1>10, <1>11, <1>12, <1>13, <1>14, InodeStep

----------------------------------------------------------------------------
(* Steps that change link counts. *)

\* A name's inode gets as many links as it has names and calls that will name it.
LEMMA LinksChange ==
  ASSUME FsInv, NEW p \in Proc, SameOthers(p), UNCHANGED ents, dinode' \in [Inum -> Inode],
         \A j \in Inum : dinode'[j].type = dinode[j].type,
         \A j \in Inum : dinode'[j].nlink + One(p \in LinksTo(j)) >= dinode[j].nlink + One(p \in LinksTo(j)'),
         \A j \in Inum : dinode[j].type = "dir" => dinode'[j].nlink = dinode[j].nlink
  PROVE  FileLinks' /\ DirLinks'
<1>1. \A i \in Inum : NamesOf(i)' = NamesOf(i) /\ DirsIn(i)' = DirsIn(i)
  BY NamesFrame DEF FsInv, DiskOK
<1>2. ASSUME NEW i \in Inum
      PROVE  /\ Cardinality(LinksTo(i)') + One(p \in LinksTo(i)) = Cardinality(LinksTo(i)) + One(p \in LinksTo(i)')
             /\ Cardinality(LinksTo(i)) \in Nat /\ Cardinality(LinksTo(i)') \in Nat
  <2>1. LinksTo(i)' \ {p} = LinksTo(i) \ {p}
    <3>1. \A q \in Proc : q # p => (Linking(q)' <=> Linking(q)) /\ ip'[q] = ip[q]
      BY DEF SameOthers, SameLocal, Linking
    <3> QED BY <3>1 DEF LinksTo
  <2>2. IsFiniteSet(LinksTo(i)) /\ IsFiniteSet(LinksTo(i)')
    <3>1. LinksTo(i)' \subseteq Proc
      BY DEF LinksTo
    <3> QED BY <3>1, NamesFinite, FsAssumption, FS_Subset
  <2>3. /\ Cardinality(LinksTo(i)) \in Nat /\ Cardinality(LinksTo(i) \ {p}) \in Nat
        /\ Cardinality(LinksTo(i)) = Cardinality(LinksTo(i) \ {p}) + One(p \in LinksTo(i))
    BY <2>2, CardSplit
  <2>4. /\ Cardinality(LinksTo(i)') \in Nat /\ Cardinality(LinksTo(i)' \ {p}) \in Nat
        /\ Cardinality(LinksTo(i)') = Cardinality(LinksTo(i)' \ {p}) + One(p \in LinksTo(i)')
    BY <2>2, CardSplit
  <2>5. One(p \in LinksTo(i)) \in Nat /\ One(p \in LinksTo(i)') \in Nat
    BY DEF One
  <2>6. Cardinality(LinksTo(i)' \ {p}) = Cardinality(LinksTo(i) \ {p})
    BY <2>1, Zenon
  <2>7. ASSUME NEW m \in Nat, NEW n \in Nat, NEW x \in Nat, NEW y \in Nat, NEW k \in Nat,
               m = k + x, n = k + y
        PROVE  n + x = m + y
    BY <2>7
  <2> QED BY <2>3, <2>4, <2>5, <2>6, <2>7
<1>3. \A i \in Inum : dinode'[i].nlink \in Nat /\ dinode[i].nlink \in Nat
  BY DEF FsInv, DiskOK, Inode
<1>4. \A i \in Inum : Cardinality(NamesOf(i)) \in Nat
  BY NamesFinite, FS_CardinalityType
<1>5. FileLinks'
  <2>1. ASSUME NEW i \in Inum, dinode[i].type # "dir"
        PROVE  dinode'[i].nlink >= Cardinality(NamesOf(i)) + Cardinality(LinksTo(i)')
    <3>1. dinode[i].nlink >= Cardinality(NamesOf(i)) + Cardinality(LinksTo(i))
      BY <2>1 DEF FsInv, FileLinks
    <3>2. One(p \in LinksTo(i)) \in Nat /\ One(p \in LinksTo(i)') \in Nat
      BY DEF One
    <3> QED BY <1>2, <1>3, <1>4, <3>1, <3>2
  <2> QED BY <1>1, <2>1 DEF FileLinks
<1>6. DirLinks'
  <2>1. ASSUME NEW i \in Inum, dinode[i].type = "dir"
        PROVE  /\ dinode'[i].nlink >= Cardinality(DirsIn(i))
               /\ i = root \/ NamesOf(i) # {} => dinode'[i].nlink >= 1 + Cardinality(DirsIn(i))
               /\ \A a, b \in NamesOf(i) : a = b
    BY <2>1 DEF FsInv, DirLinks
  <2> QED BY <1>1, <2>1 DEF DirLinks
<1> QED BY <1>5, <1>6

LEMMA LinkBadStep ==
  ASSUME FsInv, NEW p \in Proc, LinkBad(p)
  PROVE  FsInv'
<1>1. LocalOK /\ TableOK /\ DiskOK /\ BlocksOwned /\ Shape(p) /\ KnowOf(p)
  BY DEF FsInv
<1>2. /\ pc[p] = "bad" /\ puts[p] = <<>> /\ Goto(p, "end") /\ Hold(p, 0, 0)
      /\ UNCHANGED <<ents, used, ref, lock, cwd, file, op, path, new>>
  BY DEF LinkBad, At, held
<1>3. PICK a \in Inum : a = ip[p] /\ cur[p] = 0
  BY <1>1, <1>2 DEF Shape
<1>4. Loaded(a) = dinode[a] /\ dinode[a].type # "free"
  BY <1>3, LoadedIs DEF LinkBad
<1>5. Put(p, <<a>>) /\ Iupdate([j \in {a} |-> [dinode[a] EXCEPT !.nlink = @ - 1]])
  BY <1>3, <1>4 DEF LinkBad
<1>6. /\ puts' \in [Proc -> Seq(Inum \X BOOLEAN)] /\ \A q \in Proc : Len(puts'[q]) <= 2
      /\ \A q \in Proc : q # p => puts'[q] = puts[q]
      /\ \A i \in Inum : (PutTo(p, 1, i)' <=> i = a) /\ ~PutTo(p, 2, i)'
      /\ \A i \in Inum : Has(p, i)' => i \in {cwd'[p], file'[p], cur'[p], ip'[p], a}
  BY <1>1, <1>5, PutOne
<1>7. EndPointers(p)
  BY <1>1, <1>2, <1>6 DEF EndPointers, LocalOK
<1>8. /\ LocalOK' /\ SameOthers(p) /\ Shape(p)' /\ KnowOf(p)' /\ ~New(p)' /\ ~Linking(p)'
      /\ pc'[p] = "end" /\ cur'[p] = 0 /\ ip'[p] = 0
  BY <1>1, <1>2, <1>7, EndLocals
<1>9. Linking(p) /\ p \in LinksTo(a) /\ dinode[a].type # "dir"
  BY <1>1, <1>2, <1>3 DEF Linking, LinksTo, KnowOf
<1>10. dinode[a].nlink \in Nat /\ dinode[a].nlink >= 1 /\ dinode[a] \in Inode
  <2>1. dinode[a].nlink \in Nat /\ dinode[a] \in Inode
    BY <1>1 DEF DiskOK, Inode
  <2>2. IsFiniteSet(LinksTo(a)) /\ LinksTo(a) # {} /\ IsFiniteSet(NamesOf(a))
    BY <1>9, NamesFinite
  <2>3. Cardinality(LinksTo(a)) \in Nat /\ Cardinality(LinksTo(a)) # 0 /\ Cardinality(NamesOf(a)) \in Nat
    BY <2>2, FS_CardinalityType, FS_EmptySet
  <2>4. dinode[a].nlink >= Cardinality(NamesOf(a)) + Cardinality(LinksTo(a))
    BY <1>9 DEF FsInv, FileLinks
  <2> QED BY <2>1, <2>3, <2>4
<1>11. PICK r \in Inode : /\ Iupdate([j \in {a} |-> r]) /\ r.type = dinode[a].type
                          /\ r.nlink = dinode[a].nlink - 1 /\ r.addr = dinode[a].addr
  <2>1. \E r : r = [dinode[a] EXCEPT !.nlink = @ - 1]
    OBVIOUS
  <2>2. ASSUME NEW r, r = [dinode[a] EXCEPT !.nlink = @ - 1]
        PROVE  /\ r \in Inode /\ r.type = dinode[a].type /\ r.nlink = dinode[a].nlink - 1
               /\ r.addr = dinode[a].addr /\ Iupdate([j \in {a} |-> r])
    <3>1. dinode[a].nlink - 1 \in Nat
      BY <1>10
    <3> QED BY <1>5, <1>10, <2>2, <3>1, NlinkIs
  <2> QED BY <2>1, <2>2
<1>12. /\ dinode' \in [Inum -> Inode] /\ dinode'[a] = r /\ \A j \in Inum : j # a => dinode'[j] = dinode[j]
       /\ \A j \in Inum : dinode'[j].type = dinode[j].type
  BY <1>4, <1>11, UpdateIs
<1>13. used' \subseteq Block /\ BlocksOwned'
  <2>1. \A j \in Inum : dinode'[j].addr = dinode[j].addr
    BY <1>11, <1>12
  <2> QED BY <1>1, <1>2, <2>1 DEF DiskOK, BlocksOwned
<1>14. FileLinks' /\ DirLinks'
  <2>1. \A j \in Inum : p \in LinksTo(j) <=> j = a
    BY <1>3, <1>9 DEF LinksTo
  <2>2. \A j \in Inum : p \notin LinksTo(j)'
    BY <1>8 DEF LinksTo
  <2>3. ASSUME NEW j \in Inum
        PROVE  /\ dinode'[j].nlink + One(p \in LinksTo(j)) >= dinode[j].nlink + One(p \in LinksTo(j)')
               /\ dinode[j].type = "dir" => dinode'[j].nlink = dinode[j].nlink
    <3>1. dinode[j].nlink \in Nat
      BY <1>1 DEF DiskOK, Inode
    <3>2. CASE j = a
      BY <1>9, <1>10, <1>11, <1>12, <2>1, <2>2, <3>2 DEF One
    <3>3. CASE j # a
      BY <1>12, <2>1, <2>2, <3>1, <3>3 DEF One
    <3> QED BY <3>2, <3>3
  <2> QED BY <1>2, <1>8, <1>12, <2>3, LinksChange
<1>15. LockInv'
  BY <1>2, <1>8, LocksFrame
<1>16. \A i \in Inum : Has(p, i)' => Has(p, i)
  BY <1>2, <1>3, <1>6, <1>8, FsAssumption DEF Has
<1>17. ASSUME NEW i \in Inum PROVE ref'[i] - ref[i] = Mine(p, i)' - Mine(p, i)
  <2>1. i # 0 /\ Mine(p, i) \in Nat /\ ref[i] \in Int
    BY <1>1, PtrIs, FsAssumption DEF TableOK
  <2>2. ~PutTo(p, 1, i) /\ ~PutTo(p, 2, i)
    BY <1>2, PutNone
  <2>3. Mine(p, i)' = One(cwd[p] = i) + One(file[p] = i) + One(a = i)
    BY <1>2, <1>6, <1>8, <2>1 DEF Mine, One
  <2>4. Mine(p, i) = One(cwd[p] = i) + One(file[p] = i) + One(a = i)
    BY <1>2, <1>3, <2>1, <2>2 DEF Mine, One
  <2> QED BY <1>2, <2>1, <2>3, <2>4
<1>18. Has(p, a) /\ ref' \in [Inum -> Int] /\ lock' \in [Inum -> Proc \cup {None}]
  BY <1>1, <1>2, <1>3 DEF Has, TableOK
<1> QED BY <1>2, <1>4, <1>8, <1>11, <1>13, <1>14, <1>15, <1>16, <1>17, <1>18, InodeStep

LEMMA LinkCountStep ==
  ASSUME PlainPaths, FsInv, NEW p \in Proc, LinkCount(p)
  PROVE  FsInv'
<1>1. LocalOK /\ TableOK /\ DiskOK /\ BlocksOwned /\ Shape(p) /\ KnowOf(p)
  BY DEF FsInv
<1>2. /\ pc[p] = "found" /\ op[p] = "link" /\ puts[p] = <<>>
      /\ UNCHANGED <<ents, used, lock, held, cwd, file, new>>
  BY DEF LinkCount, At, held
<1>3. /\ ~nameiparent(p) /\ ~Linking(p) /\ ~New(p)
  BY <1>2 DEF nameiparent, Linking, New
<1>4. PICK a \in Inum : a = ip[p] /\ cur[p] = 0 /\ new[p] \in Path
  BY <1>1, <1>2, <1>3 DEF Shape
<1>5. Loaded(a) = dinode[a] /\ dinode[a].type # "free"
  BY <1>4, LoadedIs DEF LinkCount
<1>6. CASE /\ Peek(a) /\ Put(p, <<a>>) /\ Hold(p, 0, 0) /\ Goto(p, "end")
           /\ UNCHANGED <<dinode, ref, op, path>>
  BY <1>2, <1>3, <1>4, <1>5, <1>6, DropOne DEF disk
<1>7. ASSUME /\ dinode[a].type # "dir"
             /\ Iupdate([j \in {a} |-> Counted(dinode[a])])
             /\ op' = [op EXCEPT ![p] = "link to"] /\ Goto(p, "namex")
             /\ path' = [path EXCEPT ![p] = Elems(new[p])]
             /\ Hold(p, StartOf(p, new[p]), a)
             /\ ref' = [ref EXCEPT ![StartOf(p, new[p])] = @ + 1]
             /\ UNCHANGED puts
      PROVE  FsInv'
  <2>1. PICK c \in Inum : c = StartOf(p, new[p]) /\ (c = root \/ Has(p, c))
    BY <1>1, StartIs
  <2>2. pc' \in [Proc -> Positions] /\ pc'[p] = "namex" /\ \A q \in Proc : q # p => pc'[q] = pc[q]
    BY <1>1, <1>7, GotoIs DEF Positions
  <2>3. /\ cur' \in [Proc -> Ref] /\ cur'[p] = c /\ \A q \in Proc : q # p => cur'[q] = cur[q]
        /\ ip' \in [Proc -> Ref] /\ ip'[p] = a /\ \A q \in Proc : q # p => ip'[q] = ip[q]
    <3>1. c \in Ref /\ a \in Ref /\ Hold(p, c, a)
      BY <1>7, <2>1 DEF Ref
    <3> QED BY <1>1, <3>1, HoldIs
  <2>4. path' \in [Proc -> Seq(Name)] /\ \A q \in Proc : q # p => path'[q] = path[q]
    <3>1. Elems(new[p]) \in Seq(Name) /\ path \in [Proc -> Seq(Name)]
      BY <1>1, <1>4 DEF PlainPaths, LocalOK
    <3> QED BY <1>7, <3>1
  <2>5. /\ op' \in [Proc -> Walks \cup {"close", "write", None}] /\ op'[p] = "link to"
        /\ \A q \in Proc : q # p => op'[q] = op[q]
    BY <1>1, <1>7 DEF LocalOK, Walks
  <2>6. LocalOK'
    BY <1>1, <1>2, <1>7, <2>2, <2>3, <2>4, <2>5 DEF LocalOK
  <2>7. SameOthers(p)
    BY <1>2, <1>7, <2>2, <2>3, <2>4, <2>5 DEF SameOthers, SameLocal
  <2>8. dinode[a] \in Inode /\ dinode[a].nlink \in Nat
    BY <1>1 DEF DiskOK, Inode
  <2>9. PICK r \in Inode : /\ Iupdate([j \in {a} |-> r]) /\ r.type = dinode[a].type
                           /\ r.nlink = dinode[a].nlink + 1 /\ r.addr = dinode[a].addr
    <3>1. \E r : r = Counted(dinode[a])
      OBVIOUS
    <3>2. ASSUME NEW r, r = Counted(dinode[a])
          PROVE  /\ r \in Inode /\ r.type = dinode[a].type /\ r.nlink = dinode[a].nlink + 1
                 /\ r.addr = dinode[a].addr /\ Iupdate([j \in {a} |-> r])
      <4>1. dinode[a].nlink + 1 \in Nat
        BY <2>8
      <4>2. r = [dinode[a] EXCEPT !.nlink = dinode[a].nlink + 1]
        BY <3>2 DEF Counted
      <4>3. Iupdate([j \in {a} |-> r])
        BY <1>7, <3>2
      <4> QED BY <2>8, <4>1, <4>2, <4>3, NlinkIs
    <3> QED BY <3>1, <3>2
  <2>10. /\ dinode' \in [Inum -> Inode] /\ dinode'[a] = r
         /\ \A j \in Inum : j # a => dinode'[j] = dinode[j]
         /\ \A j \in Inum : dinode'[j].type = dinode[j].type
    BY <1>5, <2>9, UpdateIs
  <2>11. used' \subseteq Block /\ BlocksOwned'
    <3>1. \A j \in Inum : dinode'[j].addr = dinode[j].addr
      BY <2>9, <2>10
    <3> QED BY <1>1, <1>2, <3>1 DEF DiskOK, BlocksOwned
  <2>12. Linking(p)'
    BY <2>2, <2>5 DEF Linking
  <2>13. FileLinks' /\ DirLinks'
    <3>1. \A j \in Inum : p \notin LinksTo(j)
      BY <1>3 DEF LinksTo
    <3>2. \A j \in Inum : p \in LinksTo(j)' <=> j = a
      BY <2>3, <2>12 DEF LinksTo
    <3>3. ASSUME NEW j \in Inum
          PROVE  /\ dinode'[j].nlink + One(p \in LinksTo(j)) >= dinode[j].nlink + One(p \in LinksTo(j)')
                 /\ dinode[j].type = "dir" => dinode'[j].nlink = dinode[j].nlink
      <4>1. dinode[j].nlink \in Nat
        BY <1>1 DEF DiskOK, Inode
      <4>2. CASE j = a
        <5>1. dinode'[j].nlink = dinode[j].nlink + 1 /\ dinode[j].type # "dir"
          BY <1>7, <2>9, <2>10, <4>2
        <5>2. One(p \in LinksTo(j)) = 0 /\ One(p \in LinksTo(j)') = 1
          BY <3>1, <3>2, <4>2 DEF One
        <5> QED BY <4>1, <5>1, <5>2
      <4>3. CASE j # a
        BY <2>10, <3>1, <3>2, <4>1, <4>3 DEF One
      <4> QED BY <4>2, <4>3
    <3> QED BY <1>2, <2>7, <2>10, <3>3, LinksChange
  <2>14. LockInv'
    BY <1>2, <2>7, LocksFrame
  <2>15. \A j \in Inum : Has(p, j)' => Has(p, j) \/ j = root
    BY <1>2, <1>4, <1>7, <2>1, <2>3 DEF Has
  <2>16. ref' \in [Inum -> Int] /\ \A i \in Inum : ref'[i] = ref[i] + One(i = c)
    <3>1. ref \in [Inum -> Int] /\ ref' = [ref EXCEPT ![c] = @ + 1]
      BY <1>1, <1>7, <2>1 DEF TableOK
    <3>2. \A i \in Inum : ref[i] \in Int /\ ref'[i] = IF i = c THEN ref[i] + 1 ELSE ref[i]
      BY <3>1
    <3>3. ref' \in [Inum -> Int]
      BY <3>1
    <3> QED BY <3>2, <3>3 DEF One
  <2>17. ASSUME NEW i \in Inum PROVE ref'[i] - ref[i] = Mine(p, i)' - Mine(p, i)
    <3>1. i # 0 /\ Mine(p, i) \in Nat /\ ref[i] \in Int /\ ref'[i] = ref[i] + One(i = c)
      BY <1>1, <2>16, PtrIs, FsAssumption DEF TableOK
    <3>2. ~PutTo(p, 1, i) /\ ~PutTo(p, 2, i) /\ ~PutTo(p, 1, i)' /\ ~PutTo(p, 2, i)'
      BY <1>2, <1>7, PutNone, PutNoneNext
    <3>3. Mine(p, i)' = One(cwd[p] = i) + One(file[p] = i) + One(c = i) + One(a = i)
      BY <1>2, <2>2, <2>3, <3>1, <3>2 DEF Mine, One
    <3>4. Mine(p, i) = One(cwd[p] = i) + One(file[p] = i) + One(a = i)
      BY <1>2, <1>4, <3>1, <3>2 DEF Mine, One
    <3> QED BY <3>1, <3>3, <3>4 DEF One
  <2>18. Shape(p)'
    BY <2>2, <2>3, <2>5 DEF Shape, Walks
  <2>19. KnowOf(p)' /\ ~New(p)'
    BY <1>7, <2>2, <2>3, <2>9, <2>10, <2>12 DEF KnowOf, New
  <2>20. Has(p, a) /\ lock' \in [Inum -> Proc \cup {None}]
    BY <1>1, <1>2, <1>4 DEF Has, TableOK
  <2>21. \A j \in Inum : lock[j] # None /\ lock[j] # p => lock'[j] = lock[j]
    BY <1>2
  <2> HIDE <1>7
  <2> QED BY <1>2, <1>5, <2>6, <2>7, <2>9, <2>11, <2>13, <2>14, <2>15, <2>16, <2>17, <2>18, <2>19,
             <2>20, <2>21, InodeStep
<1>8. \/ /\ Peek(a) /\ Put(p, <<a>>) /\ Hold(p, 0, 0) /\ Goto(p, "end")
         /\ UNCHANGED <<dinode, ref, op, path>>
      \/ /\ dinode[a].type # "dir"
         /\ Iupdate([j \in {a} |-> Counted(dinode[a])])
         /\ op' = [op EXCEPT ![p] = "link to"] /\ Goto(p, "namex")
         /\ path' = [path EXCEPT ![p] = Elems(new[p])]
         /\ Hold(p, StartOf(p, new[p]), a)
         /\ ref' = [ref EXCEPT ![StartOf(p, new[p])] = @ + 1]
         /\ UNCHANGED puts
  BY <1>4, <1>5 DEF LinkCount
<1> QED BY <1>6, <1>7, <1>8

----------------------------------------------------------------------------
(* Steps that enter and remove names. *)

\* One name is entered.
Entered(d, n, a) == /\ ents[d][n] = 0
                    /\ \A e \in Inum, m \in Name :
                         ents'[e][m] = IF e = d /\ m = n THEN a ELSE ents[e][m]

LEMMA NamesAdd ==
  ASSUME NEW d \in Inum, NEW n \in Name, NEW a \in Inum, Entered(d, n, a)
  PROVE  /\ \A j \in Inum : j # a => NamesOf(j)' = NamesOf(j)
         /\ NamesOf(a)' = NamesOf(a) \cup {<<d, n>>}
         /\ Cardinality(NamesOf(a)') = Cardinality(NamesOf(a)) + 1
         /\ Cardinality(NamesOf(a)) \in Nat
<1>1. a # 0
  BY FsAssumption
<1>2. \A s \in Inum \X Name : \E e \in Inum, m \in Name : s = <<e, m>> /\ s[1] = e /\ s[2] = m
  OBVIOUS
<1>3. ASSUME NEW j \in Inum, NEW s \in Inum \X Name
      PROVE  ents'[s[1]][s[2]] = j <=> ents[s[1]][s[2]] = j \/ (j = a /\ s = <<d, n>>)
  <2>1. PICK e \in Inum, m \in Name : s = <<e, m>> /\ s[1] = e /\ s[2] = m
    BY <1>2
  <2>2. j # 0
    BY FsAssumption
  <2>3. s = <<d, n>> <=> e = d /\ m = n
    BY <2>1
  <2> QED BY <2>1, <2>2, <2>3 DEF Entered
<1>4. \A j \in Inum : j # a => NamesOf(j)' = NamesOf(j)
  BY <1>3 DEF NamesOf
<1>5. NamesOf(a)' = NamesOf(a) \cup {<<d, n>>}
  <2>1. <<d, n>> \in Inum \X Name
    OBVIOUS
  <2> QED BY <1>3, <2>1 DEF NamesOf
<1>6. <<d, n>> \notin NamesOf(a)
  BY <1>1 DEF NamesOf, Entered
<1>7. IsFiniteSet(NamesOf(a)) /\ Cardinality(NamesOf(a)) \in Nat
  BY NamesFinite, FS_CardinalityType
<1>8. Cardinality(NamesOf(a) \cup {<<d, n>>}) = Cardinality(NamesOf(a)) + 1
  BY <1>6, <1>7, FS_AddElement
<1> QED BY <1>4, <1>5, <1>7, <1>8

LEMMA NameAdd ==
  ASSUME NameInv, ents \in [Inum -> [Entry -> Ref]], NEW d \in Inum, NEW n \in Name, NEW a \in Inum,
         Entered(d, n, a), \A j \in Inum : dinode'[j].type = dinode[j].type,
         dinode[d].type = "dir", dinode[a].type # "free", a # root
  PROVE  NameInv'
<1>1. SUFFICES ASSUME NEW e \in Inum, NEW m \in Name, ents'[e][m] # 0
               PROVE  dinode'[e].type = "dir" /\ dinode'[ents'[e][m]].type # "free" /\ ents'[e][m] # root
  BY DEF NameInv
<1>2. CASE e = d /\ m = n
  BY <1>2 DEF Entered
<1>3. CASE ~(e = d /\ m = n)
  <2>1. ents'[e][m] = ents[e][m] /\ ents[e][m] \in Inum
    BY <1>1, <1>3 DEF Entered, Entry, Ref
  <2> QED BY <1>1, <2>1 DEF NameInv
<1> QED BY <1>2, <1>3

\* A tree stays one with a new leaf.
LEMMA TreeAdd ==
  ASSUME TreeInv, NEW d \in Inum, NEW n \in Name, NEW a \in Inum, Entered(d, n, a),
         a # d, \A m \in Name : ents[a][m] = 0
  PROVE  TreeInv'
<1>1. SUFFICES ASSUME NEW T \in SUBSET Inum, T # {}
               PROVE  \E e \in T : \A m \in Name : ents'[e][m] \notin T
  BY DEF TreeInv
<1>2. CASE a \in T
  <2>1. \A m \in Name : ents'[a][m] = 0 /\ 0 \notin T
    BY FsAssumption DEF Entered
  <2> QED BY <1>2, <2>1
<1>3. CASE a \notin T
  <2>1. PICK e \in T : \A m \in Name : ents[e][m] \notin T
    BY <1>1 DEF TreeInv
  <2> QED BY <1>3, <2>1 DEF Entered
<1> QED BY <1>2, <1>3

\* The change of one entry of a directory.
SetEnt(d, n, a) == ents' = [ents EXCEPT ![d][n] = a]

LEMMA EntIs ==
  ASSUME ents \in [Inum -> [Entry -> Ref]], NEW d \in Inum, NEW n \in Name, NEW a \in Ref,
         SetEnt(d, n, a)
  PROVE  /\ ents' \in [Inum -> [Entry -> Ref]]
         /\ \A e \in Inum : e # d => ents'[e] = ents[e]
         /\ \A e \in Inum, m \in Name : ents'[e][m] = IF e = d /\ m = n THEN a ELSE ents[e][m]
<1>1. n \in Entry /\ ents[d] \in [Entry -> Ref] /\ \A m \in Name : m \in Entry
  BY DEF Entry
<1>2. [ents[d] EXCEPT ![n] = a] \in [Entry -> Ref]
  BY <1>1
<1>3. ents' = [ents EXCEPT ![d] = [ents[d] EXCEPT ![n] = a]]
  BY DEF SetEnt
<1>4. ents' \in [Inum -> [Entry -> Ref]]
  BY <1>2, <1>3
<1>5. \A e \in Inum : e # d => ents'[e] = ents[e]
  BY <1>3
<1>6. \A m \in Name : ents'[d][m] = IF m = n THEN a ELSE ents[d][m]
  BY <1>1, <1>3
<1> QED BY <1>4, <1>5, <1>6

LEMMA LinkEnterStep ==
  ASSUME FsInv, NEW p \in Proc, LinkEnter(p)
  PROVE  FsInv'
<1>1. LocalOK /\ TableOK /\ DiskOK /\ BlocksOwned /\ Shape(p) /\ KnowOf(p) /\ NameInv /\ TreeInv
  BY DEF FsInv
<1>2. /\ pc[p] = "found" /\ op[p] = "link to" /\ puts[p] = <<>>
      /\ UNCHANGED <<dinode, used, ref, lock, held, cwd, file, op, path, new>>
  BY DEF LinkEnter, At, held
<1>3. nameiparent(p) /\ Linking(p)
  BY <1>2 DEF nameiparent, Linking
<1>4. PICK d \in Inum, a \in Inum : d = cur[p] /\ a = ip[p]
  BY <1>1, <1>2, <1>3 DEF Shape
<1>5. /\ Peek(d) /\ Loaded(d) = dinode[d] /\ dinode[d].type # "free" /\ lock[d] = None
  BY <1>4, LoadedIs DEF LinkEnter
<1>6. dinode[d].type = "dir" /\ dinode[a].type # "dir"
  BY <1>1, <1>2, <1>3, <1>4 DEF KnowOf
<1>7. /\ inode' \in [Inum -> Inode] /\ valid' \in [Inum -> BOOLEAN] /\ CopyInv'
      /\ \A j \in Inum : valid[j] => valid'[j]
  BY <1>2, <1>5, PeekStep
<1>8. TableOK'
  BY <1>1, <1>2, <1>7 DEF TableOK
<1>9. PICK n \in Name : n = Head(path[p])
  <2>1. Len(path[p]) = 1
    BY <1>1, <1>2, <1>3 DEF Shape
  <2>2. path[p] # <<>>
    BY <2>1
  <2> QED BY <1>1, <2>2, HeadIs
<1>10. CASE Put(p, <<d>>) /\ Hold(p, 0, ip[p]) /\ Goto(p, "bad") /\ UNCHANGED ents
  <2>1. NoName(p)
    BY <1>2, <1>4, <1>10 DEF NoName, Failed
  <2> QED BY <1>2, <1>3, <1>7, <1>8, <1>10, <2>1, NoNameStep DEF disk
<1>11. ASSUME ents[d][n] = 0, ents' = [ents EXCEPT ![d][n] = a],
              Put(p, <<d, a>>), Hold(p, 0, 0), Goto(p, "end")
       PROVE  FsInv'
  <2>1. /\ ents' \in [Inum -> [Entry -> Ref]]
        /\ \A e \in Inum : e # d => ents'[e] = ents[e]
        /\ Entered(d, n, a)
    <3>1. a \in Ref
      BY DEF Ref
    <3>2. ents \in [Inum -> [Entry -> Ref]]
      BY <1>1 DEF DiskOK
    <3>3. /\ ents' \in [Inum -> [Entry -> Ref]]
          /\ \A e \in Inum : e # d => ents'[e] = ents[e]
          /\ \A e \in Inum, m \in Name : ents'[e][m] = IF e = d /\ m = n THEN a ELSE ents[e][m]
      <4>1. SetEnt(d, n, a)
        BY <1>11 DEF SetEnt
      <4> QED BY <3>1, <3>2, <4>1, EntIs
    <3> QED BY <1>11, <3>3 DEF Entered
  <2>2. /\ puts' \in [Proc -> Seq(Inum \X BOOLEAN)] /\ \A q \in Proc : Len(puts'[q]) <= 2
        /\ \A q \in Proc : q # p => puts'[q] = puts[q]
        /\ \A i \in Inum : (PutTo(p, 1, i)' <=> i = d) /\ (PutTo(p, 2, i)' <=> i = a)
        /\ \A i \in Inum : Has(p, i)' => i \in {cwd'[p], file'[p], cur'[p], ip'[p], d, a}
    BY <1>1, <1>11, PutTwo
  <2>3. EndPointers(p)
    BY <1>1, <1>2, <2>2 DEF EndPointers, LocalOK
  <2>4. /\ LocalOK' /\ SameOthers(p) /\ Shape(p)' /\ KnowOf(p)' /\ NewOf(p)' /\ ~Linking(p)'
        /\ pc'[p] = "end" /\ cur'[p] = 0 /\ ip'[p] = 0
    BY <1>1, <1>2, <1>11, <2>3, EndLocals
  <2>5. Has(p, d) /\ Has(p, a)
    BY <1>4 DEF Has
  <2>6. \A i \in Inum : Has(p, i)' => Has(p, i)
    BY <1>2, <2>2, <2>4, <2>5, FsAssumption DEF Has
  <2>7. DiskOK'
    BY <1>1, <1>2, <2>1 DEF DiskOK
  <2>8. OthersFrame(p)
    BY <1>2, <1>5, <1>7, <2>1, <2>4, <2>5, <2>6 DEF OthersFrame, Entered
  <2>9. LockInv'
    BY <1>2, <2>4, LocksFrame
  <2>10. HasOf(p)'
    BY <1>2, <2>6 DEF FsInv, HasOf
  <2>11. dinode[a].type # "free" /\ a # root /\ a # d
    BY <1>1, <1>6, <2>5 DEF FsInv, HasOf, DiskOK
  <2>12. NameInv'
    <3>1. ents \in [Inum -> [Entry -> Ref]] /\ \A j \in Inum : dinode'[j].type = dinode[j].type
      BY <1>1, <1>2 DEF DiskOK
    <3> QED BY <1>1, <1>6, <2>1, <2>11, <3>1, NameAdd
  <2>13. TreeInv'
    <3>1. \A m \in Name : ents[a][m] = 0
      BY <1>1, <1>6 DEF NameInv
    <3> QED BY <1>1, <2>1, <2>11, <3>1, TreeAdd
  <2>14. /\ \A j \in Inum : j # a => NamesOf(j)' = NamesOf(j)
         /\ Cardinality(NamesOf(a)') = Cardinality(NamesOf(a)) + 1
         /\ Cardinality(NamesOf(a)) \in Nat
    BY <2>1, NamesAdd
  <2>15. FileLinks'
    <3>1. LinksTo(a) = LinksTo(a)' \cup {p} /\ p \notin LinksTo(a)'
      <4>1. p \in LinksTo(a) /\ p \notin LinksTo(a)'
        BY <1>3, <1>4, <2>4 DEF LinksTo
      <4>2. \A q \in Proc : q # p => (q \in LinksTo(a)' <=> q \in LinksTo(a))
        BY <2>4 DEF LinksTo, Linking, SameOthers, SameLocal
      <4>3. LinksTo(a) \subseteq Proc /\ LinksTo(a)' \subseteq Proc
        BY DEF LinksTo
      <4> QED BY <4>1, <4>2, <4>3
    <3>2. \A j \in Inum : j # a => LinksTo(j)' = LinksTo(j)
      <4>1. \A q \in Proc : q # p => (Linking(q)' <=> Linking(q)) /\ ip'[q] = ip[q]
        BY <2>4 DEF Linking, SameOthers, SameLocal
      <4> QED BY <1>4, <2>4, <4>1 DEF LinksTo
    <3>3. Cardinality(LinksTo(a)) = Cardinality(LinksTo(a)') + 1 /\ Cardinality(LinksTo(a)') \in Nat
      <4>1. IsFiniteSet(LinksTo(a)')
        <5>1. LinksTo(a)' \subseteq Proc
          BY DEF LinksTo
        <5> QED BY <5>1, FsAssumption, FS_Subset
      <4>2. Cardinality(LinksTo(a)' \cup {p}) = Cardinality(LinksTo(a)') + 1
        BY <3>1, <4>1, FS_AddElement
      <4>3. Cardinality(LinksTo(a)) = Cardinality(LinksTo(a)' \cup {p})
        BY <3>1, Zenon
      <4> QED BY <4>1, <4>2, <4>3, FS_CardinalityType
    <3>4. dinode[a].nlink >= Cardinality(NamesOf(a)) + Cardinality(LinksTo(a)) /\ dinode[a].nlink \in Nat
      BY <1>1, <1>6 DEF FsInv, FileLinks, DiskOK, Inode
    <3>5. dinode'[a].nlink >= Cardinality(NamesOf(a)') + Cardinality(LinksTo(a)')
      <4>1. dinode'[a].nlink = dinode[a].nlink
        BY <1>2
      <4> QED BY <2>14, <3>3, <3>4, <4>1
    <3>6. ASSUME NEW j \in Inum, j # a, dinode'[j].type # "dir"
          PROVE  dinode'[j].nlink >= Cardinality(NamesOf(j)') + Cardinality(LinksTo(j)')
      <4>1. NamesOf(j)' = NamesOf(j) /\ LinksTo(j)' = LinksTo(j) /\ dinode' = dinode
        BY <1>2, <2>14, <3>2, <3>6
      <4> QED BY <3>6, <4>1 DEF FsInv, FileLinks
    <3> QED BY <3>5, <3>6 DEF FileLinks
  <2>16. DirLinks'
    <3>1. ASSUME NEW j \in Inum PROVE DirsIn(j)' = DirsIn(j)
      <4>1. ASSUME NEW m \in Name
            PROVE  ents'[j][m] # 0 /\ dinode[ents'[j][m]].type = "dir"
                   <=> ents[j][m] # 0 /\ dinode[ents[j][m]].type = "dir"
        <5>1. CASE j = d /\ m = n
          BY <1>6, <1>11, <2>1, <5>1 DEF Entered
        <5>2. CASE ~(j = d /\ m = n)
          BY <2>1, <5>2 DEF Entered
        <5> QED BY <5>1, <5>2
      <4> QED BY <1>2, <4>1 DEF DirsIn
    <3>2. ASSUME NEW j \in Inum, dinode[j].type = "dir" PROVE NamesOf(j)' = NamesOf(j)
      BY <1>6, <2>14, <3>2
    <3> QED BY <1>2, <3>1, <3>2 DEF FsInv, DirLinks
  <2>17. BlocksOwned'
    BY <1>1, <1>2 DEF BlocksOwned
  <2>18. ASSUME NEW i \in Inum PROVE ref'[i] - ref[i] = Mine(p, i)' - Mine(p, i)
    <3>1. i # 0 /\ Mine(p, i) \in Nat /\ ref[i] \in Int
      BY <1>1, PtrIs, FsAssumption DEF TableOK
    <3>2. ~PutTo(p, 1, i) /\ ~PutTo(p, 2, i)
      BY <1>2, PutNone
    <3>3. Mine(p, i)' = One(cwd[p] = i) + One(file[p] = i) + One(d = i) + One(a = i)
      <4>1. /\ cwd'[p] = cwd[p] /\ file'[p] = file[p] /\ cur'[p] # i /\ ip'[p] # i
            /\ (PutTo(p, 1, i)' <=> d = i) /\ (PutTo(p, 2, i)' <=> a = i)
        BY <1>2, <2>2, <2>4, <3>1
      <4> QED BY <4>1 DEF Mine, One
    <3>4. Mine(p, i) = One(cwd[p] = i) + One(file[p] = i) + One(d = i) + One(a = i)
      <4>1. pc[p] # "write" /\ cur[p] = d /\ ip[p] = a
        BY <1>2, <1>4
      <4> QED BY <3>2, <4>1 DEF Mine, One
    <3>5. Mine(p, i)' = Mine(p, i) /\ ref'[i] = ref[i]
      BY <1>2, <3>3, <3>4
    <3> QED BY <3>1, <3>5
  <2> QED BY <1>7, <1>8, <2>4, <2>7, <2>8, <2>9, <2>10, <2>12, <2>13, <2>15, <2>16, <2>17, <2>18,
             DiskStep
<1>12. \/ Put(p, <<d>>) /\ Hold(p, 0, ip[p]) /\ Goto(p, "bad") /\ UNCHANGED ents
       \/ /\ ents[d][n] = 0 /\ ents' = [ents EXCEPT ![d][n] = a]
          /\ Put(p, <<d, a>>) /\ Hold(p, 0, 0) /\ Goto(p, "end")
  BY <1>4, <1>9 DEF LinkEnter, dirlookup, dirlink
<1> QED BY <1>10, <1>11, <1>12

\* A reference to an inode is taken.
LEMMA RefTaken ==
  ASSUME TableOK, NEW c \in Inum, ref' = [ref EXCEPT ![c] = @ + 1]
  PROVE  ref' \in [Inum -> Int] /\ \A i \in Inum : ref'[i] = ref[i] + One(i = c) /\ ref[i] \in Int
<1>1. ref \in [Inum -> Int]
  BY DEF TableOK
<1>2. \A i \in Inum : ref[i] \in Int /\ ref'[i] = IF i = c THEN ref[i] + 1 ELSE ref[i]
  BY <1>1
<1>3. ref' \in [Inum -> Int]
  BY <1>1
<1> QED BY <1>2, <1>3 DEF One

\* unlink() and create() are in the directory they work in.
LEMMA InParent ==
  ASSUME FsInv, NEW p \in Proc, pc[p] = "found", op[p] \in {"create", "mkdir", "mknod", "unlink"}
  PROVE  /\ cur[p] \in Inum /\ ip[p] = 0 /\ dinode[cur[p]].type = "dir" /\ Len(path[p]) = 1
         /\ Head(path[p]) \in Name /\ puts[p] = <<>> /\ ~Linking(p)
         /\ ents[cur[p]][Head(path[p])] \in Ref
         /\ ents[cur[p]][Head(path[p])] # 0 =>
              \E c \in Inum, m \in Name : ents[c][m] = ents[cur[p]][Head(path[p])]
<1>1. LocalOK /\ Shape(p) /\ KnowOf(p)
  BY DEF FsInv
<1>2. nameiparent(p) /\ ~Linking(p)
  BY DEF nameiparent, Linking
<1>3. /\ cur[p] \in Inum /\ ip[p] = 0 /\ dinode[cur[p]].type = "dir" /\ Len(path[p]) = 1
      /\ puts[p] = <<>>
  BY <1>1, <1>2 DEF Shape, KnowOf
<1>4. path[p] # <<>>
  <2>1. Len(path[p]) = 1
    BY <1>3
  <2> QED BY <2>1
<1>5. Head(path[p]) \in Name
  BY <1>1, <1>4, HeadIs
<1>6. ents[cur[p]][Head(path[p])] \in Ref
  BY <1>3, <1>5 DEF FsInv, DiskOK, Entry
<1> QED BY <1>2, <1>3, <1>5, <1>6

LEMMA UnlinkLookupStep ==
  ASSUME FsInv, NEW p \in Proc, UnlinkLookup(p)
  PROVE  FsInv'
<1>1. LocalOK /\ TableOK /\ DiskOK /\ Shape(p) /\ KnowOf(p)
  BY DEF FsInv
<1>2. /\ pc[p] = "found" /\ op[p] = "unlink" /\ puts[p] = <<>>
      /\ UNCHANGED <<disk, dinode, ents, used, held, cwd, file, op, path, new>>
  BY DEF UnlinkLookup, At, held, disk
<1>3. PICK d \in Inum, m \in Name, n \in Ref :
        /\ d = cur[p] /\ m = Head(path[p]) /\ n = ents[d][m] /\ ip[p] = 0 /\ dinode[d].type = "dir"
        /\ Len(path[p]) = 1 /\ ~Linking(p) /\ (n # 0 => \E c \in Inum, l \in Name : ents[c][l] = n)
  BY <1>2, InParent
<1>4. /\ Peek(d) /\ dinode[d].type # "free" /\ lock[d] = None
  BY <1>3, LoadedIs DEF UnlinkLookup
<1>5. CASE Put(p, <<d>>) /\ Hold(p, 0, 0) /\ Goto(p, "end") /\ UNCHANGED <<ref, lock>>
  BY <1>2, <1>3, <1>4, <1>5, DropOne
<1>6. ASSUME n # 0, ref' = [ref EXCEPT ![n] = @ + 1], lock' = [lock EXCEPT ![d] = p],
             Hold(p, d, n), Goto(p, "victim"), UNCHANGED puts
      PROVE  FsInv'
  <2>0. n \in Inum
    BY <1>6 DEF Ref
  <2>1. pc' \in [Proc -> Positions] /\ pc'[p] = "victim" /\ \A q \in Proc : q # p => pc'[q] = pc[q]
    BY <1>1, <1>6, GotoIs DEF Positions
  <2>2. /\ cur' \in [Proc -> Ref] /\ cur'[p] = d /\ \A q \in Proc : q # p => cur'[q] = cur[q]
        /\ ip' \in [Proc -> Ref] /\ ip'[p] = n /\ \A q \in Proc : q # p => ip'[q] = ip[q]
    <3>1. d \in Ref
      BY DEF Ref
    <3> QED BY <1>1, <1>6, <3>1, HoldIs
  <2>3. LocalOK'
    BY <1>1, <1>2, <1>6, <2>1, <2>2 DEF LocalOK
  <2>4. SameOthers(p)
    BY <1>2, <1>6, <2>1, <2>2 DEF SameOthers, SameLocal
  <2>5. /\ inode' \in [Inum -> Inode] /\ valid' \in [Inum -> BOOLEAN] /\ CopyInv'
        /\ \A j \in Inum : valid[j] => valid'[j]
    BY <1>2, <1>4, PeekStep
  <2>6. ref' \in [Inum -> Int] /\ \A i \in Inum : ref'[i] = ref[i] + One(i = n) /\ ref[i] \in Int
    BY <1>1, <1>6, <2>0, RefTaken
  <2>7. /\ LockInv' /\ lock' \in [Inum -> Proc \cup {None}] /\ lock'[d] = p
        /\ \A i \in Inum : lock[i] # None /\ lock[i] # p => lock'[i] = lock[i]
    BY <1>2, <1>4, <1>6, <2>1, <2>2, <2>4, LockIs
  <2>8. TableOK'
    BY <2>5, <2>6, <2>7 DEF TableOK
  <2>9. ~Linking(p)' /\ ~New(p)'
    BY <2>1 DEF Linking, New
  <2>10. ASSUME NEW i \in Inum PROVE ref'[i] - ref[i] = Mine(p, i)' - Mine(p, i)
    <3>1. i # 0 /\ Mine(p, i) \in Nat /\ ref[i] \in Int /\ ref'[i] = ref[i] + One(i = n)
      BY <2>6, PtrIs, FsAssumption
    <3>2. ~PutTo(p, 1, i) /\ ~PutTo(p, 2, i) /\ ~PutTo(p, 1, i)' /\ ~PutTo(p, 2, i)'
      BY <1>2, <1>6, PutNone, PutNoneNext
    <3>3. Mine(p, i)' = One(cwd[p] = i) + One(file[p] = i) + One(d = i) + One(n = i)
      BY <1>2, <2>1, <2>2, <3>2 DEF Mine, One
    <3>4. Mine(p, i) = One(cwd[p] = i) + One(file[p] = i) + One(d = i)
      BY <1>2, <1>3, <3>1, <3>2 DEF Mine, One
    <3> QED BY <3>1, <3>3, <3>4 DEF One
  <2>11. \A i \in Inum : Has(p, i)' => Has(p, i) \/ i = n
    BY <1>2, <1>3, <1>6, <2>2 DEF Has
  <2>12. Quiet(p)
    BY <1>2, <1>3, <1>6, <2>4, <2>5, <2>7, <2>9, <2>10, <2>11 DEF Quiet
  <2>13. Shape(p)'
    <3>1. puts'[p] = <<>> /\ Len(path'[p]) = 1
      BY <1>2, <1>3, <1>6
    <3> QED BY <2>0, <2>1, <2>2, <3>1 DEF Shape
  <2>14. KnowOf(p)'
    <3>1. valid'[d]
      BY <1>1, <1>4 DEF Peek, TableOK
    <3>2. ents'[d][Head(path'[p])] = n /\ dinode'[d].type = "dir"
      BY <1>2, <1>3
    <3> QED BY <2>1, <2>2, <2>7, <2>9, <3>1, <3>2 DEF KnowOf
  <2> QED BY <2>3, <2>5, <2>7, <2>8, <2>9, <2>12, <2>13, <2>14, QuietStep
<1>7. \/ Put(p, <<d>>) /\ Hold(p, 0, 0) /\ Goto(p, "end") /\ UNCHANGED <<ref, lock>>
      \/ /\ n # 0 /\ ref' = [ref EXCEPT ![n] = @ + 1] /\ lock' = [lock EXCEPT ![d] = p]
         /\ Hold(p, d, n) /\ Goto(p, "victim") /\ UNCHANGED puts
  BY <1>3 DEF UnlinkLookup, dirlookup
<1> QED BY <1>5, <1>6, <1>7

LEMMA CreateLookupStep ==
  ASSUME FsInv, NEW p \in Proc, CreateLookup(p)
  PROVE  FsInv'
<1>1. LocalOK /\ TableOK /\ DiskOK /\ BlocksOwned /\ NameInv /\ TreeInv /\ Shape(p) /\ KnowOf(p) /\ HasOf(p)
  BY DEF FsInv
<1>2. /\ pc[p] = "found" /\ op[p] \in {"create", "mkdir", "mknod"} /\ puts[p] = <<>>
      /\ UNCHANGED <<ents, used, held, cwd, file, op, path, new>>
  BY DEF CreateLookup, At, held
<1>3. PICK d \in Inum, m \in Name, n \in Ref :
        /\ d = cur[p] /\ m = Head(path[p]) /\ n = ents[d][m] /\ ip[p] = 0 /\ dinode[d].type = "dir"
        /\ Len(path[p]) = 1 /\ ~Linking(p) /\ (n # 0 => \E c \in Inum, l \in Name : ents[c][l] = n)
  BY <1>2, InParent
<1>4. /\ Peek(d) /\ dinode[d].type # "free" /\ lock[d] = None
  BY <1>3, LoadedIs DEF CreateLookup
<1>5. CASE Put(p, <<d>>) /\ Hold(p, 0, 0) /\ Goto(p, "end") /\ UNCHANGED <<dinode, ref, lock>>
  BY <1>2, <1>3, <1>4, <1>5, DropOne DEF disk
<1>6. ASSUME n # 0, ref' = [ref EXCEPT ![n] = @ + 1], Goto(p, "exists"), Put(p, <<d>>), Hold(p, 0, n),
             UNCHANGED <<dinode, lock>>
      PROVE  FsInv'
  <2>0. n \in Inum
    BY <1>6 DEF Ref
  <2>1. pc' \in [Proc -> Positions] /\ pc'[p] = "exists" /\ \A q \in Proc : q # p => pc'[q] = pc[q]
    BY <1>1, <1>6, GotoIs DEF Positions
  <2>2. /\ cur' \in [Proc -> Ref] /\ cur'[p] = 0 /\ \A q \in Proc : q # p => cur'[q] = cur[q]
        /\ ip' \in [Proc -> Ref] /\ ip'[p] = n /\ \A q \in Proc : q # p => ip'[q] = ip[q]
    <3>1. 0 \in Ref
      BY DEF Ref
    <3> QED BY <1>1, <1>6, <3>1, HoldIs
  <2>3. /\ puts' \in [Proc -> Seq(Inum \X BOOLEAN)] /\ \A q \in Proc : Len(puts'[q]) <= 2
        /\ \A q \in Proc : q # p => puts'[q] = puts[q]
        /\ \A i \in Inum : (PutTo(p, 1, i)' <=> i = d) /\ ~PutTo(p, 2, i)'
        /\ \A i \in Inum : Has(p, i)' => i \in {cwd'[p], file'[p], cur'[p], ip'[p], d}
    BY <1>1, <1>6, PutOne
  <2>4. LocalOK'
    BY <1>1, <1>2, <2>1, <2>2, <2>3 DEF LocalOK
  <2>5. SameOthers(p)
    BY <1>2, <2>1, <2>2, <2>3 DEF SameOthers, SameLocal
  <2>6. /\ inode' \in [Inum -> Inode] /\ valid' \in [Inum -> BOOLEAN] /\ CopyInv'
        /\ \A j \in Inum : valid[j] => valid'[j]
    BY <1>4, <1>6, PeekStep
  <2>7. ref' \in [Inum -> Int] /\ \A i \in Inum : ref'[i] = ref[i] + One(i = n) /\ ref[i] \in Int
    BY <1>1, <1>6, <2>0, RefTaken
  <2>8. LockInv'
    BY <1>2, <1>6, <2>5, LocksFrame
  <2>9. TableOK'
    BY <1>1, <1>6, <2>6, <2>7 DEF TableOK
  <2>10. ~Linking(p)' /\ ~New(p)'
    BY <2>1 DEF Linking, New
  <2>11. ASSUME NEW i \in Inum PROVE ref'[i] - ref[i] = Mine(p, i)' - Mine(p, i)
    <3>1. i # 0 /\ Mine(p, i) \in Nat /\ ref[i] \in Int /\ ref'[i] = ref[i] + One(i = n)
      BY <2>7, PtrIs, FsAssumption
    <3>2. ~PutTo(p, 1, i) /\ ~PutTo(p, 2, i)
      BY <1>2, PutNone
    <3>3. Mine(p, i)' = One(cwd[p] = i) + One(file[p] = i) + One(d = i) + One(n = i)
      BY <1>2, <2>1, <2>2, <2>3, <3>1 DEF Mine, One
    <3>4. Mine(p, i) = One(cwd[p] = i) + One(file[p] = i) + One(d = i)
      BY <1>2, <1>3, <3>1, <3>2 DEF Mine, One
    <3> QED BY <3>1, <3>3, <3>4 DEF One
  <2>12. \A i \in Inum : Has(p, i)' => Has(p, i) \/ i = n
    BY <1>2, <1>3, <2>2, <2>3, FsAssumption DEF Has
  <2>13. Quiet(p)
    <3>1. UNCHANGED disk
      BY <1>2, <1>6 DEF disk
    <3> QED BY <1>2, <1>3, <1>6, <2>5, <2>6, <2>10, <2>11, <2>12, <3>1 DEF Quiet
  <2>14. Shape(p)' /\ KnowOf(p)'
    BY <2>0, <2>1, <2>2, <2>10 DEF Shape, KnowOf
  <2> QED BY <2>4, <2>6, <2>8, <2>9, <2>10, <2>13, <2>14, QuietStep
<1>7. ASSUME NEW i, NEW t, n = 0, i = ialloc, FreeInums # {}, t = TypeFor[op[p]],
             dinode' = [dinode EXCEPT ![i] = [FreeInode EXCEPT !.type = t]],
             ref' = [ref EXCEPT ![i] = @ + 1], Hold(p, d, i),
             lock' = [lock EXCEPT ![d] = p], Goto(p, "made"), UNCHANGED puts
      PROVE  FsInv'
  <2>1. i \in Inum /\ dinode[i].type = "free" /\ dinode[i] = FreeInode
    <3>1. FreeInums \subseteq Nat
      BY FsAssumption DEF FreeInums
    <3>2. i \in FreeInums
      BY <1>7, <3>1, MinIs DEF ialloc
    <3> QED BY <1>1, <3>2 DEF FreeInums, DiskOK
  <2>2. t \in {"file", "dir", "device"}
    BY <1>2, <1>7 DEF TypeFor
  <2>3. PICK r \in Inode : /\ r = [FreeInode EXCEPT !.type = t]
                           /\ r.type = t /\ r.nlink = 0 /\ r.addr = 0
    <3>1. [FreeInode EXCEPT !.type = t] = [type |-> t, nlink |-> 0, addr |-> 0]
      BY DEF FreeInode
    <3>2. [type |-> t, nlink |-> 0, addr |-> 0] \in Inode
      BY <2>2 DEF Inode
    <3> QED BY <3>1, <3>2
  <2>4. /\ dinode' \in [Inum -> Inode] /\ dinode'[i] = r
        /\ \A j \in Inum : j # i => dinode'[j] = dinode[j]
    BY <1>1, <1>7, <2>1, <2>3 DEF DiskOK
  <2>5. i # root /\ i # d
    BY <1>1, <1>3, <2>1 DEF DiskOK
  <2>6. \A q \in Proc : ~Has(q, i)
    BY <2>1 DEF FsInv, HasOf
  <2>7. \A e \in Inum, l \in Name : ents[e][l] # i
    <3>1. i # 0
      BY <2>1, FsAssumption
    <3> QED BY <1>1, <2>1, <3>1 DEF NameInv
  <2>8. \A l \in Name : ents[i][l] = 0
    BY <1>1, <2>1 DEF NameInv
  <2>9. pc' \in [Proc -> Positions] /\ pc'[p] = "made" /\ \A q \in Proc : q # p => pc'[q] = pc[q]
    BY <1>1, <1>7, GotoIs DEF Positions
  <2>10. /\ cur' \in [Proc -> Ref] /\ cur'[p] = d /\ \A q \in Proc : q # p => cur'[q] = cur[q]
         /\ ip' \in [Proc -> Ref] /\ ip'[p] = i /\ \A q \in Proc : q # p => ip'[q] = ip[q]
    <3>1. d \in Ref /\ i \in Ref
      BY <2>1 DEF Ref
    <3> QED BY <1>1, <1>7, <3>1, HoldIs
  <2>11. LocalOK'
    BY <1>1, <1>2, <1>7, <2>9, <2>10 DEF LocalOK
  <2>12. SameOthers(p)
    BY <1>2, <1>7, <2>9, <2>10 DEF SameOthers, SameLocal
  <2>13. ref' \in [Inum -> Int] /\ \A j \in Inum : ref'[j] = ref[j] + One(j = i) /\ ref[j] \in Int
    BY <1>1, <1>7, <2>1, RefTaken
  <2>14. /\ LockInv' /\ lock' \in [Inum -> Proc \cup {None}] /\ lock'[d] = p
         /\ \A j \in Inum : lock[j] # None /\ lock[j] # p => lock'[j] = lock[j]
    BY <1>2, <1>4, <1>7, <2>9, <2>10, <2>12, LockIs
  <2>15. /\ inode' \in [Inum -> Inode] /\ valid' \in [Inum -> BOOLEAN] /\ CopyInv' /\ valid'[d]
         /\ \A j \in Inum : valid[j] => valid'[j]
    <3>1. inode' = [inode EXCEPT ![d] = dinode[d]] /\ valid' = [valid EXCEPT ![d] = TRUE]
      BY <1>4, LoadedIs DEF Peek
    <3>2. inode \in [Inum -> Inode] /\ valid \in [Inum -> BOOLEAN] /\ dinode[d] \in Inode
      BY <1>1 DEF TableOK, DiskOK
    <3>3. inode' \in [Inum -> Inode] /\ valid' \in [Inum -> BOOLEAN]
      BY <3>1, <3>2
    <3>4. \A j \in Inum : /\ inode'[j] = IF j = d THEN dinode[d] ELSE inode[j]
                          /\ valid'[j] = IF j = d THEN TRUE ELSE valid[j]
      BY <3>1, <3>2
    <3>5. \A j \in Inum : valid[j] => j # i /\ inode[j] = dinode[j] /\ dinode[j].type # "free"
      BY <2>1 DEF FsInv, CopyInv
    <3>6. \A j \in Inum : valid'[j] => inode'[j] = dinode'[j] /\ dinode'[j].type # "free"
      <4>1. ASSUME NEW j \in Inum, valid'[j] PROVE inode'[j] = dinode'[j] /\ dinode'[j].type # "free"
        <5>1. CASE j = d
          BY <1>4, <2>4, <2>5, <3>4, <5>1
        <5>2. CASE j # d
          BY <2>4, <3>4, <3>5, <4>1, <5>2
        <5> QED BY <5>1, <5>2
      <4> QED BY <4>1
    <3> QED BY <3>3, <3>4, <3>6 DEF CopyInv
  <2>16. TableOK'
    BY <2>13, <2>14, <2>15 DEF TableOK
  <2>17. DiskOK'
    <3>1. dinode'[root] = dinode[root] /\ dinode'[i].type # "free"
      BY <2>2, <2>3, <2>4, <2>5, FsAssumption DEF root
    <3>2. ASSUME NEW j \in Inum, dinode'[j].type = "free" PROVE dinode'[j] = FreeInode
      BY <1>1, <2>4, <3>1, <3>2 DEF DiskOK
    <3> QED BY <1>1, <1>2, <2>4, <3>1, <3>2 DEF DiskOK
  <2>18. \A j \in Inum : Has(p, j)' => Has(p, j) \/ j = i
    BY <1>2, <1>3, <1>7, <2>10 DEF Has
  <2>19. OthersFrame(p)
    <3>1. \A q \in Proc, j \in Inum : q # p /\ Has(q, j) => dinode'[j] = dinode[j]
      BY <2>4, <2>6
    <3>2. \A j \in Inum : dinode[j].type # "free" => dinode'[j] = dinode[j]
      BY <2>1, <2>4
    <3> QED BY <1>2, <2>1, <2>12, <2>14, <2>15, <2>18, <3>1, <3>2 DEF OthersFrame
  <2>20. HasOf(p)'
    <3>1. ASSUME NEW j \in Inum, Has(p, j)' PROVE dinode'[j].type # "free"
      <4>1. CASE j = i
        BY <2>2, <2>3, <2>4, <4>1
      <4>2. CASE j # i
        BY <1>1, <2>4, <2>18, <3>1, <4>2 DEF HasOf
      <4> QED BY <4>1, <4>2
    <3> QED BY <3>1 DEF HasOf
  <2>21. Shape(p)'
    <3>1. puts'[p] = <<>> /\ Len(path'[p]) = 1
      BY <1>2, <1>3, <1>7
    <3> QED BY <2>1, <2>9, <2>10, <3>1 DEF Shape
  <2>22. ~Linking(p)'
    BY <2>9 DEF Linking
  <2>23. KnowOf(p)'
    <3>1. ents'[d][Head(path'[p])] = 0 /\ dinode'[d].type = "dir"
      BY <1>2, <1>3, <1>7, <2>4, <2>5
    <3> QED BY <2>9, <2>10, <2>14, <2>15, <2>22, <3>1 DEF KnowOf
  <2>24. NewOf(p)'
    <3>1. \A q \in Proc : q # p => ~Has(q, i)'
      BY <2>6, <2>12, SameHas DEF SameOthers
    <3>2. i \notin {cwd'[p], file'[p], cur'[p]}
      BY <1>2, <2>5, <2>6, <2>10 DEF Has
    <3>3. dinode'[i].nlink = 0 /\ dinode'[i].addr = 0
      BY <2>3, <2>4
    <3> QED BY <1>2, <2>5, <2>7, <2>8, <2>10, <3>1, <3>2, <3>3 DEF NewOf
  <2>25. NameInv'
    <3>1. \A e \in Inum : dinode[e].type # "free" => dinode'[e] = dinode[e]
      BY <2>1, <2>4
    <3>2. ASSUME NEW e \in Inum, NEW l \in Name, ents[e][l] # 0
          PROVE  dinode'[e].type = "dir" /\ dinode'[ents[e][l]].type # "free" /\ ents[e][l] # root
      <4>1. ents[e][l] \in Inum
        BY <1>1, <3>2 DEF DiskOK, Entry, Ref
      <4> QED BY <1>1, <3>1, <3>2, <4>1 DEF NameInv
    <3> QED BY <1>2, <3>2 DEF NameInv
  <2>26. TreeInv'
    BY <1>1, <1>2 DEF TreeInv
  <2>27. \A j \in Inum : NamesOf(j)' = NamesOf(j)
    BY <1>2 DEF NamesOf
  <2>28. \A j \in Inum : DirsIn(j)' = DirsIn(j)
    <3>1. ASSUME NEW j \in Inum, NEW l \in Name
          PROVE  ents[j][l] # 0 => dinode'[ents[j][l]] = dinode[ents[j][l]]
      BY <1>1, <2>4, <2>7 DEF DiskOK, Entry, Ref
    <3> QED BY <1>2, <3>1 DEF DirsIn
  <2>29. NamesOf(i) = {} /\ LinksTo(i) = {} /\ DirsIn(i) = {}
    <3>1. NamesOf(i) = {} /\ DirsIn(i) = {}
      BY <2>7, <2>8 DEF NamesOf, DirsIn
    <3>2. \A q \in Proc : ip[q] # i
      BY <2>6 DEF Has
    <3> QED BY <3>1, <3>2 DEF LinksTo
  <2>30. \A j \in Inum : LinksTo(j)' = LinksTo(j)
    BY <1>3, <2>12, <2>22, LinkersFrame
  <2>31. FileLinks' /\ DirLinks'
    <3>1. Cardinality({}) = 0
      BY FS_EmptySet
    <3>2. FileLinks'
      <4>1. ASSUME NEW j \in Inum, dinode'[j].type # "dir"
            PROVE  dinode'[j].nlink >= Cardinality(NamesOf(j)) + Cardinality(LinksTo(j))
        <5>1. CASE j = i
          <6>1. dinode'[j].nlink = 0 /\ NamesOf(j) = {} /\ LinksTo(j) = {}
            BY <2>3, <2>4, <2>29, <5>1
          <6>2. Cardinality(NamesOf(j)) = 0 /\ Cardinality(LinksTo(j)) = 0
            BY <3>1, <6>1
          <6> QED BY <6>1, <6>2
        <5>2. CASE j # i
          BY <2>4, <4>1, <5>2 DEF FsInv, FileLinks
        <5> QED BY <5>1, <5>2
      <4> QED BY <2>27, <2>30, <4>1 DEF FileLinks
    <3>3. DirLinks'
      <4>1. ASSUME NEW j \in Inum, dinode'[j].type = "dir"
            PROVE  /\ dinode'[j].nlink >= Cardinality(DirsIn(j))
                   /\ j = root \/ NamesOf(j) # {} => dinode'[j].nlink >= 1 + Cardinality(DirsIn(j))
                   /\ \A a, b \in NamesOf(j) : a = b
        <5>1. CASE j = i
          <6>1. dinode'[j].nlink = 0 /\ NamesOf(j) = {} /\ DirsIn(j) = {} /\ j # root
            BY <2>3, <2>4, <2>5, <2>29, <5>1
          <6>2. Cardinality(DirsIn(j)) = 0
            BY <3>1, <6>1
          <6> QED BY <6>1, <6>2
        <5>2. CASE j # i
          BY <2>4, <4>1, <5>2 DEF FsInv, DirLinks
        <5> QED BY <5>1, <5>2
      <4> QED BY <2>27, <2>28, <4>1 DEF DirLinks
    <3> QED BY <3>2, <3>3
  <2>32. BlocksOwned'
    <3>1. \A j \in Inum : dinode'[j].addr = dinode[j].addr
      BY <2>1, <2>3, <2>4 DEF FreeInode
    <3> QED BY <1>1, <1>2, <3>1 DEF BlocksOwned
  <2>33. ASSUME NEW j \in Inum PROVE ref'[j] - ref[j] = Mine(p, j)' - Mine(p, j)
    <3>1. j # 0 /\ Mine(p, j) \in Nat /\ ref[j] \in Int /\ ref'[j] = ref[j] + One(j = i)
      BY <2>13, PtrIs, FsAssumption
    <3>2. ~PutTo(p, 1, j) /\ ~PutTo(p, 2, j) /\ ~PutTo(p, 1, j)' /\ ~PutTo(p, 2, j)'
      BY <1>2, <1>7, PutNone, PutNoneNext
    <3>3. Mine(p, j)' = One(cwd[p] = j) + One(file[p] = j) + One(d = j) + One(i = j)
      BY <1>2, <2>9, <2>10, <3>2 DEF Mine, One
    <3>4. Mine(p, j) = One(cwd[p] = j) + One(file[p] = j) + One(d = j)
      BY <1>2, <1>3, <3>1, <3>2 DEF Mine, One
    <3> QED BY <3>1, <3>3, <3>4 DEF One
  <2> HIDE <1>7
  <2> QED BY <2>11, <2>14, <2>15, <2>16, <2>17, <2>19, <2>20, <2>21, <2>23, <2>24, <2>25, <2>26,
             <2>31, <2>32, <2>33, DiskStep
<1>8. \/ Put(p, <<d>>) /\ Hold(p, 0, 0) /\ Goto(p, "end") /\ UNCHANGED <<dinode, ref, lock>>
      \/ /\ n # 0 /\ ref' = [ref EXCEPT ![n] = @ + 1] /\ Goto(p, "exists") /\ Put(p, <<d>>)
         /\ Hold(p, 0, n) /\ UNCHANGED <<dinode, lock>>
      \/ \E i, t : /\ n = 0 /\ i = ialloc /\ FreeInums # {} /\ t = TypeFor[op[p]]
                   /\ dinode' = [dinode EXCEPT ![i] = [FreeInode EXCEPT !.type = t]]
                   /\ ref' = [ref EXCEPT ![i] = @ + 1] /\ Hold(p, d, i)
                   /\ lock' = [lock EXCEPT ![d] = p] /\ Goto(p, "made") /\ UNCHANGED puts
  BY <1>3 DEF CreateLookup, dirlookup
<1> QED BY <1>5, <1>6, <1>7, <1>8

\* iupdate() of some inodes.
LEMMA UpdateSet ==
  ASSUME FsInv, NEW S \in SUBSET Inum, NEW g \in [S -> Inode], Iupdate(g),
         \A j \in S : dinode[j].type # "free" /\ g[j].type = dinode[j].type
  PROVE  /\ inode' \in [Inum -> Inode] /\ dinode' \in [Inum -> Inode] /\ valid' \in [Inum -> BOOLEAN]
         /\ \A j \in S : dinode'[j] = g[j]
         /\ \A j \in Inum : j \notin S => dinode'[j] = dinode[j]
         /\ \A j \in Inum : dinode'[j].type = dinode[j].type /\ (valid[j] => valid'[j])
         /\ CopyInv' /\ dinode'[root].type = "dir"
         /\ \A j \in Inum : dinode'[j].type = "free" => dinode'[j] = FreeInode
<1>1. /\ inode' = [j \in Inum |-> IF j \in S THEN g[j] ELSE inode[j]]
      /\ dinode' = [j \in Inum |-> IF j \in S THEN g[j] ELSE dinode[j]]
      /\ valid' = [j \in Inum |-> j \in S \/ valid[j]]
  BY DEF Iupdate
<1>2. /\ inode \in [Inum -> Inode] /\ dinode \in [Inum -> Inode] /\ valid \in [Inum -> BOOLEAN]
      /\ CopyInv /\ dinode[root].type = "dir" /\ root \in Inum
      /\ \A j \in Inum : dinode[j].type = "free" => dinode[j] = FreeInode
  BY FsAssumption DEF FsInv, TableOK, DiskOK, root
<1>3. inode' \in [Inum -> Inode] /\ dinode' \in [Inum -> Inode] /\ valid' \in [Inum -> BOOLEAN]
  BY <1>1, <1>2
<1>4. \A j \in Inum : /\ inode'[j] = IF j \in S THEN g[j] ELSE inode[j]
                      /\ dinode'[j] = IF j \in S THEN g[j] ELSE dinode[j]
                      /\ valid'[j] <=> (j \in S \/ valid[j])
  BY <1>1
<1>5. CopyInv'
  BY <1>2, <1>4 DEF CopyInv
<1> QED BY <1>2, <1>3, <1>4, <1>5

\* One name is removed.
Removed(d, n, a) == /\ ents[d][n] = a
                    /\ \A e \in Inum, m \in Name :
                         ents'[e][m] = IF e = d /\ m = n THEN 0 ELSE ents[e][m]

LEMMA NamesDrop ==
  ASSUME NEW d \in Inum, NEW n \in Name, NEW a \in Inum, Removed(d, n, a)
  PROVE  /\ \A j \in Inum : j # a => NamesOf(j)' = NamesOf(j)
         /\ NamesOf(a)' = NamesOf(a) \ {<<d, n>>} /\ <<d, n>> \in NamesOf(a)
         /\ Cardinality(NamesOf(a)) = Cardinality(NamesOf(a)') + 1
         /\ Cardinality(NamesOf(a)') \in Nat
<1>2. \A s \in Inum \X Name : \E e \in Inum, m \in Name : s = <<e, m>> /\ s[1] = e /\ s[2] = m
  OBVIOUS
<1>3. ASSUME NEW j \in Inum, NEW s \in Inum \X Name
      PROVE  ents'[s[1]][s[2]] = j <=> ents[s[1]][s[2]] = j /\ ~(j = a /\ s = <<d, n>>)
  <2>1. PICK e \in Inum, m \in Name : s = <<e, m>> /\ s[1] = e /\ s[2] = m
    BY <1>2
  <2>2. j # 0
    BY FsAssumption
  <2>3. s = <<d, n>> <=> e = d /\ m = n
    BY <2>1
  <2> QED BY <2>1, <2>2, <2>3 DEF Removed
<1>4. \A j \in Inum : j # a => NamesOf(j)' = NamesOf(j)
  BY <1>3 DEF NamesOf
<1>5. NamesOf(a)' = NamesOf(a) \ {<<d, n>>}
  BY <1>3 DEF NamesOf
<1>6. <<d, n>> \in NamesOf(a)
  BY DEF NamesOf, Removed
<1>7. IsFiniteSet(NamesOf(a))
  BY NamesFinite
<1>8. /\ Cardinality(NamesOf(a)) \in Nat /\ Cardinality(NamesOf(a) \ {<<d, n>>}) \in Nat
      /\ Cardinality(NamesOf(a)) = Cardinality(NamesOf(a) \ {<<d, n>>}) + One(<<d, n>> \in NamesOf(a))
  BY <1>7, CardSplit
<1> QED BY <1>4, <1>5, <1>6, <1>8 DEF One

\* The call has the parent's lock and both inodes.
LEMMA VictimIs ==
  ASSUME FsInv, NEW p \in Proc, pc[p] = "victim"
  PROVE  /\ cur[p] \in Inum /\ ip[p] \in Inum /\ Head(path[p]) \in Name /\ puts[p] = <<>>
         /\ lock[cur[p]] = p /\ valid[cur[p]] /\ inode[cur[p]] = dinode[cur[p]]
         /\ dinode[cur[p]].type = "dir" /\ ents[cur[p]][Head(path[p])] = ip[p]
         /\ ip[p] # root /\ ~Linking(p)
<1>1. LocalOK /\ Shape(p) /\ KnowOf(p)
  BY DEF FsInv
<1>2. cur[p] \in Inum /\ ip[p] \in Inum /\ Len(path[p]) = 1 /\ puts[p] = <<>>
  BY <1>1 DEF Shape
<1>3. path[p] # <<>>
  <2>1. Len(path[p]) = 1
    BY <1>2
  <2> QED BY <2>1
<1>4. Head(path[p]) \in Name
  BY <1>1, <1>3, HeadIs
<1>5. /\ lock[cur[p]] = p /\ valid[cur[p]] /\ dinode[cur[p]].type = "dir"
      /\ ents[cur[p]][Head(path[p])] = ip[p]
  BY <1>1 DEF KnowOf
<1>6. inode[cur[p]] = dinode[cur[p]]
  BY <1>2, <1>5 DEF FsInv, CopyInv
<1>7. ip[p] # root
  <2>1. ip[p] # 0
    BY <1>2, FsAssumption
  <2> QED BY <1>2, <1>4, <1>5, <2>1 DEF FsInv, NameInv
<1>8. ~Linking(p)
  BY DEF Linking
<1> QED BY <1>2, <1>4, <1>5, <1>6, <1>7, <1>8

LEMMA VictimFull ==
  ASSUME FsInv, NEW p \in Proc, pc[p] = "victim", NEW d \in Inum, d = cur[p], NEW a \in Inum, a = ip[p],
         dinode[a].type # "free", Peek(a), Put(p, <<a, d>>), Iunlock(d), Hold(p, 0, 0), Goto(p, "end"),
         UNCHANGED <<disk, ref, held, op, path, new>>
  PROVE  FsInv'
<1>1. LocalOK /\ TableOK /\ UNCHANGED <<dinode, ents, used, cwd, file>>
  BY DEF FsInv, disk, held
<1>2. puts[p] = <<>> /\ ~Linking(p)
  BY VictimIs
<1>3. /\ puts' \in [Proc -> Seq(Inum \X BOOLEAN)] /\ \A q \in Proc : Len(puts'[q]) <= 2
      /\ \A q \in Proc : q # p => puts'[q] = puts[q]
      /\ \A i \in Inum : (PutTo(p, 1, i)' <=> i = a) /\ (PutTo(p, 2, i)' <=> i = d)
      /\ \A i \in Inum : Has(p, i)' => i \in {cwd'[p], file'[p], cur'[p], ip'[p], a, d}
  BY <1>1, PutTwo
<1>4. EndPointers(p)
  BY <1>1, <1>3 DEF EndPointers, LocalOK
<1>5. /\ inode' \in [Inum -> Inode] /\ valid' \in [Inum -> BOOLEAN] /\ CopyInv'
      /\ \A j \in Inum : valid[j] => valid'[j]
  BY <1>1, PeekStep
<1>6. SameOthers(p) /\ pc'[p] = "end" /\ cur'[p] = 0 /\ ip'[p] = 0
  BY <1>1, <1>4, EndLocals
<1>7. /\ LockInv' /\ lock' \in [Inum -> Proc \cup {None}]
      /\ \A i \in Inum : lock[i] # None /\ lock[i] # p => lock'[i] = lock[i]
  BY <1>6, UnlockIs
<1>8. TableOK'
  BY <1>1, <1>5, <1>7 DEF TableOK
<1>9. \A i \in Inum : Has(p, i)' => Has(p, i)
  BY <1>1, <1>3, <1>6, FsAssumption DEF Has
<1>10. ASSUME NEW i \in Inum PROVE ref'[i] - ref[i] = Mine(p, i)' - Mine(p, i)
  <2>1. i # 0 /\ Mine(p, i) \in Nat /\ ref[i] \in Int
    BY <1>1, PtrIs, FsAssumption DEF TableOK
  <2>2. ~PutTo(p, 1, i) /\ ~PutTo(p, 2, i)
    BY <1>2, PutNone
  <2>3. Mine(p, i)' = One(cwd[p] = i) + One(file[p] = i) + One(d = i) + One(a = i)
    <3>1. /\ cwd'[p] = cwd[p] /\ file'[p] = file[p] /\ cur'[p] # i /\ ip'[p] # i
          /\ (PutTo(p, 1, i)' <=> a = i) /\ (PutTo(p, 2, i)' <=> d = i)
      BY <1>1, <1>3, <1>6, <2>1
    <3> QED BY <3>1 DEF Mine, One
  <2>4. Mine(p, i) = One(cwd[p] = i) + One(file[p] = i) + One(d = i) + One(a = i)
    <3>1. pc[p] # "write" /\ cur[p] = d /\ ip[p] = a
      OBVIOUS
    <3> QED BY <2>2, <3>1 DEF Mine, One
  <2>5. Mine(p, i)' = Mine(p, i) /\ ref'[i] = ref[i]
    BY <2>3, <2>4
  <2> QED BY <2>1, <2>5
<1> QED BY <1>2, <1>4, <1>5, <1>7, <1>8, <1>9, <1>10, EndQuiet

\* The name of a file goes, or that of a directory that is empty.
LEMMA VictimGone ==
  ASSUME FsInv, NEW p \in Proc, pc[p] = "victim", NEW d \in Inum, d = cur[p], NEW a \in Inum, a = ip[p],
         NEW n \in Name, n = Head(path[p]), dinode[a].type # "free", lock[a] = None,
         SetEnt(d, n, 0), NEW g \in [{a, d} -> Inode], Iupdate(g),
         g[a].type = dinode[a].type, g[a].nlink = dinode[a].nlink - 1, g[a].addr = dinode[a].addr,
         g[d].type = dinode[d].type, g[d].addr = dinode[d].addr,
         g[d].nlink = IF dinode[a].type = "dir" THEN dinode[d].nlink - 1 ELSE dinode[d].nlink,
         Put(p, <<d, a>>), Iunlock(d), Hold(p, 0, 0), Goto(p, "end"),
         UNCHANGED <<used, ref, held, op, path, new>>
  PROVE  FsInv'
<1>1. LocalOK /\ TableOK /\ DiskOK /\ BlocksOwned /\ NameInv /\ TreeInv /\ HasOf(p) /\ UNCHANGED <<cwd, file>>
  BY DEF FsInv, held
<1>2. /\ puts[p] = <<>> /\ ~Linking(p) /\ lock[d] = p /\ dinode[d].type = "dir" /\ ents[d][n] = a
      /\ a # root
  BY VictimIs
<1>3. a # d /\ a # 0
  BY <1>2, FsAssumption
<1>4. /\ ents' \in [Inum -> [Entry -> Ref]] /\ \A e \in Inum : e # d => ents'[e] = ents[e]
      /\ Removed(d, n, a)
  <2>1. ents \in [Inum -> [Entry -> Ref]] /\ 0 \in Ref
    BY <1>1 DEF DiskOK, Ref
  <2>2. /\ ents' \in [Inum -> [Entry -> Ref]]
        /\ \A e \in Inum : e # d => ents'[e] = ents[e]
        /\ \A e \in Inum, m \in Name : ents'[e][m] = IF e = d /\ m = n THEN 0 ELSE ents[e][m]
    BY <2>1, EntIs
  <2> QED BY <1>2, <2>2 DEF Removed
<1>5. /\ inode' \in [Inum -> Inode] /\ dinode' \in [Inum -> Inode] /\ valid' \in [Inum -> BOOLEAN]
      /\ dinode'[a] = g[a] /\ dinode'[d] = g[d]
      /\ \A j \in Inum : j \notin {a, d} => dinode'[j] = dinode[j]
      /\ \A j \in Inum : dinode'[j].type = dinode[j].type /\ (valid[j] => valid'[j])
      /\ CopyInv' /\ dinode'[root].type = "dir"
      /\ \A j \in Inum : dinode'[j].type = "free" => dinode'[j] = FreeInode
  <2>1. {a, d} \in SUBSET Inum /\ \A j \in {a, d} : dinode[j].type # "free" /\ g[j].type = dinode[j].type
    BY <1>2
  <2>2. a \in {a, d} /\ d \in {a, d}
    OBVIOUS
  <2> DEFINE S == {a, d}
  <2> HIDE DEF S
  <2>3. /\ S \in SUBSET Inum /\ g \in [S -> Inode] /\ Iupdate(g)
        /\ \A j \in S : dinode[j].type # "free" /\ g[j].type = dinode[j].type
    BY <2>1 DEF S
  <2>4. a \in S /\ d \in S /\ \A j : j \notin {a, d} => j \notin S
    BY DEF S
  <2>5. /\ inode' \in [Inum -> Inode] /\ dinode' \in [Inum -> Inode] /\ valid' \in [Inum -> BOOLEAN]
        /\ \A j \in S : dinode'[j] = g[j]
        /\ \A j \in Inum : j \notin S => dinode'[j] = dinode[j]
        /\ \A j \in Inum : dinode'[j].type = dinode[j].type /\ (valid[j] => valid'[j])
        /\ CopyInv' /\ dinode'[root].type = "dir"
        /\ \A j \in Inum : dinode'[j].type = "free" => dinode'[j] = FreeInode
    BY <2>3, UpdateSet, Zenon
  <2> QED BY <2>4, <2>5, Zenon
<1>6. DiskOK'
  BY <1>1, <1>4, <1>5 DEF DiskOK
<1>7. /\ puts' \in [Proc -> Seq(Inum \X BOOLEAN)] /\ \A q \in Proc : Len(puts'[q]) <= 2
      /\ \A q \in Proc : q # p => puts'[q] = puts[q]
      /\ \A i \in Inum : (PutTo(p, 1, i)' <=> i = d) /\ (PutTo(p, 2, i)' <=> i = a)
      /\ \A i \in Inum : Has(p, i)' => i \in {cwd'[p], file'[p], cur'[p], ip'[p], d, a}
  BY <1>1, PutTwo
<1>8. EndPointers(p)
  BY <1>1, <1>7 DEF EndPointers, LocalOK
<1>9. /\ LocalOK' /\ SameOthers(p) /\ Shape(p)' /\ KnowOf(p)' /\ NewOf(p)' /\ ~Linking(p)'
      /\ pc'[p] = "end" /\ cur'[p] = 0 /\ ip'[p] = 0
  BY <1>1, <1>8, EndLocals
<1>10. /\ LockInv' /\ lock' \in [Inum -> Proc \cup {None}]
       /\ \A i \in Inum : lock[i] # None /\ lock[i] # p => lock'[i] = lock[i]
  BY <1>9, UnlockIs
<1>11. TableOK'
  BY <1>1, <1>5, <1>10 DEF TableOK
<1>12. Has(p, d) /\ Has(p, a) /\ \A i \in Inum : Has(p, i)' => Has(p, i)
  BY <1>1, <1>7, <1>9, FsAssumption DEF Has
<1>13. OthersFrame(p)
  <2>1. \A i \in Inum : ~Has(p, i) => dinode'[i] = dinode[i] /\ ents'[i] = ents[i]
    BY <1>4, <1>5, <1>12
  <2>2. \A i \in Inum : lock[i] # None /\ lock[i] # p => ents'[i] = ents[i]
    BY <1>2, <1>4
  <2>3. \A e \in Inum, m \in Name : ents'[e][m] = ents[e][m] \/ ents'[e][m] = 0
    BY <1>4 DEF Removed
  <2> QED BY <1>5, <1>9, <1>10, <1>12, <2>1, <2>2, <2>3 DEF OthersFrame
<1>14. HasOf(p)'
  BY <1>1, <1>5, <1>12 DEF HasOf
<1>15. NameInv'
  <2>1. ASSUME NEW e \in Inum, NEW m \in Name, ents'[e][m] # 0
        PROVE  ents'[e][m] = ents[e][m] /\ ents[e][m] \in Inum
    BY <1>1, <1>4, <2>1 DEF Removed, DiskOK, Entry, Ref
  <2> QED BY <1>1, <1>5, <2>1 DEF NameInv
<1>16. TreeInv'
  <2>1. ASSUME NEW T \in SUBSET Inum, T # {} PROVE \E e \in T : \A m \in Name : ents'[e][m] \notin T
    <3>1. PICK e \in T : \A m \in Name : ents[e][m] \notin T
      BY <1>1, <2>1 DEF TreeInv
    <3>2. 0 \notin T
      BY FsAssumption
    <3> QED BY <1>4, <3>1, <3>2 DEF Removed
  <2> QED BY <2>1 DEF TreeInv
<1>17. /\ \A j \in Inum : j # a => NamesOf(j)' = NamesOf(j)
       /\ NamesOf(a)' = NamesOf(a) \ {<<d, n>>} /\ <<d, n>> \in NamesOf(a)
       /\ Cardinality(NamesOf(a)) = Cardinality(NamesOf(a)') + 1
       /\ Cardinality(NamesOf(a)') \in Nat
  BY <1>4, NamesDrop
<1>18. \A j \in Inum : LinksTo(j)' = LinksTo(j) /\ Cardinality(LinksTo(j)) \in Nat
  BY <1>2, <1>9, LinkersFrame, NamesFinite, FS_CardinalityType
<1>19. \A j \in Inum : dinode[j].nlink \in Nat
  BY <1>1 DEF DiskOK, Inode
<1>20. FileLinks'
  <2>1. ASSUME NEW j \in Inum, dinode[j].type # "dir"
        PROVE  dinode'[j].nlink >= Cardinality(NamesOf(j)') + Cardinality(LinksTo(j))
    <3>1. dinode[j].nlink >= Cardinality(NamesOf(j)) + Cardinality(LinksTo(j))
      BY <2>1 DEF FsInv, FileLinks
    <3>2. CASE j = a
      <4>1. dinode'[a].nlink = dinode[a].nlink - 1 /\ dinode[a].nlink \in Nat
        BY <1>5, <1>19
      <4>2. Cardinality(LinksTo(a)) \in Nat
        BY <1>18
      <4>3. dinode[a].nlink >= Cardinality(NamesOf(a)) + Cardinality(LinksTo(a))
        BY <3>1, <3>2
      <4>4. /\ Cardinality(NamesOf(a)) = Cardinality(NamesOf(a)') + 1
            /\ Cardinality(NamesOf(a)') \in Nat
        BY <1>17
      <4>5. dinode'[a].nlink >= Cardinality(NamesOf(a)') + Cardinality(LinksTo(a))
        BY <4>1, <4>2, <4>3, <4>4
      <4> QED BY <3>2, <4>5
    <3>3. CASE j # a
      <4>1. dinode'[j] = dinode[j] /\ NamesOf(j)' = NamesOf(j)
        BY <1>2, <1>5, <1>17, <2>1, <3>3
      <4> QED BY <3>1, <4>1
    <3> QED BY <3>2, <3>3
  <2> QED BY <1>5, <1>18, <2>1 DEF FileLinks
<1>21. \A j \in Inum : j # d => DirsIn(j)' = DirsIn(j)
  <2>1. ASSUME NEW j \in Inum, j # d, NEW m \in Name
        PROVE  ents'[j][m] = ents[j][m] /\ (ents[j][m] # 0 => dinode'[ents[j][m]].type = dinode[ents[j][m]].type)
    BY <1>1, <1>4, <1>5, <2>1 DEF DiskOK, Entry, Ref
  <2> QED BY <2>1 DEF DirsIn
<1>22. DirsIn(d)' = DirsIn(d) \ {n} /\ (n \in DirsIn(d) <=> dinode[a].type = "dir")
  <2>1. ASSUME NEW m \in Name, m # n
        PROVE  ents'[d][m] = ents[d][m] /\ (ents[d][m] # 0 => dinode'[ents[d][m]].type = dinode[ents[d][m]].type)
    BY <1>1, <1>4, <1>5, <2>1 DEF DiskOK, Entry, Ref, Removed
  <2>2. ents'[d][n] = 0
    BY <1>4 DEF Removed
  <2>3. n \in DirsIn(d) <=> dinode[a].type = "dir"
    BY <1>2, <1>3 DEF DirsIn
  <2>4. ASSUME NEW m \in Name PROVE m \in DirsIn(d)' <=> m \in DirsIn(d) /\ m # n
    <3>1. m \in DirsIn(d)' <=> ents'[d][m] # 0 /\ dinode'[ents'[d][m]].type = "dir"
      BY DEF DirsIn
    <3>2. m \in DirsIn(d) <=> ents[d][m] # 0 /\ dinode[ents[d][m]].type = "dir"
      BY DEF DirsIn
    <3> QED BY <2>1, <2>2, <3>1, <3>2
  <2>5. DirsIn(d)' \subseteq Name /\ DirsIn(d) \subseteq Name
    BY DEF DirsIn
  <2> QED BY <2>3, <2>4, <2>5
<1>23. /\ Cardinality(DirsIn(d)) \in Nat /\ Cardinality(DirsIn(d)') \in Nat
       /\ Cardinality(DirsIn(d)) = Cardinality(DirsIn(d)') + One(dinode[a].type = "dir")
  <2>1. /\ Cardinality(DirsIn(d)) \in Nat /\ Cardinality(DirsIn(d) \ {n}) \in Nat
        /\ Cardinality(DirsIn(d)) = Cardinality(DirsIn(d) \ {n}) + One(n \in DirsIn(d))
    BY NamesFinite, CardSplit
  <2> QED BY <1>22, <2>1 DEF One
<1>24. DirLinks'
  <2>1. ASSUME NEW j \in Inum, dinode[j].type = "dir"
        PROVE  /\ dinode'[j].nlink >= Cardinality(DirsIn(j)')
               /\ j = root \/ NamesOf(j)' # {} => dinode'[j].nlink >= 1 + Cardinality(DirsIn(j)')
               /\ \A x, y \in NamesOf(j)' : x = y
    <3>1. /\ dinode[j].nlink >= Cardinality(DirsIn(j))
          /\ j = root \/ NamesOf(j) # {} => dinode[j].nlink >= 1 + Cardinality(DirsIn(j))
          /\ \A x, y \in NamesOf(j) : x = y
      BY <2>1 DEF FsInv, DirLinks
    <3>2. CASE j = a
      <4>1. NamesOf(a)' = {}
        BY <1>17, <3>1, <3>2
      <4>2. DirsIn(a)' = DirsIn(a) /\ dinode'[a].nlink = dinode[a].nlink - 1
        BY <1>3, <1>5, <1>21
      <4>3. dinode[a].nlink >= 1 + Cardinality(DirsIn(a)) /\ Cardinality(DirsIn(a)) \in Nat
        BY <1>17, <3>1, <3>2, NamesFinite, FS_CardinalityType
      <4>4. dinode'[a].nlink >= Cardinality(DirsIn(a)')
        BY <1>19, <4>2, <4>3
      <4> QED BY <1>2, <3>2, <4>1, <4>4
    <3>3. CASE j = d
      <4>1. NamesOf(d)' = NamesOf(d)
        BY <1>3, <1>17
      <4>2. dinode'[d].nlink = dinode[d].nlink - One(dinode[a].type = "dir") /\ One(dinode[a].type = "dir") \in Nat
        BY <1>5, <1>19 DEF One
      <4>3. dinode'[d].nlink >= Cardinality(DirsIn(d)')
        BY <1>19, <1>23, <3>1, <3>3, <4>2
      <4>4. d = root \/ NamesOf(d) # {} => dinode'[d].nlink >= 1 + Cardinality(DirsIn(d)')
        BY <1>19, <1>23, <3>1, <3>3, <4>2
      <4> QED BY <3>1, <3>3, <4>1, <4>3, <4>4
    <3>4. CASE j # a /\ j # d
      <4>1. dinode'[j] = dinode[j] /\ NamesOf(j)' = NamesOf(j) /\ DirsIn(j)' = DirsIn(j)
        BY <1>5, <1>17, <1>21, <3>4
      <4> QED BY <3>1, <4>1
    <3> QED BY <3>2, <3>3, <3>4
  <2> QED BY <1>5, <2>1 DEF DirLinks
<1>25. BlocksOwned'
  <2>1. \A j \in Inum : dinode'[j].addr = dinode[j].addr
    BY <1>5
  <2> QED BY <1>1, <2>1 DEF BlocksOwned
<1>26. ASSUME NEW i \in Inum PROVE ref'[i] - ref[i] = Mine(p, i)' - Mine(p, i)
  <2>1. i # 0 /\ Mine(p, i) \in Nat /\ ref[i] \in Int
    BY <1>1, PtrIs, FsAssumption DEF TableOK
  <2>2. ~PutTo(p, 1, i) /\ ~PutTo(p, 2, i)
    BY <1>2, PutNone
  <2>3. Mine(p, i)' = One(cwd[p] = i) + One(file[p] = i) + One(d = i) + One(a = i)
    <3>1. /\ cwd'[p] = cwd[p] /\ file'[p] = file[p] /\ cur'[p] # i /\ ip'[p] # i
          /\ (PutTo(p, 1, i)' <=> d = i) /\ (PutTo(p, 2, i)' <=> a = i)
      BY <1>1, <1>7, <1>9, <2>1
    <3> QED BY <3>1 DEF Mine, One
  <2>4. Mine(p, i) = One(cwd[p] = i) + One(file[p] = i) + One(d = i) + One(a = i)
    <3>1. pc[p] # "write" /\ cur[p] = d /\ ip[p] = a
      OBVIOUS
    <3> QED BY <2>2, <3>1 DEF Mine, One
  <2>5. Mine(p, i)' = Mine(p, i) /\ ref'[i] = ref[i]
    BY <2>3, <2>4
  <2> QED BY <2>1, <2>5
<1> QED BY <1>5, <1>6, <1>9, <1>10, <1>11, <1>13, <1>14, <1>15, <1>16, <1>20, <1>24, <1>25, <1>26,
           DiskStep

LEMMA UnlinkVictimStep ==
  ASSUME FsInv, NEW p \in Proc, UnlinkVictim(p)
  PROVE  FsInv'
<1>1. /\ pc[p] = "victim" /\ Iunlock(cur[p]) /\ Hold(p, 0, 0) /\ Goto(p, "end") /\ ~UnlinkPanics(p)
      /\ UNCHANGED <<used, ref, held, op, path, new>>
  BY DEF UnlinkVictim, At
<1>2. PICK d \in Inum, a \in Inum, n \in Name :
        /\ d = cur[p] /\ a = ip[p] /\ n = Head(path[p]) /\ lock[d] = p /\ inode[d] = dinode[d]
        /\ dinode[d].type = "dir" /\ ents[d][n] = a
  BY <1>1, VictimIs
<1>3. Loaded(a) = dinode[a] /\ dinode[a].type # "free" /\ lock[a] = None
  BY <1>2, LoadedIs DEF UnlinkVictim
<1>4. a # d /\ p # None
  BY <1>2, <1>3, FsAssumption
<1>5. CASE Peek(a) /\ Put(p, <<a, d>>) /\ UNCHANGED <<dinode, ents>>
  <2>1. UNCHANGED disk
    BY <1>1, <1>5 DEF disk
  <2> QED BY <1>1, <1>2, <1>3, <1>5, <2>1, VictimFull
<1>6. ASSUME SetEnt(d, n, 0), Put(p, <<d, a>>),
             NEW u, NEW v, u = [dinode[a] EXCEPT !.nlink = @ - 1],
             v = IF dinode[a].type = "dir" THEN [dinode[d] EXCEPT !.nlink = @ - 1] ELSE dinode[d],
             Iupdate([j \in {a, d} |-> IF j = a THEN u ELSE v])
      PROVE  FsInv'
  <2>1. /\ dinode[a] \in Inode /\ dinode[a].nlink \in Nat
        /\ dinode[d] \in Inode /\ dinode[d].nlink \in Nat
    BY DEF FsInv, DiskOK, Inode
  <2>2. dinode[a].nlink - 1 \in Nat
    <3>1. dinode[a].nlink # 0
      BY <1>1, <1>2, <1>3 DEF UnlinkPanics
    <3> QED BY <2>1, <3>1
  <2>3. dinode[a].type = "dir" => dinode[d].nlink - 1 \in Nat
    <3>1. SUFFICES ASSUME dinode[a].type = "dir" PROVE dinode[d].nlink - 1 \in Nat
      OBVIOUS
    <3>2. n \in DirsIn(d)
      <4>1. a # 0
        BY FsAssumption
      <4> QED BY <1>2, <3>1, <4>1 DEF DirsIn
    <3>3. IsFiniteSet(DirsIn(d)) /\ Cardinality(DirsIn(d)) \in Nat
      BY NamesFinite, FS_CardinalityType
    <3>4. Cardinality(DirsIn(d)) # 0
      BY <3>2, <3>3, FS_EmptySet
    <3>5. dinode[d].nlink >= Cardinality(DirsIn(d))
      BY <1>2 DEF FsInv, DirLinks
    <3> QED BY <2>1, <3>3, <3>4, <3>5
  <2>4. u \in Inode /\ u.type = dinode[a].type /\ u.nlink = dinode[a].nlink - 1 /\ u.addr = dinode[a].addr
    <3>1. u = [dinode[a] EXCEPT !.nlink = dinode[a].nlink - 1]
      BY <1>6
    <3> HIDE <1>6
    <3> QED BY <2>1, <2>2, <3>1, NlinkIs
  <2>5. /\ v \in Inode /\ v.type = dinode[d].type /\ v.addr = dinode[d].addr
        /\ v.nlink = IF dinode[a].type = "dir" THEN dinode[d].nlink - 1 ELSE dinode[d].nlink
    <3>1. CASE dinode[a].type = "dir"
      <4>1. v = [dinode[d] EXCEPT !.nlink = dinode[d].nlink - 1]
        BY <1>6, <3>1
      <4> HIDE <1>6
      <4>2. /\ v \in Inode /\ v.type = dinode[d].type /\ v.addr = dinode[d].addr
            /\ v.nlink = dinode[d].nlink - 1
        BY <2>1, <2>3, <3>1, <4>1, NlinkIs
      <4> QED BY <3>1, <4>2
    <3>2. CASE dinode[a].type # "dir"
      BY <1>6, <2>1, <3>2
    <3> QED BY <3>1, <3>2
  <2> DEFINE g == [j \in {a, d} |-> IF j = a THEN u ELSE v]
  <2>6. g \in [{a, d} -> Inode] /\ g[a] = u /\ g[d] = v
    BY <1>4, <2>4, <2>5
  <2>7. Iupdate(g)
    BY <1>6
  <2>8. SetEnt(d, n, 0) /\ Put(p, <<d, a>>)
    BY <1>6
  <2> HIDE DEF g
  <2> HIDE <1>6
  <2>9. /\ g[a].type = dinode[a].type /\ g[a].nlink = dinode[a].nlink - 1 /\ g[a].addr = dinode[a].addr
        /\ g[d].type = dinode[d].type /\ g[d].addr = dinode[d].addr
        /\ g[d].nlink = IF dinode[a].type = "dir" THEN dinode[d].nlink - 1 ELSE dinode[d].nlink
    BY <2>4, <2>5, <2>6
  <2> QED BY <1>1, <1>2, <1>3, <2>6, <2>7, <2>8, <2>9, VictimGone
<1>7. \/ Peek(a) /\ Put(p, <<a, d>>) /\ UNCHANGED <<dinode, ents>>
      \/ \E u, v : /\ SetEnt(d, n, 0) /\ Put(p, <<d, a>>)
                   /\ u = [dinode[a] EXCEPT !.nlink = @ - 1]
                   /\ v = IF dinode[a].type = "dir" THEN [dinode[d] EXCEPT !.nlink = @ - 1] ELSE dinode[d]
                   /\ Iupdate([j \in {a, d} |-> IF j = a THEN u ELSE v])
  <2>1. \/ Peek(a) /\ Put(p, <<a, d>>) /\ UNCHANGED <<dinode, ents>>
        \/ /\ SetEnt(d, n, 0) /\ Put(p, <<d, a>>)
           /\ Iupdate([j \in {a, d} |-> IF j = a THEN [dinode[a] EXCEPT !.nlink = @ - 1]
                                        ELSE IF dinode[a].type = "dir" THEN [dinode[d] EXCEPT !.nlink = @ - 1]
                                        ELSE dinode[d]])
    BY <1>2, <1>3 DEF UnlinkVictim, SetEnt
  <2> QED BY <2>1
<1> QED BY <1>5, <1>6, <1>7

\* The call has the parent's lock, and the new inode to itself.
LEMMA MadeIs ==
  ASSUME FsInv, NEW p \in Proc, pc[p] = "made"
  PROVE  /\ cur[p] \in Inum /\ ip[p] \in Inum /\ Head(path[p]) \in Name /\ puts[p] = <<>>
         /\ lock[cur[p]] = p /\ valid[cur[p]] /\ inode[cur[p]] = dinode[cur[p]]
         /\ dinode[cur[p]].type = "dir" /\ ents[cur[p]][Head(path[p])] = 0
         /\ ip[p] # root /\ ip[p] # cur[p] /\ dinode[ip[p]].nlink = 0 /\ dinode[ip[p]].addr = 0
         /\ dinode[ip[p]].type # "free" /\ Has(p, cur[p]) /\ Has(p, ip[p])
         /\ (\A m \in Name : ents[ip[p]][m] = 0) /\ NamesOf(ip[p]) = {} /\ LinksTo(ip[p]) = {} /\ ~Linking(p)
<1>1. LocalOK /\ Shape(p) /\ KnowOf(p) /\ NewOf(p) /\ HasOf(p)
  BY DEF FsInv
<1>2. cur[p] \in Inum /\ ip[p] \in Inum /\ Len(path[p]) = 1 /\ puts[p] = <<>>
  BY <1>1 DEF Shape
<1>3. path[p] # <<>>
  <2>1. Len(path[p]) = 1
    BY <1>2
  <2> QED BY <2>1
<1>4. Head(path[p]) \in Name
  BY <1>1, <1>3, HeadIs
<1>5. /\ lock[cur[p]] = p /\ valid[cur[p]] /\ dinode[cur[p]].type = "dir"
      /\ ents[cur[p]][Head(path[p])] = 0
  BY <1>1 DEF KnowOf
<1>6. inode[cur[p]] = dinode[cur[p]]
  BY <1>2, <1>5 DEF FsInv, CopyInv
<1>7. /\ ip[p] # root /\ dinode[ip[p]].nlink = 0 /\ dinode[ip[p]].addr = 0
      /\ \A n \in Name : ents[ip[p]][n] = 0
      /\ \A d \in Inum, n \in Name : ents[d][n] # ip[p]
      /\ \A q \in Proc : q # p => ~Has(q, ip[p])
      /\ ip[p] # cur[p]
  BY <1>1 DEF NewOf, New
<1>8. Has(p, cur[p]) /\ Has(p, ip[p]) /\ dinode[ip[p]].type # "free"
  BY <1>1, <1>2 DEF Has, HasOf
<1>9. ~Linking(p)
  BY DEF Linking
<1>10. NamesOf(ip[p]) = {}
  BY <1>7 DEF NamesOf
<1>11. LinksTo(ip[p]) = {}
  BY <1>7, <1>9 DEF LinksTo, Has
<1> QED BY <1>2, <1>4, <1>5, <1>6, <1>7, <1>8, <1>9, <1>10, <1>11

\* What create() leaves to put is what it had.
LEMMA MadePuts ==
  ASSUME FsInv, NEW p \in Proc, pc[p] = "made", NEW d \in Inum, d = cur[p], NEW a \in Inum, a = ip[p],
         NEW x \in Inum, NEW y \in Inum, {x, y} = {d, a},
         Put(p, <<x, y>>), Goto(p, "end"), Hold(p, 0, 0), UNCHANGED <<cwd, file, op, path, new>>
  PROVE  EndPointers(p) /\ \A i \in Inum : (Has(p, i)' => Has(p, i)) /\ Mine(p, i)' = Mine(p, i)
<1>1. LocalOK
  BY DEF FsInv
<1>2. puts[p] = <<>> /\ a # d
  BY MadeIs
<1>3. /\ puts' \in [Proc -> Seq(Inum \X BOOLEAN)] /\ \A q \in Proc : Len(puts'[q]) <= 2
      /\ \A q \in Proc : q # p => puts'[q] = puts[q]
      /\ \A i \in Inum : (PutTo(p, 1, i)' <=> i = x) /\ (PutTo(p, 2, i)' <=> i = y)
      /\ \A i \in Inum : Has(p, i)' => i \in {cwd'[p], file'[p], cur'[p], ip'[p], x, y}
  BY <1>1, PutTwo
<1>4. EndPointers(p)
  BY <1>1, <1>3 DEF EndPointers, LocalOK
<1>5. pc'[p] = "end" /\ cur'[p] = 0 /\ ip'[p] = 0
  BY <1>1, <1>4, EndLocals
<1>6. (x = d /\ y = a) \/ (x = a /\ y = d)
  BY <1>2
<1>7. ASSUME NEW i \in Inum, Has(p, i)' PROVE Has(p, i)
  BY <1>3, <1>5, <1>6, <1>7, FsAssumption DEF Has
<1>8. ASSUME NEW i \in Inum PROVE Mine(p, i)' = Mine(p, i)
  <2>1. i # 0
    BY FsAssumption
  <2>2. ~PutTo(p, 1, i) /\ ~PutTo(p, 2, i)
    BY <1>2, PutNone
  <2>3. Mine(p, i)' = One(cwd[p] = i) + One(file[p] = i) + One(x = i) + One(y = i)
    <3>1. /\ cwd'[p] = cwd[p] /\ file'[p] = file[p] /\ cur'[p] # i /\ ip'[p] # i
          /\ (PutTo(p, 1, i)' <=> x = i) /\ (PutTo(p, 2, i)' <=> y = i)
      BY <1>3, <1>5, <2>1
    <3> QED BY <3>1 DEF Mine, One
  <2>4. Mine(p, i) = One(cwd[p] = i) + One(file[p] = i) + One(d = i) + One(a = i)
    <3>1. pc[p] # "write" /\ cur[p] = d /\ ip[p] = a
      OBVIOUS
    <3> QED BY <2>2, <3>1 DEF Mine, One
  <2>5. One(x = i) + One(y = i) = One(d = i) + One(a = i)
    BY <1>6 DEF One
  <2> QED BY <2>3, <2>4, <2>5 DEF One
<1> QED BY <1>4, <1>7, <1>8

\* open() keeps the new file in its descriptor.
LEMMA MadeOpened ==
  ASSUME FsInv, NEW p \in Proc, pc[p] = "made", NEW d \in Inum, d = cur[p], NEW a \in Inum, a = ip[p],
         file[p] = 0, file' = [file EXCEPT ![p] = a],
         Put(p, <<d>>), Goto(p, "end"), Hold(p, 0, 0), UNCHANGED <<cwd, op, path, new>>
  PROVE  EndPointers(p) /\ \A i \in Inum : (Has(p, i)' => Has(p, i)) /\ Mine(p, i)' = Mine(p, i)
<1>1. LocalOK
  BY DEF FsInv
<1>2. puts[p] = <<>>
  BY MadeIs
<1>3. /\ puts' \in [Proc -> Seq(Inum \X BOOLEAN)] /\ \A q \in Proc : Len(puts'[q]) <= 2
      /\ \A q \in Proc : q # p => puts'[q] = puts[q]
      /\ \A i \in Inum : (PutTo(p, 1, i)' <=> i = d) /\ ~PutTo(p, 2, i)'
      /\ \A i \in Inum : Has(p, i)' => i \in {cwd'[p], file'[p], cur'[p], ip'[p], d}
  BY <1>1, PutOne
<1>4. file' \in [Proc -> Ref] /\ file'[p] = a /\ \A q \in Proc : q # p => file'[q] = file[q]
  BY <1>1 DEF LocalOK, Ref
<1>5. EndPointers(p)
  BY <1>1, <1>3, <1>4 DEF EndPointers, LocalOK
<1>6. pc'[p] = "end" /\ cur'[p] = 0 /\ ip'[p] = 0
  BY <1>1, <1>5, EndLocals
<1>7. ASSUME NEW i \in Inum, Has(p, i)' PROVE Has(p, i)
  BY <1>3, <1>4, <1>6, <1>7, FsAssumption DEF Has
<1>8. ASSUME NEW i \in Inum PROVE Mine(p, i)' = Mine(p, i)
  <2>1. i # 0
    BY FsAssumption
  <2>2. ~PutTo(p, 1, i) /\ ~PutTo(p, 2, i)
    BY <1>2, PutNone
  <2>3. Mine(p, i)' = One(cwd[p] = i) + One(a = i) + One(d = i)
    <3>1. /\ cwd'[p] = cwd[p] /\ file'[p] = a /\ cur'[p] # i /\ ip'[p] # i
          /\ (PutTo(p, 1, i)' <=> d = i) /\ ~PutTo(p, 2, i)'
      BY <1>3, <1>4, <1>6, <2>1
    <3> QED BY <3>1 DEF Mine, One
  <2>4. Mine(p, i) = One(cwd[p] = i) + One(d = i) + One(a = i)
    <3>1. pc[p] # "write" /\ cur[p] = d /\ ip[p] = a /\ file[p] # i
      BY <2>1
    <3> QED BY <2>2, <3>1 DEF Mine, One
  <2> QED BY <2>3, <2>4 DEF One
<1> QED BY <1>5, <1>7, <1>8

\* The new inode gets its name.
Updated == /\ inode' \in [Inum -> Inode] /\ dinode' \in [Inum -> Inode] /\ valid' \in [Inum -> BOOLEAN]
           /\ \A j \in Inum : dinode'[j].type = dinode[j].type /\ (valid[j] => valid'[j])
           /\ CopyInv' /\ dinode'[root].type = "dir"
           /\ \A j \in Inum : dinode'[j].type = "free" => dinode'[j] = FreeInode

LEMMA MadeNamed ==
  ASSUME FsInv, NEW p \in Proc, pc[p] = "made", NEW d \in Inum, d = cur[p], NEW a \in Inum, a = ip[p],
         NEW n \in Name, n = Head(path[p]), lock[a] = None,
         ents' \in [Inum -> [Entry -> Ref]], Entered(d, n, a),
         \A e \in Inum : e \notin {d, a} => ents'[e] = ents[e],
         Updated, \A j \in Inum : j \notin {d, a} => dinode'[j] = dinode[j],
         dinode'[a].nlink = 1, dinode'[d].addr = dinode[d].addr,
         dinode'[d].nlink = dinode[d].nlink + One(dinode[a].type = "dir"),
         NEW b \in Block \cup {0}, dinode'[a].addr = b, b \notin used, used' = used \cup ({b} \ {0}),
         EndPointers(p), \A i \in Inum : (Has(p, i)' => Has(p, i)) /\ Mine(p, i)' = Mine(p, i),
         Iunlock(d), Goto(p, "end"), Hold(p, 0, 0), UNCHANGED <<ref, op, path, new>>
  PROVE  FsInv'
<1>1. LocalOK /\ TableOK /\ DiskOK /\ BlocksOwned /\ NameInv /\ TreeInv /\ HasOf(p)
  BY DEF FsInv
<1>2. /\ puts[p] = <<>> /\ ~Linking(p) /\ lock[d] = p /\ dinode[d].type = "dir" /\ ents[d][n] = 0
      /\ a # root /\ a # d /\ dinode[a].type # "free" /\ dinode[a].addr = 0
      /\ (\A m \in Name : ents[a][m] = 0)
      /\ NamesOf(a) = {} /\ LinksTo(a) = {} /\ Has(p, d) /\ Has(p, a)
  BY MadeIs
<1>3. /\ inode' \in [Inum -> Inode] /\ dinode' \in [Inum -> Inode] /\ valid' \in [Inum -> BOOLEAN]
      /\ \A j \in Inum : dinode'[j].type = dinode[j].type /\ (valid[j] => valid'[j])
      /\ CopyInv' /\ dinode'[root].type = "dir"
      /\ \A j \in Inum : dinode'[j].type = "free" => dinode'[j] = FreeInode
  BY DEF Updated
<1>4. DiskOK'
  BY <1>1, <1>3 DEF DiskOK
<1>5. /\ LocalOK' /\ SameOthers(p) /\ Shape(p)' /\ KnowOf(p)' /\ NewOf(p)' /\ ~Linking(p)'
      /\ pc'[p] = "end" /\ cur'[p] = 0 /\ ip'[p] = 0
  BY <1>1, EndLocals
<1>6. /\ LockInv' /\ lock' \in [Inum -> Proc \cup {None}]
      /\ \A i \in Inum : lock[i] # None /\ lock[i] # p => lock'[i] = lock[i]
  BY <1>5, UnlockIs
<1>7. TableOK'
  BY <1>1, <1>3, <1>6 DEF TableOK
<1>8. OthersFrame(p)
  <2>1. \A i \in Inum : ~Has(p, i) => dinode'[i] = dinode[i] /\ ents'[i] = ents[i]
    BY <1>2
  <2>2. \A i \in Inum : lock[i] # None /\ lock[i] # p => ents'[i] = ents[i]
    BY <1>2
  <2>3. \A e \in Inum, m \in Name : ents'[e][m] = ents[e][m] \/ ents'[e][m] = a
    BY DEF Entered
  <2> QED BY <1>2, <1>3, <1>5, <1>6, <2>1, <2>2, <2>3 DEF OthersFrame
<1>9. HasOf(p)'
  BY <1>1, <1>3 DEF HasOf
<1>10. NameInv'
  <2>1. ents \in [Inum -> [Entry -> Ref]] /\ \A j \in Inum : dinode'[j].type = dinode[j].type
    BY <1>1, <1>3 DEF DiskOK
  <2> QED BY <1>1, <1>2, <2>1, NameAdd
<1>11. TreeInv'
  BY <1>1, <1>2, TreeAdd
<1>12. /\ \A j \in Inum : j # a => NamesOf(j)' = NamesOf(j)
       /\ NamesOf(a)' = NamesOf(a) \cup {<<d, n>>}
       /\ Cardinality(NamesOf(a)') = Cardinality(NamesOf(a)) + 1
  BY NamesAdd
<1>13. \A j \in Inum : LinksTo(j)' = LinksTo(j)
  BY <1>2, <1>5, LinkersFrame
<1>14. Cardinality({}) = 0
  BY FS_EmptySet
<1>15. \A j \in Inum : dinode[j].nlink \in Nat
  BY <1>1 DEF DiskOK, Inode
<1>16. FileLinks'
  <2>1. ASSUME NEW j \in Inum, dinode[j].type # "dir"
        PROVE  dinode'[j].nlink >= Cardinality(NamesOf(j)') + Cardinality(LinksTo(j))
    <3>1. CASE j = a
      <4>1. Cardinality(NamesOf(a)') = 1 /\ Cardinality(LinksTo(a)) = 0
        BY <1>2, <1>12, <1>14
      <4> QED BY <3>1, <4>1
    <3>2. CASE j # a
      <4>1. dinode'[j] = dinode[j] /\ NamesOf(j)' = NamesOf(j)
        BY <1>2, <1>12, <2>1, <3>2
      <4> QED BY <2>1, <4>1 DEF FsInv, FileLinks
    <3> QED BY <3>1, <3>2
  <2> QED BY <1>3, <1>13, <2>1 DEF FileLinks
<1>17. \A j \in Inum : j # d => DirsIn(j)' = DirsIn(j)
  <2>1. ASSUME NEW j \in Inum, j # d, NEW m \in Name
        PROVE  ents'[j][m] = ents[j][m] /\ (ents[j][m] # 0 => dinode'[ents[j][m]].type = dinode[ents[j][m]].type)
    BY <1>1, <1>3, <2>1 DEF DiskOK, Entry, Ref, Entered
  <2> QED BY <2>1 DEF DirsIn
<1>18. /\ Cardinality(DirsIn(d)) \in Nat /\ Cardinality(DirsIn(d)') \in Nat
       /\ Cardinality(DirsIn(d)') = Cardinality(DirsIn(d)) + One(dinode[a].type = "dir")
  <2>1. ASSUME NEW m \in Name, m # n
        PROVE  ents'[d][m] = ents[d][m] /\ (ents[d][m] # 0 => dinode'[ents[d][m]].type = dinode[ents[d][m]].type)
    BY <1>1, <1>3, <2>1 DEF DiskOK, Entry, Ref, Entered
  <2>2. ents'[d][n] = a /\ a # 0 /\ dinode'[a].type = dinode[a].type
    BY <1>3, FsAssumption DEF Entered
  <2>3. ASSUME NEW m \in Name
        PROVE  m \in DirsIn(d)' <=> m \in DirsIn(d) \/ (m = n /\ dinode[a].type = "dir")
    <3>1. m \in DirsIn(d)' <=> ents'[d][m] # 0 /\ dinode'[ents'[d][m]].type = "dir"
      BY DEF DirsIn
    <3>2. m \in DirsIn(d) <=> ents[d][m] # 0 /\ dinode[ents[d][m]].type = "dir"
      BY DEF DirsIn
    <3> QED BY <1>2, <2>1, <2>2, <3>1, <3>2
  <2>4. DirsIn(d)' \subseteq Name /\ DirsIn(d) \subseteq Name /\ n \notin DirsIn(d)
    BY <1>2 DEF DirsIn
  <2>5. IsFiniteSet(DirsIn(d)) /\ Cardinality(DirsIn(d)) \in Nat
    BY NamesFinite, FS_CardinalityType
  <2>6. CASE dinode[a].type = "dir"
    <3>1. DirsIn(d)' = DirsIn(d) \cup {n}
      BY <2>3, <2>4, <2>6
    <3>2. Cardinality(DirsIn(d) \cup {n}) = Cardinality(DirsIn(d)) + 1
      BY <2>4, <2>5, FS_AddElement
    <3> QED BY <2>5, <2>6, <3>1, <3>2 DEF One
  <2>7. CASE dinode[a].type # "dir"
    <3>1. DirsIn(d)' = DirsIn(d)
      BY <2>3, <2>4, <2>7
    <3> QED BY <2>5, <2>7, <3>1 DEF One
  <2> QED BY <2>6, <2>7
<1>19. DirLinks'
  <2>1. ASSUME NEW j \in Inum, dinode[j].type = "dir"
        PROVE  /\ dinode'[j].nlink >= Cardinality(DirsIn(j)')
               /\ j = root \/ NamesOf(j)' # {} => dinode'[j].nlink >= 1 + Cardinality(DirsIn(j)')
               /\ \A x, y \in NamesOf(j)' : x = y
    <3>1. /\ dinode[j].nlink >= Cardinality(DirsIn(j))
          /\ j = root \/ NamesOf(j) # {} => dinode[j].nlink >= 1 + Cardinality(DirsIn(j))
          /\ \A x, y \in NamesOf(j) : x = y
      BY <2>1 DEF FsInv, DirLinks
    <3>2. CASE j = a
      <4>1. NamesOf(a)' = {<<d, n>>}
        BY <1>2, <1>12
      <4>2. DirsIn(a)' = {}
        BY <1>2, <1>17 DEF DirsIn
      <4>3. Cardinality(DirsIn(a)') = 0
        BY <1>14, <4>2
      <4> QED BY <3>2, <4>1, <4>3
    <3>3. CASE j = d
      <4>1. NamesOf(d)' = NamesOf(d)
        BY <1>2, <1>12
      <4>2. One(dinode[a].type = "dir") \in Nat /\ dinode[d].nlink \in Nat
        BY <1>15 DEF One
      <4>3. dinode'[d].nlink >= Cardinality(DirsIn(d)')
        BY <1>18, <3>1, <3>3, <4>2
      <4>4. d = root \/ NamesOf(d) # {} => dinode'[d].nlink >= 1 + Cardinality(DirsIn(d)')
        BY <1>18, <3>1, <3>3, <4>2
      <4> QED BY <3>1, <3>3, <4>1, <4>3, <4>4
    <3>4. CASE j # a /\ j # d
      <4>1. dinode'[j] = dinode[j] /\ NamesOf(j)' = NamesOf(j) /\ DirsIn(j)' = DirsIn(j)
        BY <1>12, <1>17, <3>4
      <4> QED BY <3>1, <4>1
    <3> QED BY <3>2, <3>3, <3>4
  <2> QED BY <1>3, <2>1 DEF DirLinks
<1>20. BlocksOwned'
  <2>1. \A j \in Inum : j # a => dinode'[j].addr = dinode[j].addr
    <3>1. ASSUME NEW j \in Inum, j # a PROVE dinode'[j].addr = dinode[j].addr
      <4>1. CASE j = d
        BY <4>1
      <4>2. CASE j # d
        BY <3>1, <4>2
      <4> QED BY <4>1, <4>2
    <3> QED BY <3>1
  <2>2. 0 \notin used
    BY <1>1 DEF BlocksOwned
  <2>3. used' = (used \ {dinode[a].addr}) \cup ({b} \ {0})
    BY <1>2, <2>2
  <2> QED BY <1>1, <2>1, <2>3, BlocksStep
<1>21. \A i \in Inum : ref'[i] - ref[i] = Mine(p, i)' - Mine(p, i)
  <2>1. ASSUME NEW i \in Inum PROVE ref'[i] - ref[i] = Mine(p, i)' - Mine(p, i)
    <3>1. Mine(p, i) \in Nat /\ ref[i] \in Int /\ Mine(p, i)' = Mine(p, i) /\ ref'[i] = ref[i]
      BY <1>1, PtrIs DEF TableOK
    <3> QED BY <3>1
  <2> QED BY <2>1
<1> QED BY <1>3, <1>4, <1>5, <1>6, <1>7, <1>8, <1>9, <1>10, <1>11, <1>16, <1>19, <1>20, <1>21,
           DiskStep

\* One entry of one directory changes.
SetIn(e, d, n, a) == [e EXCEPT ![d][n] = a]

Contents(e) == e \in [Inum -> [Entry -> Ref]]
OnlySet(f, e, d, n, a) == /\ Contents(f) /\ \A x \in Inum : x # d => f[x] = e[x]
                          /\ \A m \in Entry : f[d][m] = IF m = n THEN a ELSE e[d][m]

LEMMA EntrySet ==
  ASSUME NEW e, Contents(e), NEW d \in Inum, NEW n \in Entry, NEW a \in Ref
  PROVE  OnlySet(SetIn(e, d, n, a), e, d, n, a)
<1> DEFINE f == SetIn(e, d, n, a)
<1>1. e \in [Inum -> [Entry -> Ref]] /\ e[d] \in [Entry -> Ref]
  BY DEF Contents
<1>2. [e[d] EXCEPT ![n] = a] \in [Entry -> Ref]
  BY <1>1
<1>3. f = [e EXCEPT ![d] = [e[d] EXCEPT ![n] = a]]
  BY DEF SetIn
<1> HIDE DEF f
<1>4. f \in [Inum -> [Entry -> Ref]]
  BY <1>1, <1>2, <1>3
<1>5. \A x \in Inum : x # d => f[x] = e[x]
  BY <1>1, <1>3
<1>6. \A m \in Entry : f[d][m] = IF m = n THEN a ELSE e[d][m]
  BY <1>1, <1>3
<1>7. OnlySet(f, e, d, n, a)
  BY <1>4, <1>5, <1>6 DEF OnlySet, Contents
<1> QED BY <1>7 DEF f

LEMMA EntriesSet ==
  ASSUME NEW e, e \in [Inum -> [Entry -> Ref]], NEW d \in Inum, NEW n \in Name, NEW a \in Inum, a # d,
         NEW h, h = SetIn(SetIn(e, d, n, a), a, "..", d)
  PROVE  /\ h \in [Inum -> [Entry -> Ref]] /\ \A x \in Inum : x \notin {d, a} => h[x] = e[x]
         /\ \A x \in Inum, m \in Name : h[x][m] = IF x = d /\ m = n THEN a ELSE e[x][m]
<1>1. /\ n \in Entry /\ ".." \in Entry /\ a \in Ref /\ d \in Ref
      /\ \A m \in Name : m \in Entry /\ m # ".."
  BY FsAssumption DEF Entry, Ref
<1>2. PICK f : f = SetIn(e, d, n, a)
  OBVIOUS
<1>3. OnlySet(f, e, d, n, a)
  <2>1. Contents(e)
    BY DEF Contents
  <2> QED BY <1>1, <1>2, <2>1, EntrySet
<1>4. OnlySet(h, f, a, "..", d)
  <2>1. Contents(f)
    BY <1>3 DEF OnlySet
  <2> QED BY <1>1, <1>2, <2>1, EntrySet
<1>5. /\ \A x \in Inum : x # d => f[x] = e[x]
      /\ \A m \in Entry : f[d][m] = IF m = n THEN a ELSE e[d][m]
      /\ h \in [Inum -> [Entry -> Ref]] /\ \A x \in Inum : x # a => h[x] = f[x]
      /\ \A m \in Entry : h[a][m] = IF m = ".." THEN d ELSE f[a][m]
  BY <1>3, <1>4 DEF OnlySet, Contents
<1>6. \A x \in Inum : x \notin {d, a} => h[x] = e[x]
  BY <1>5
<1>7. ASSUME NEW x \in Inum, NEW m \in Name
      PROVE  h[x][m] = IF x = d /\ m = n THEN a ELSE e[x][m]
  <2>1. CASE x = d
    BY <1>1, <1>5, <2>1
  <2>2. CASE x = a
    BY <1>1, <1>5, <2>2
  <2>3. CASE x \notin {d, a}
    BY <1>6, <2>3
  <2> QED BY <2>1, <2>2, <2>3
<1> QED BY <1>5, <1>6, <1>7

Child(x, b) == [x EXCEPT !.nlink = 1, !.addr = b]

LEMMA ChildIs ==
  ASSUME NEW x \in Inode, NEW b \in Block \cup {0}, NEW r, r = Child(x, b)
  PROVE  r \in Inode /\ r.type = x.type /\ r.nlink = 1 /\ r.addr = b
<1>1. r = [type |-> x.type, nlink |-> 1, addr |-> b]
  BY DEF Inode, Child
<1>2. x.type \in {"free", "file", "dir", "device"} /\ 1 \in Nat
  BY DEF Inode
<1> QED BY <1>1, <1>2 DEF Inode

\* create() has named the inode a in d, with the block b.
Named(p, d, a, n, b) ==
  /\ ents' \in [Inum -> [Entry -> Ref]] /\ Entered(d, n, a)
  /\ \A e \in Inum : e \notin {d, a} => ents'[e] = ents[e]
  /\ Updated /\ \A j \in Inum : j \notin {d, a} => dinode'[j] = dinode[j]
  /\ dinode'[a].nlink = 1 /\ dinode'[d].addr = dinode[d].addr
  /\ dinode'[d].nlink = dinode[d].nlink + One(dinode[a].type = "dir")
  /\ dinode'[a].addr = b /\ b \notin used /\ used' = used \cup ({b} \ {0})
  /\ EndPointers(p) /\ \A i \in Inum : (Has(p, i)' => Has(p, i)) /\ Mine(p, i)' = Mine(p, i)
  /\ Iunlock(d) /\ Goto(p, "end") /\ Hold(p, 0, 0) /\ UNCHANGED <<ref, op, path, new>>

LEMMA NamedStep ==
  ASSUME FsInv, NEW p \in Proc, pc[p] = "made", lock[ip[p]] = None, NEW b \in Block \cup {0},
         Named(p, cur[p], ip[p], Head(path[p]), b)
  PROVE  FsInv'
<1>1. PICK d \in Inum, a \in Inum, n \in Name : d = cur[p] /\ a = ip[p] /\ n = Head(path[p])
  BY MadeIs
<1> QED BY <1>1, MadeNamed DEF Named

\* mkdir() without a block takes everything back.
LEMMA MadeFailed ==
  ASSUME FsInv, NEW p \in Proc, pc[p] = "made", NEW d \in Inum, d = cur[p], NEW a \in Inum, a = ip[p],
         NEW r, r = [dinode[a] EXCEPT !.nlink = 0], Iupdate([j \in {a} |-> r]), Put(p, <<a, d>>),
         Iunlock(d), Goto(p, "end"), Hold(p, 0, 0), UNCHANGED <<ents, used, ref, cwd, file, op, path, new>>
  PROVE  FsInv'
<1>1. LocalOK /\ TableOK /\ DiskOK /\ BlocksOwned
  BY DEF FsInv
<1>2. ~Linking(p) /\ dinode[a].nlink = 0 /\ dinode[a].type # "free" /\ Has(p, a)
  BY MadeIs
<1>3. r \in Inode /\ r.type = dinode[a].type /\ r.nlink = 0 /\ r.addr = dinode[a].addr
  <2>1. dinode[a] \in Inode /\ 0 \in Nat
    BY <1>1 DEF DiskOK
  <2> QED BY <2>1, NlinkIs
<1>4. /\ dinode' \in [Inum -> Inode] /\ dinode'[a] = r /\ \A j \in Inum : j # a => dinode'[j] = dinode[j]
      /\ \A j \in Inum : dinode'[j].type = dinode[j].type
  BY <1>2, <1>3, UpdateIs
<1>5. EndPointers(p) /\ \A i \in Inum : (Has(p, i)' => Has(p, i)) /\ Mine(p, i)' = Mine(p, i)
  <2>1. {a, d} = {d, a}
    OBVIOUS
  <2> QED BY <2>1, MadePuts
<1>6. LocalOK' /\ SameOthers(p) /\ Shape(p)' /\ KnowOf(p)' /\ ~New(p)' /\ ~Linking(p)'
  BY <1>1, <1>5, EndLocals
<1>7. /\ LockInv' /\ lock' \in [Inum -> Proc \cup {None}]
      /\ \A i \in Inum : lock[i] # None /\ lock[i] # p => lock'[i] = lock[i]
  BY <1>6, UnlockIs
<1>8. FileLinks' /\ DirLinks'
  <2>1. \A j \in Inum : dinode[j].nlink \in Nat
    BY <1>1 DEF DiskOK, Inode
  <2>2. \A j \in Inum : dinode'[j].type = dinode[j].type /\ dinode'[j].nlink >= dinode[j].nlink
    <3>1. ASSUME NEW j \in Inum PROVE dinode'[j].nlink = dinode[j].nlink
      <4>1. CASE j = a
        BY <1>2, <1>3, <1>4, <4>1
      <4>2. CASE j # a
        BY <1>4, <4>2
      <4> QED BY <4>1, <4>2
    <3> QED BY <1>4, <2>1, <3>1
  <2> QED BY <1>2, <1>4, <1>6, <2>2, LinksKeep
<1>9. used' \subseteq Block /\ BlocksOwned'
  <2>1. \A j \in Inum : dinode'[j].addr = dinode[j].addr
    <3>1. ASSUME NEW j \in Inum PROVE dinode'[j].addr = dinode[j].addr
      <4>1. CASE j = a
        BY <1>3, <1>4, <4>1
      <4>2. CASE j # a
        BY <1>4, <4>2
      <4> QED BY <4>1, <4>2
    <3> QED BY <3>1
  <2> QED BY <1>1, <2>1 DEF DiskOK, BlocksOwned
<1>10. ASSUME NEW i \in Inum PROVE ref'[i] - ref[i] = Mine(p, i)' - Mine(p, i)
  <2>1. Mine(p, i) \in Nat /\ ref[i] \in Int /\ Mine(p, i)' = Mine(p, i) /\ ref'[i] = ref[i]
    BY <1>1, <1>5, PtrIs DEF TableOK
  <2> QED BY <2>1
<1>11. ref' \in [Inum -> Int]
  BY <1>1 DEF TableOK
<1> QED BY <1>2, <1>3, <1>5, <1>6, <1>7, <1>8, <1>9, <1>10, <1>11, InodeStep

\* A new directory has a block, and its parent one more link.
LEMMA MadeDir ==
  ASSUME FsInv, NEW p \in Proc, pc[p] = "made", NEW d \in Inum, d = cur[p], NEW a \in Inum, a = ip[p],
         NEW n \in Name, n = Head(path[p]), lock[a] = None, dinode[a].type = "dir", FreeBlocks # {},
         NEW b, b = balloc, used' = used \cup {b},
         NEW u, u = Child(dinode[a], b),
         NEW v, v = [dinode[d] EXCEPT !.nlink = @ + 1],
         Iupdate([j \in {a, d} |-> IF j = d THEN v ELSE u]),
         ents' = SetIn(SetIn(ents, d, n, a), a, "..", d),
         Put(p, <<d, a>>), Iunlock(d), Goto(p, "end"), Hold(p, 0, 0),
         UNCHANGED <<ref, cwd, file, op, path, new>>
  PROVE  FsInv'
<1>1. LocalOK /\ TableOK /\ DiskOK
  BY DEF FsInv
<1>2. a # d /\ dinode[d].type = "dir" /\ ents[d][n] = 0
  BY MadeIs
<1>3. b \in Block /\ b \notin used /\ b # 0
  <2>1. FreeBlocks # {} /\ FreeBlocks \subseteq Block /\ \A c \in FreeBlocks : c # 0 /\ c \notin used
    BY FsAssumption DEF FreeBlocks
  <2>2. FreeBlocks \subseteq Nat
    BY <2>1, FsAssumption
  <2> QED BY <2>1, <2>2, MinIs DEF balloc
<1>4. dinode[a] \in Inode /\ dinode[d] \in Inode /\ dinode[d].nlink \in Nat
  BY <1>1 DEF DiskOK, Inode
<1>5. u \in Inode /\ u.type = dinode[a].type /\ u.nlink = 1 /\ u.addr = b
  <2>1. b \in Block \cup {0}
    BY <1>3
  <2> QED BY <1>4, <2>1, ChildIs
<1>6. v \in Inode /\ v.type = dinode[d].type /\ v.nlink = dinode[d].nlink + 1 /\ v.addr = dinode[d].addr
  <2>1. dinode[d].nlink + 1 \in Nat /\ v = [dinode[d] EXCEPT !.nlink = dinode[d].nlink + 1]
    BY <1>4
  <2> QED BY <1>4, <2>1, NlinkIs
<1> DEFINE S == {a, d}
           g == [j \in {a, d} |-> IF j = d THEN v ELSE u]
<1>7. /\ g \in [S -> Inode] /\ g[a] = u /\ g[d] = v /\ a \in S /\ d \in S
      /\ S \in SUBSET Inum /\ \A j \in S : j = a \/ j = d
  BY <1>2, <1>5, <1>6
<1>8. Iupdate(g)
  OBVIOUS
<1>9. \A j : j \notin {d, a} => j \notin S
  OBVIOUS
<1> HIDE DEF g, S
<1>10. \A j \in S : dinode[j].type # "free" /\ g[j].type = dinode[j].type
  <2>1. dinode[a].type # "free" /\ g[a].type = dinode[a].type
    BY <1>5, <1>7
  <2>2. dinode[d].type # "free" /\ g[d].type = dinode[d].type
    BY <1>2, <1>6, <1>7
  <2> QED BY <1>7, <2>1, <2>2, Zenon
<1>11. /\ inode' \in [Inum -> Inode] /\ dinode' \in [Inum -> Inode] /\ valid' \in [Inum -> BOOLEAN]
       /\ \A j \in S : dinode'[j] = g[j]
       /\ \A j \in Inum : j \notin S => dinode'[j] = dinode[j]
       /\ \A j \in Inum : dinode'[j].type = dinode[j].type /\ (valid[j] => valid'[j])
       /\ CopyInv' /\ dinode'[root].type = "dir"
       /\ \A j \in Inum : dinode'[j].type = "free" => dinode'[j] = FreeInode
  BY <1>7, <1>8, <1>10, UpdateSet, Zenon
<1>12. Updated
  BY <1>11 DEF Updated
<1>13. dinode'[a] = u /\ dinode'[d] = v /\ \A j \in Inum : j \notin {d, a} => dinode'[j] = dinode[j]
  BY <1>7, <1>9, <1>11
<1>14. /\ ents' \in [Inum -> [Entry -> Ref]] /\ Entered(d, n, a)
       /\ \A e \in Inum : e \notin {d, a} => ents'[e] = ents[e]
  <2>1. /\ ents' \in [Inum -> [Entry -> Ref]] /\ \A e \in Inum : e \notin {d, a} => ents'[e] = ents[e]
        /\ \A e \in Inum, m \in Name : ents'[e][m] = IF e = d /\ m = n THEN a ELSE ents[e][m]
    <3>1. ents \in [Inum -> [Entry -> Ref]] /\ a # d
      BY <1>1, <1>2 DEF DiskOK
    <3>2. ents' = SetIn(SetIn(ents, d, n, a), a, "..", d)
      OBVIOUS
    <3> QED BY <3>1, <3>2, EntriesSet
  <2> QED BY <1>2, <2>1 DEF Entered
<1>15. EndPointers(p) /\ \A i \in Inum : (Has(p, i)' => Has(p, i)) /\ Mine(p, i)' = Mine(p, i)
  <2>1. {d, a} = {d, a}
    OBVIOUS
  <2> QED BY <2>1, MadePuts
<1>16. dinode'[d].nlink = dinode[d].nlink + One(dinode[a].type = "dir") /\ dinode'[d].addr = dinode[d].addr
  BY <1>6, <1>13 DEF One
<1>17. b \in Block \cup {0} /\ used' = used \cup ({b} \ {0})
  BY <1>3
<1>18. dinode'[a].nlink = 1 /\ dinode'[a].addr = b
  BY <1>5, <1>13
<1>19. b \notin used /\ UNCHANGED <<ref, op, path, new>>
  BY <1>3
<1>20. Named(p, d, a, n, b)
  BY <1>12, <1>13, <1>14, <1>15, <1>16, <1>17, <1>18, <1>19, Zenon DEF Named
<1> QED BY <1>17, <1>20, NamedStep

\* A new file or device needs none.
LEMMA MadeFile ==
  ASSUME FsInv, NEW p \in Proc, pc[p] = "made", NEW d \in Inum, d = cur[p], NEW a \in Inum, a = ip[p],
         NEW n \in Name, n = Head(path[p]), lock[a] = None, dinode[a].type # "dir",
         NEW u, u = Child(dinode[a], 0), Iupdate([j \in {a} |-> u]), SetEnt(d, n, a),
         EndPointers(p), \A i \in Inum : (Has(p, i)' => Has(p, i)) /\ Mine(p, i)' = Mine(p, i),
         Iunlock(d), Goto(p, "end"), Hold(p, 0, 0), UNCHANGED <<used, ref, op, path, new>>
  PROVE  FsInv'
<1>1. DiskOK /\ BlocksOwned
  BY DEF FsInv
<1>2. a # d /\ dinode[a].type # "free" /\ ents[d][n] = 0
  BY MadeIs
<1>3. dinode[a] \in Inode /\ dinode[d] \in Inode /\ dinode[d].nlink \in Nat
  BY <1>1 DEF DiskOK, Inode
<1>4. u \in Inode /\ u.type = dinode[a].type /\ u.nlink = 1 /\ u.addr = 0
  <2>1. 0 \in Block \cup {0}
    OBVIOUS
  <2> QED BY <1>3, <2>1, ChildIs
<1>5. /\ inode' \in [Inum -> Inode] /\ dinode' \in [Inum -> Inode] /\ valid' \in [Inum -> BOOLEAN]
      /\ dinode'[a] = u /\ \A j \in Inum : j # a => dinode'[j] = dinode[j]
      /\ \A j \in Inum : dinode'[j].type = dinode[j].type /\ (valid[j] => valid'[j])
      /\ CopyInv' /\ dinode'[root].type = "dir"
      /\ \A j \in Inum : dinode'[j].type = "free" => dinode'[j] = FreeInode
  BY <1>2, <1>4, UpdateIs
<1>6. Updated
  BY <1>5 DEF Updated
<1>7. /\ ents' \in [Inum -> [Entry -> Ref]] /\ Entered(d, n, a)
      /\ \A e \in Inum : e \notin {d, a} => ents'[e] = ents[e]
  <2>1. ents \in [Inum -> [Entry -> Ref]] /\ a \in Ref
    BY <1>1 DEF DiskOK, Ref
  <2>2. /\ ents' \in [Inum -> [Entry -> Ref]]
        /\ \A e \in Inum : e # d => ents'[e] = ents[e]
        /\ \A e \in Inum, m \in Name : ents'[e][m] = IF e = d /\ m = n THEN a ELSE ents[e][m]
    BY <2>1, EntIs
  <2> QED BY <1>2, <2>2 DEF Entered
<1>8. dinode'[d].nlink = dinode[d].nlink + One(dinode[a].type = "dir") /\ dinode'[d].addr = dinode[d].addr
  BY <1>2, <1>3, <1>5 DEF One
<1>9. /\ \A j \in Inum : j \notin {d, a} => dinode'[j] = dinode[j]
      /\ dinode'[a].nlink = 1 /\ dinode'[a].addr = 0
  BY <1>4, <1>5
<1>10. 0 \in Block \cup {0} /\ 0 \notin used /\ used' = used \cup ({0} \ {0})
  BY <1>1 DEF BlocksOwned
<1>11. Named(p, d, a, n, 0)
  BY <1>6, <1>7, <1>8, <1>9, <1>10 DEF Named
<1> QED BY <1>10, <1>11, NamedStep

LEMMA CreateMadeStep ==
  ASSUME FsInv, NEW p \in Proc, CreateMade(p)
  PROVE  FsInv'
<1>1. /\ pc[p] = "made" /\ Iunlock(cur[p]) /\ Hold(p, 0, 0) /\ Goto(p, "end")
      /\ UNCHANGED <<ref, cwd, op, path, new>>
  BY DEF CreateMade, At
<1>2. PICK d \in Inum, a \in Inum, n \in Name :
        d = cur[p] /\ a = ip[p] /\ n = Head(path[p]) /\ inode[d] = dinode[d]
  BY <1>1, MadeIs
<1>3. Loaded(a) = dinode[a] /\ lock[a] = None
  BY <1>2, LoadedIs DEF CreateMade
<1>4. CASE /\ Iupdate([j \in {a} |-> [dinode[a] EXCEPT !.nlink = 0]]) /\ Put(p, <<a, d>>)
           /\ UNCHANGED <<ents, used, file>>
  <2>1. PICK r : r = [dinode[a] EXCEPT !.nlink = 0]
    OBVIOUS
  <2>2. Iupdate([j \in {a} |-> r]) /\ Put(p, <<a, d>>) /\ UNCHANGED <<ents, used, file>>
    BY <1>4, <2>1
  <2> QED BY <1>1, <1>2, <2>1, <2>2, MadeFailed
<1>5. CASE /\ dinode[a].type = "dir" /\ FreeBlocks # {} /\ used' = used \cup {balloc}
           /\ Iupdate([j \in {a, d} |-> IF j = d THEN [dinode[d] EXCEPT !.nlink = @ + 1]
                                        ELSE Child(dinode[a], balloc)])
           /\ ents' = SetIn(SetIn(ents, d, n, a), a, "..", d)
           /\ Put(p, <<d, a>>) /\ UNCHANGED file
  <2>1. PICK b, u, v : b = balloc /\ u = Child(dinode[a], b) /\ v = [dinode[d] EXCEPT !.nlink = @ + 1]
    OBVIOUS
  <2>2. Iupdate([j \in {a, d} |-> IF j = d THEN v ELSE u])
    BY <1>5, <2>1
  <2>3. /\ dinode[a].type = "dir" /\ FreeBlocks # {} /\ used' = used \cup {b}
        /\ ents' = SetIn(SetIn(ents, d, n, a), a, "..", d) /\ Put(p, <<d, a>>) /\ UNCHANGED file
    BY <1>5, <2>1
  <2> QED BY <1>1, <1>2, <1>3, <2>1, <2>2, <2>3, MadeDir
<1>6. CASE /\ dinode[a].type # "dir" /\ Iupdate([j \in {a} |-> Child(dinode[a], 0)])
           /\ SetEnt(d, n, a) /\ UNCHANGED used
           /\ \/ file[p] = 0 /\ Put(p, <<d>>) /\ file' = [file EXCEPT ![p] = a]
              \/ Put(p, <<d, a>>) /\ UNCHANGED file
  <2>1. EndPointers(p) /\ \A i \in Inum : (Has(p, i)' => Has(p, i)) /\ Mine(p, i)' = Mine(p, i)
    <3>1. CASE file[p] = 0 /\ Put(p, <<d>>) /\ file' = [file EXCEPT ![p] = a]
      BY <1>1, <1>2, <3>1, MadeOpened
    <3>2. CASE Put(p, <<d, a>>) /\ UNCHANGED file
      <4>1. {d, a} = {d, a}
        OBVIOUS
      <4> QED BY <1>1, <1>2, <3>2, <4>1, MadePuts
    <3> QED BY <1>6, <3>1, <3>2
  <2>2. PICK u : u = Child(dinode[a], 0)
    OBVIOUS
  <2>3. Iupdate([j \in {a} |-> u])
    BY <1>6, <2>2
  <2> QED BY <1>1, <1>2, <1>3, <1>6, <2>1, <2>2, <2>3, MadeFile
<1>7. \/ /\ Iupdate([j \in {a} |-> [dinode[a] EXCEPT !.nlink = 0]]) /\ Put(p, <<a, d>>)
         /\ UNCHANGED <<ents, used, file>>
      \/ /\ dinode[a].type = "dir" /\ FreeBlocks # {} /\ used' = used \cup {balloc}
         /\ Iupdate([j \in {a, d} |-> IF j = d THEN [dinode[d] EXCEPT !.nlink = @ + 1]
                                      ELSE Child(dinode[a], balloc)])
         /\ ents' = SetIn(SetIn(ents, d, n, a), a, "..", d)
         /\ Put(p, <<d, a>>) /\ UNCHANGED file
      \/ /\ dinode[a].type # "dir" /\ Iupdate([j \in {a} |-> Child(dinode[a], 0)])
         /\ SetEnt(d, n, a) /\ UNCHANGED used
         /\ \/ file[p] = 0 /\ Put(p, <<d>>) /\ file' = [file EXCEPT ![p] = a]
            \/ Put(p, <<d, a>>) /\ UNCHANGED file
  BY <1>2, <1>3 DEF CreateMade, dirlink, SetEnt, SetIn, Child
<1> QED BY <1>4, <1>5, <1>6, <1>7

----------------------------------------------------------------------------
(* The inode of the last iput() is freed. *)

\* The iput() is marked, and is not the process's claim to the inode any more.
Marked(s) == [s EXCEPT ![1][2] = TRUE]

LEMMA SecondSet ==
  ASSUME NEW x, NEW b, NEW c
  PROVE  [<<x, b>> EXCEPT ![2] = c] = <<x, c>>
OBVIOUS

LEMMA MarkedIs ==
  ASSUME NEW s \in Seq(Inum \X BOOLEAN), s # <<>>, Len(s) <= 2
  PROVE  /\ Marked(s) \in Seq(Inum \X BOOLEAN) /\ Len(Marked(s)) = Len(s)
         /\ DOMAIN Marked(s) = DOMAIN s /\ 1 \in DOMAIN s /\ s[1] \in Inum \X BOOLEAN
         /\ Marked(s)[1] = <<s[1][1], TRUE>> /\ \A k \in DOMAIN s : k # 1 => k = 2 /\ Marked(s)[k] = s[k]
<1>1. Len(s) \in Nat /\ Len(s) # 0 /\ DOMAIN s = 1..Len(s)
  OBVIOUS
<1>2. 1 \in DOMAIN s /\ \A k \in DOMAIN s : k # 1 => k = 2
  BY <1>1
<1>3. s[1] \in Inum \X BOOLEAN
  BY <1>1, <1>2
<1>4. [s[1] EXCEPT ![2] = TRUE] = <<s[1][1], TRUE>>
  <2>1. PICK x \in Inum, b \in BOOLEAN : s[1] = <<x, b>>
    BY <1>3
  <2>2. [<<x, b>> EXCEPT ![2] = TRUE] = <<x, TRUE>>
    BY SecondSet, Zenon
  <2>3. s[1][1] = x
    BY <2>1
  <2> QED BY <2>1, <2>2, <2>3, Zenon
<1>5. Marked(s) = [s EXCEPT ![1] = <<s[1][1], TRUE>>]
  BY <1>4 DEF Marked
<1>6. <<s[1][1], TRUE>> \in Inum \X BOOLEAN
  BY <1>3
<1>7. Marked(s) \in Seq(Inum \X BOOLEAN) /\ Len(Marked(s)) = Len(s)
  BY <1>2, <1>5, <1>6
<1>8. Marked(s)[1] = <<s[1][1], TRUE>> /\ \A k \in DOMAIN s : k # 1 => Marked(s)[k] = s[k]
  BY <1>2, <1>5
<1>9. DOMAIN Marked(s) = DOMAIN s
  BY <1>5
<1> QED BY <1>2, <1>3, <1>7, <1>8, <1>9

LEMMA PutFreed ==
  ASSUME LocalOK, NEW p \in Proc, puts[p] # <<>>, ~puts[p][1][2], NEW a \in Inum, a = puts[p][1][1],
         puts' = [puts EXCEPT ![p] = Marked(puts[p])], UNCHANGED <<cwd, file, cur, ip>>
  PROVE  /\ puts' \in [Proc -> Seq(Inum \X BOOLEAN)] /\ \A q \in Proc : Len(puts'[q]) <= 2
         /\ \A q \in Proc : q # p => puts'[q] = puts[q]
         /\ Has(p, a)
         /\ \A i \in Inum : /\ PutTo(p, 1, i)' <=> PutTo(p, 1, i)
                            /\ PutTo(p, 2, i)' <=> PutTo(p, 2, i)
                            /\ Has(p, i)' => Has(p, i)
                            /\ Has(p, i)' /\ i \notin {cwd[p], file[p], cur[p], ip[p]} => PutTo(p, 2, i)
<1>1. puts \in [Proc -> Seq(Inum \X BOOLEAN)] /\ \A q \in Proc : Len(puts[q]) <= 2
  BY DEF LocalOK
<1> DEFINE s == puts[p]
           t == Marked(s)
<1>2. s \in Seq(Inum \X BOOLEAN) /\ s # <<>> /\ Len(s) <= 2
  BY <1>1
<1> HIDE DEF s
<1>3. /\ t \in Seq(Inum \X BOOLEAN) /\ Len(t) = Len(s)
      /\ DOMAIN t = DOMAIN s /\ 1 \in DOMAIN s /\ s[1] \in Inum \X BOOLEAN
      /\ t[1] = <<s[1][1], TRUE>> /\ \A k \in DOMAIN s : k # 1 => k = 2 /\ t[k] = s[k]
  BY <1>2, MarkedIs
<1>4. puts' = [puts EXCEPT ![p] = t]
  BY DEF s
<1> HIDE DEF t
<1>5. puts'[p] = t /\ puts[p] = s /\ (\A q \in Proc : q # p => puts'[q] = puts[q])
      /\ puts' \in [Proc -> Seq(Inum \X BOOLEAN)]
  BY <1>1, <1>3, <1>4 DEF s
<1>6. \A q \in Proc : Len(puts'[q]) <= 2
  BY <1>1, <1>2, <1>3, <1>5
<1>7. s[1] = <<a, FALSE>>
  <2>1. PICK x \in Inum, b \in BOOLEAN : s[1] = <<x, b>>
    BY <1>3
  <2>2. a = s[1][1] /\ ~s[1][2]
    BY <1>5
  <2>3. a = x /\ ~b
    BY <2>1, <2>2
  <2>4. b = FALSE
    BY <2>3
  <2> QED BY <2>1, <2>3, <2>4
<1>8. Has(p, a)
  BY <1>3, <1>5, <1>7 DEF Has
<1>9. ASSUME NEW i \in Inum
      PROVE  /\ PutTo(p, 1, i)' <=> PutTo(p, 1, i)
             /\ PutTo(p, 2, i)' <=> PutTo(p, 2, i)
             /\ Has(p, i)' => Has(p, i)
             /\ Has(p, i)' /\ i \notin {cwd[p], file[p], cur[p], ip[p]} => PutTo(p, 2, i)
  <2>1. PutTo(p, 1, i)' <=> PutTo(p, 1, i)
    BY <1>3, <1>5 DEF PutTo
  <2>2. PutTo(p, 2, i)' <=> PutTo(p, 2, i)
    BY <1>3, <1>5 DEF PutTo
  <2>3. ASSUME NEW k \in DOMAIN puts'[p], puts'[p][k] = <<i, FALSE>>
        PROVE  2 \in DOMAIN puts[p] /\ puts[p][2] = <<i, FALSE>>
    <3>1. <<s[1][1], TRUE>> # <<i, FALSE>>
      OBVIOUS
    <3>2. k \in DOMAIN s /\ t[k] = <<i, FALSE>>
      BY <1>3, <1>5, <2>3
    <3>3. k # 1
      BY <1>3, <3>1, <3>2
    <3> QED BY <1>3, <1>5, <3>2, <3>3
  <2>4. Has(p, i)' => Has(p, i)
    BY <2>3 DEF Has
  <2>5. Has(p, i)' /\ i \notin {cwd[p], file[p], cur[p], ip[p]} => PutTo(p, 2, i)
    <3>1. i \notin {cwd[p], file[p], cur[p], ip[p]} /\ Has(p, i)' => \E k \in DOMAIN puts'[p] : puts'[p][k] = <<i, FALSE>>
      BY DEF Has
    <3>2. <<i, FALSE>>[1] = i
      OBVIOUS
    <3> QED BY <2>3, <3>1, <3>2 DEF PutTo
  <2> QED BY <2>1, <2>2, <2>4, <2>5
<1> QED BY <1>5, <1>6, <1>8, <1>9

\* An inode without links has no names.
LEMMA NoNames ==
  ASSUME FsInv, NEW a \in Inum, dinode[a].nlink = 0, dinode[a].type # "free"
  PROVE  a # root /\ NamesOf(a) = {} /\ DirsIn(a) = {} /\ (dinode[a].type # "dir" => LinksTo(a) = {})
<1>1. /\ IsFiniteSet(NamesOf(a)) /\ IsFiniteSet(LinksTo(a)) /\ IsFiniteSet(DirsIn(a))
      /\ Cardinality(NamesOf(a)) \in Nat /\ Cardinality(LinksTo(a)) \in Nat /\ Cardinality(DirsIn(a)) \in Nat
  BY NamesFinite, FS_CardinalityType
<1>2. CASE dinode[a].type = "dir"
  <2>1. /\ 0 >= Cardinality(DirsIn(a))
        /\ a = root \/ NamesOf(a) # {} => 0 >= 1 + Cardinality(DirsIn(a))
    BY <1>2 DEF FsInv, DirLinks
  <2>2. Cardinality(DirsIn(a)) = 0 /\ a # root /\ NamesOf(a) = {}
    BY <1>1, <2>1
  <2>3. DirsIn(a) = {}
    BY <1>1, <2>2, FS_EmptySet
  <2> QED BY <1>2, <2>2, <2>3
<1>3. CASE dinode[a].type # "dir"
  <2>1. 0 >= Cardinality(NamesOf(a)) + Cardinality(LinksTo(a))
    BY <1>3 DEF FsInv, FileLinks
  <2>2. Cardinality(NamesOf(a)) = 0 /\ Cardinality(LinksTo(a)) = 0
    BY <1>1, <2>1
  <2>3. NamesOf(a) = {} /\ LinksTo(a) = {}
    BY <1>1, <2>2, FS_EmptySet
  <2>4. DirsIn(a) = {} /\ a # root
    BY <1>3 DEF DirsIn, FsInv, NameInv, DiskOK
  <2> QED BY <2>3, <2>4
<1> QED BY <1>2, <1>3

LEMMA IputFreeStep ==
  ASSUME FsInv, NEW p \in Proc, IputFree(p)
  PROVE  FsInv'
<1>1. LocalOK /\ TableOK /\ DiskOK /\ BlocksOwned /\ NameInv /\ TreeInv /\ Shape(p) /\ KnowOf(p) /\ HasOf(p)
  BY DEF FsInv
<1>2. /\ puts[p] # <<>> /\ ~puts[p][1][2] /\ puts' = [puts EXCEPT ![p] = Marked(puts[p])]
      /\ UNCHANGED <<ref, lock, cwd, file, pc, op, path, new, cur, ip>>
  BY <1>1 DEF IputFree, held, Marked, LocalOK
<1>3. puts[p][1][1] \in Inum
  <2>1. puts[p] \in Seq(Inum \X BOOLEAN) /\ Len(puts[p]) <= 2
    BY <1>1 DEF LocalOK
  <2> QED BY <1>2, <2>1, TailOf
<1>4. PICK a \in Inum : a = puts[p][1][1]
  BY <1>3
<1>5. /\ ref[a] = 1 /\ valid[a] /\ inode[a].nlink = 0
      /\ used' = used \ {inode[a].addr} /\ ents' = [ents EXCEPT ![a] = NoEnts]
      /\ inode' = [inode EXCEPT ![a] = FreeInode] /\ dinode' = [dinode EXCEPT ![a] = FreeInode]
      /\ valid' = [valid EXCEPT ![a] = FALSE]
  BY <1>4 DEF IputFree, LastOne, Truncated, Invalidated
<1>6. inode[a] = dinode[a] /\ dinode[a].type # "free" /\ dinode[a].nlink = 0
  BY <1>5 DEF FsInv, CopyInv
<1>7. /\ \A q \in Proc : q # p => ~Has(q, a)
      /\ a \notin {cwd[p], file[p], cur[p], ip[p]} /\ ~PutTo(p, 2, a)
  BY <1>1, <1>2, <1>4, <1>5, LastAlone DEF FsInv
<1>8. a # root /\ NamesOf(a) = {} /\ DirsIn(a) = {}
  BY <1>6, NoNames
<1>9. \A e \in Inum, m \in Name : ents[e][m] # a
  <2>1. ASSUME NEW e \in Inum, NEW m \in Name, ents[e][m] = a PROVE <<e, m>> \in NamesOf(a)
    <3>1. <<e, m>> \in Inum \X Name /\ <<e, m>>[1] = e /\ <<e, m>>[2] = m
      OBVIOUS
    <3>2. ents[<<e, m>>[1]][<<e, m>>[2]] = a
      BY <2>1, <3>1
    <3> QED BY <3>1, <3>2 DEF NamesOf
  <2> QED BY <1>8, <2>1
<1>10. LinksTo(a) = {}
  BY <1>7 DEF LinksTo, Has
<1>11. /\ puts' \in [Proc -> Seq(Inum \X BOOLEAN)] /\ \A q \in Proc : Len(puts'[q]) <= 2
       /\ \A q \in Proc : q # p => puts'[q] = puts[q]
       /\ Has(p, a)
       /\ \A i \in Inum : /\ PutTo(p, 1, i)' <=> PutTo(p, 1, i)
                          /\ PutTo(p, 2, i)' <=> PutTo(p, 2, i)
                          /\ Has(p, i)' => Has(p, i)
                          /\ Has(p, i)' /\ i \notin {cwd[p], file[p], cur[p], ip[p]} => PutTo(p, 2, i)
  BY <1>1, <1>2, <1>4, PutFreed
<1>12. LocalOK'
  BY <1>1, <1>2, <1>11 DEF LocalOK
<1>13. SameOthers(p)
  BY <1>2, <1>11 DEF SameOthers, SameLocal
<1>14. FreeInode \in Inode /\ FreeInode.type = "free" /\ FreeInode.nlink = 0 /\ FreeInode.addr = 0
  BY DEF FreeInode, Inode
<1>15. /\ inode' \in [Inum -> Inode] /\ dinode' \in [Inum -> Inode] /\ valid' \in [Inum -> BOOLEAN]
       /\ dinode'[a] = FreeInode /\ ~valid'[a]
       /\ \A j \in Inum : j # a => dinode'[j] = dinode[j] /\ inode'[j] = inode[j] /\ valid'[j] = valid[j]
  <2>1. inode \in [Inum -> Inode] /\ dinode \in [Inum -> Inode] /\ valid \in [Inum -> BOOLEAN]
    BY <1>1 DEF TableOK, DiskOK
  <2> QED BY <1>5, <1>14, <2>1
<1>16. CopyInv'
  BY <1>15 DEF FsInv, CopyInv
<1>17. TableOK'
  BY <1>1, <1>2, <1>15 DEF TableOK
<1>18. /\ ents' \in [Inum -> [Entry -> Ref]] /\ \A e \in Inum : e # a => ents'[e] = ents[e]
       /\ \A m \in Name : ents'[a][m] = 0
  <2>1. ents \in [Inum -> [Entry -> Ref]] /\ NoEnts \in [Entry -> Ref] /\ \A m \in Name : NoEnts[m] = 0
    BY <1>1 DEF DiskOK, NoEnts, Ref, Entry
  <2> QED BY <1>5, <2>1
<1>19. DiskOK'
  <2>1. used' \subseteq Block /\ dinode'[root].type = "dir"
    BY <1>1, <1>5, <1>8, <1>15, FsAssumption DEF DiskOK, root
  <2>2. \A j \in Inum : dinode'[j].type = "free" => dinode'[j] = FreeInode
    BY <1>1, <1>15 DEF DiskOK
  <2> QED BY <1>15, <1>18, <2>1, <2>2 DEF DiskOK
<1>20. \A j \in Inum : Has(p, j)' => Has(p, j) /\ j # a
  BY <1>7, <1>11
<1>21. \A e \in Inum, m \in Name : ents'[e][m] = IF e = a THEN 0 ELSE ents[e][m]
  BY <1>18
<1>22. pc[p] \notin {"idle", "found", "made", "victim", "write"}
  BY <1>1, <1>2 DEF Shape
<1>23. OthersFrame(p)
  <2>1. \A q \in Proc, i \in Inum : q # p /\ Has(q, i) =>
          dinode'[i].type = dinode[i].type /\ (valid[i] => valid'[i])
    BY <1>7, <1>15
  <2>2. \A i \in Inum : ~Has(p, i) => dinode'[i] = dinode[i] /\ ents'[i] = ents[i]
    BY <1>11, <1>15, <1>18
  <2>3. lock[a] = None
    <3>1. SUFFICES ASSUME lock[a] # None PROVE FALSE
      OBVIOUS
    <3>2. PICK q \in Proc : pc[q] \in {"made", "victim"} /\ cur[q] = a
      BY <3>1 DEF FsInv, LockInv
    <3> QED BY <1>7, <3>2 DEF Has
  <2>4. \A i \in Inum : lock[i] # None /\ lock[i] # p => lock'[i] = lock[i] /\ ents'[i] = ents[i]
    BY <1>2, <1>18, <2>3
  <2> QED BY <1>13, <1>20, <1>21, <2>1, <2>2, <2>4 DEF OthersFrame
<1>24. LockInv'
  BY <1>2, <1>13, <1>22, LocksFrame
<1>25. HasOf(p)'
  BY <1>1, <1>15, <1>20 DEF HasOf
<1>26. Shape(p)'
  BY <1>1, <1>2, <1>22 DEF Shape, nameiparent
<1>27. KnowOf(p)'
  <2>1. Linking(p)' <=> Linking(p)
    BY <1>2 DEF Linking
  <2>2. Linking(p) => ip[p] \in Inum /\ ip[p] # a
    BY <1>1, <1>7, <1>22 DEF Shape, Linking
  <2>3. Linking(p) => dinode'[ip[p]].type # "dir"
    BY <1>1, <1>15, <2>2 DEF KnowOf
  <2> QED BY <1>2, <1>22, <2>1, <2>3 DEF KnowOf
<1>28. NewOf(p)'
  BY <1>2, <1>22 DEF NewOf, New
<1>29. NameInv'
  <2>1. ASSUME NEW e \in Inum, NEW m \in Name, ents'[e][m] # 0
        PROVE  e # a /\ ents'[e][m] = ents[e][m] /\ ents[e][m] \in Inum /\ ents[e][m] # a
    BY <1>1, <1>9, <1>21, <2>1 DEF DiskOK, Entry, Ref
  <2> QED BY <1>1, <1>15, <2>1 DEF NameInv
<1>30. TreeInv'
  <2>1. ASSUME NEW T \in SUBSET Inum, T # {} PROVE \E e \in T : \A m \in Name : ents'[e][m] \notin T
    <3>1. PICK e \in T : \A m \in Name : ents[e][m] \notin T
      BY <1>1, <2>1 DEF TreeInv
    <3>2. 0 \notin T
      BY FsAssumption
    <3> QED BY <1>21, <3>1, <3>2
  <2> QED BY <2>1 DEF TreeInv
<1>31. \A j \in Inum : NamesOf(j)' \subseteq NamesOf(j)
  <2>1. ASSUME NEW j \in Inum, NEW s \in Inum \X Name, ents'[s[1]][s[2]] = j
        PROVE  ents[s[1]][s[2]] = j
    <3>1. s[1] \in Inum /\ s[2] \in Name /\ j # 0
      BY FsAssumption
    <3> QED BY <1>21, <2>1, <3>1
  <2> QED BY <2>1 DEF NamesOf
<1>32. \A j \in Inum : LinksTo(j)' = LinksTo(j)
  <2>1. (Linking(p)' <=> Linking(p)) /\ ip'[p] = ip[p]
    BY <1>2 DEF Linking
  <2> QED BY <1>13, <2>1, LinkersFrame
<1>33. \A j \in Inum : DirsIn(j)' = DirsIn(j)
  <2>1. ASSUME NEW j \in Inum, NEW m \in Name
        PROVE  m \in DirsIn(j)' <=> m \in DirsIn(j)
    <3>1. m \in DirsIn(j)' <=> ents'[j][m] # 0 /\ dinode'[ents'[j][m]].type = "dir"
      BY DEF DirsIn
    <3>2. m \in DirsIn(j) <=> ents[j][m] # 0 /\ dinode[ents[j][m]].type = "dir"
      BY DEF DirsIn
    <3>3. CASE j = a
      BY <1>8, <1>21, <3>1, <3>3
    <3>4. CASE j # a
      <4>1. ents'[j][m] = ents[j][m] /\ ents[j][m] \in Ref /\ ents[j][m] # a
        BY <1>1, <1>9, <1>21, <3>4 DEF DiskOK, Entry
      <4> QED BY <1>15, <3>1, <3>2, <4>1 DEF Ref
    <3> QED BY <3>3, <3>4
  <2>2. \A j \in Inum : DirsIn(j)' \subseteq Name /\ DirsIn(j) \subseteq Name
    BY DEF DirsIn
  <2> QED BY <2>1, <2>2
<1>34. ASSUME NEW j \in Inum
       PROVE  /\ Cardinality(NamesOf(j)') <= Cardinality(NamesOf(j))
              /\ Cardinality(NamesOf(j)') \in Nat /\ Cardinality(NamesOf(j)) \in Nat
              /\ Cardinality(LinksTo(j)) \in Nat
  <2>1. IsFiniteSet(NamesOf(j)) /\ IsFiniteSet(LinksTo(j)) /\ NamesOf(j)' \subseteq NamesOf(j)
    BY <1>31, NamesFinite
  <2>2. IsFiniteSet(NamesOf(j)') /\ Cardinality(NamesOf(j)') <= Cardinality(NamesOf(j))
    BY <2>1, FS_Subset
  <2> QED BY <2>1, <2>2, FS_CardinalityType
<1>35. FileLinks'
  <2>1. ASSUME NEW j \in Inum, dinode'[j].type # "dir"
        PROVE  dinode'[j].nlink >= Cardinality(NamesOf(j)') + Cardinality(LinksTo(j))
    <3>1. CASE j = a
      <4>1. NamesOf(a)' = {} /\ LinksTo(a) = {}
        BY <1>8, <1>10, <1>31
      <4>2. Cardinality(NamesOf(a)') = 0 /\ Cardinality(LinksTo(a)) = 0
        BY <4>1, FS_EmptySet
      <4>3. dinode'[a].nlink = 0
        BY <1>14, <1>15
      <4> QED BY <3>1, <4>2, <4>3
    <3>2. CASE j # a
      <4>1. dinode'[j] = dinode[j] /\ dinode[j].nlink \in Nat
        BY <1>1, <1>15, <3>2 DEF DiskOK, Inode
      <4>2. dinode[j].nlink >= Cardinality(NamesOf(j)) + Cardinality(LinksTo(j))
        BY <2>1, <4>1 DEF FsInv, FileLinks
      <4> QED BY <1>34, <4>1, <4>2
    <3> QED BY <3>1, <3>2
  <2> QED BY <1>32, <2>1 DEF FileLinks
<1>36. DirLinks'
  <2>1. ASSUME NEW j \in Inum, dinode'[j].type = "dir"
        PROVE  /\ dinode'[j].nlink >= Cardinality(DirsIn(j))
               /\ j = root \/ NamesOf(j)' # {} => dinode'[j].nlink >= 1 + Cardinality(DirsIn(j))
               /\ \A x, y \in NamesOf(j)' : x = y
    <3>1. j # a
      BY <1>14, <1>15, <2>1
    <3>2. dinode'[j] = dinode[j] /\ NamesOf(j)' \subseteq NamesOf(j)
      BY <1>15, <1>31, <3>1
    <3> QED BY <2>1, <3>2 DEF FsInv, DirLinks
  <2> QED BY <1>33, <2>1 DEF DirLinks
<1>37. BlocksOwned'
  <2>1. \A j \in Inum : j # a => dinode'[j].addr = dinode[j].addr
    BY <1>15
  <2>2. dinode'[a].addr = 0
    BY <1>14, <1>15
  <2>3. used' = (used \ {dinode[a].addr}) \cup ({0} \ {0})
    BY <1>5, <1>6
  <2> QED BY <1>1, <2>1, <2>2, <2>3, BlocksStep
<1>38. ASSUME NEW j \in Inum PROVE ref'[j] - ref[j] = Mine(p, j)' - Mine(p, j)
  <2>1. Mine(p, j) \in Nat /\ ref[j] \in Int /\ ref'[j] = ref[j]
    BY <1>1, <1>2, PtrIs DEF TableOK
  <2>2. /\ cwd'[p] = cwd[p] /\ file'[p] = file[p] /\ cur'[p] = cur[p] /\ ip'[p] = ip[p] /\ pc'[p] = pc[p]
        /\ (PutTo(p, 1, j)' <=> PutTo(p, 1, j)) /\ (PutTo(p, 2, j)' <=> PutTo(p, 2, j))
    BY <1>2, <1>11
  <2>3. Mine(p, j)' = Mine(p, j)
    BY <2>2 DEF Mine, One
  <2> QED BY <2>1, <2>3
<1> QED BY <1>12, <1>16, <1>17, <1>19, <1>23, <1>24, <1>25, <1>26, <1>27, <1>28, <1>29, <1>30,
           <1>35, <1>36, <1>37, <1>38, DiskStep

----------------------------------------------------------------------------
(* The initial states, crashes, and steps that change nothing. *)

\* When every process has one pointer, to the root.
LEMMA RootCounts ==
  ASSUME NEW f, NEW i \in Inum, \A p \in Proc : f[p][1] = root /\ \A k \in 2..6 : f[p][k] = 0
  PROVE  Cardinality(Pairs(f, i)) = RootRefs[i]
<1>1. i # 0 /\ IsFiniteSet(Proc)
  BY FsAssumption
<1>2. ASSUME NEW s \in Pairs(f, i) PROVE s = <<s[1], 1>> /\ s[1] \in Proc /\ i = root
  <2>1. s \in Proc \X (1..6) /\ f[s[1]][s[2]] = i
    BY DEF Pairs
  <2>2. PICK p \in Proc, k \in 1..6 : s = <<p, k>>
    BY <2>1
  <2>3. f[p][k] = i
    BY <2>1, <2>2
  <2>4. k = 1 \/ k \in 2..6
    BY <2>2
  <2> QED BY <1>1, <2>2, <2>3, <2>4
<1>3. CASE i # root
  <2>1. Pairs(f, i) = {}
    BY <1>2, <1>3
  <2> QED BY <1>3, <2>1, FS_EmptySet DEF RootRefs
<1>4. CASE i = root
  <2> DEFINE g == [p \in Proc |-> <<p, 1>>]
  <2>1. \A p \in Proc : g[p] \in Pairs(f, i)
    <3>1. ASSUME NEW p \in Proc PROVE <<p, 1>> \in Pairs(f, i)
      <4>1. <<p, 1>> \in Proc \X (1..6) /\ <<p, 1>>[1] = p /\ <<p, 1>>[2] = 1
        OBVIOUS
      <4>2. f[<<p, 1>>[1]][<<p, 1>>[2]] = i
        BY <1>4, <4>1
      <4> QED BY <4>1, <4>2 DEF Pairs
    <3> QED BY <3>1
  <2>2. \A p, q \in Proc : g[p] = g[q] => p = q
    OBVIOUS
  <2>3. \A s \in Pairs(f, i) : s[1] \in Proc /\ g[s[1]] = s
    BY <1>2
  <2>4. g \in [Proc -> Pairs(f, i)]
    BY <2>1
  <2> HIDE DEF g
  <2>5. g \in Bijection(Proc, Pairs(f, i))
    BY <2>2, <2>3, <2>4 DEF Bijection, Injection, Surjection, IsInjective
  <2>6. ExistsBijection(Proc, Pairs(f, i))
    BY <2>5 DEF ExistsBijection
  <2>7. Cardinality(Pairs(f, i)) = Cardinality(Proc)
    BY <1>1, <2>6, FS_Bijection
  <2> QED BY <1>4, <2>7 DEF RootRefs
<1> QED BY <1>3, <1>4

LEMMA RootRefsType ==
  RootRefs \in [Inum -> Int]
<1>1. Cardinality(Proc) \in Nat
  BY FsAssumption, FS_CardinalityType
<1> QED BY <1>1 DEF RootRefs

LEMMA TableEmpty ==
  /\ FreeInode \in Inode /\ FreeInode.type = "free" /\ FreeInode.nlink = 0 /\ FreeInode.addr = 0
  /\ [i \in Inum |-> FreeInode] \in [Inum -> Inode]
  /\ [i \in Inum |-> FALSE] \in [Inum -> BOOLEAN]
BY DEF FreeInode, Inode

LEMMA FsInitInv ==
  ASSUME FsInit
  PROVE  FsInv
<1> DEFINE first == [type |-> "dir", nlink |-> 1, addr |-> 1]
<1>1. first \in Inode /\ root \in Inum /\ first.type = "dir" /\ first.nlink = 1 /\ first.addr = 1
  BY FsAssumption DEF Inode, root
<1>2. /\ dinode \in [Inum -> Inode] /\ dinode[root] = first
      /\ \A i \in Inum : i # root => dinode[i] = FreeInode
  <2>1. dinode = [i \in Inum |-> IF i = root THEN first ELSE FreeInode]
    BY DEF FsInit
  <2> HIDE DEF first
  <2> QED BY <1>1, <2>1, TableEmpty
<1>3. ents \in [Inum -> [Entry -> Ref]] /\ \A i \in Inum, n \in Name : ents[i][n] = 0
  <2> DEFINE rootEnts == [NoEnts EXCEPT ![".."] = root]
  <2>1. NoEnts \in [Entry -> Ref] /\ \A n \in Name : NoEnts[n] = 0
    BY DEF NoEnts, Entry, Ref
  <2>2. rootEnts \in [Entry -> Ref] /\ \A n \in Name : rootEnts[n] = 0
    <3>1. root \in Ref /\ ".." \in Entry /\ \A n \in Name : n # ".." /\ n \in Entry
      BY <1>1, FsAssumption DEF Ref, Entry
    <3> QED BY <2>1, <3>1
  <2>3. ents = [i \in Inum |-> IF i = root THEN rootEnts ELSE NoEnts]
    BY DEF FsInit
  <2> HIDE DEF rootEnts
  <2> QED BY <2>1, <2>2, <2>3
<1>4. DiskOK
  <2>1. used \subseteq Block
    BY FsAssumption DEF FsInit
  <2>2. dinode[root].type = "dir" /\ \A i \in Inum : dinode[i].type = "free" => dinode[i] = FreeInode
    BY <1>1, <1>2
  <2> QED BY <1>2, <1>3, <2>1, <2>2 DEF DiskOK
<1>5. TableOK
  <2>1. lock \in [Inum -> Proc \cup {None}]
    BY DEF FsInit
  <2> QED BY <2>1, RootRefsType, TableEmpty DEF TableOK, FsInit
<1>6. \A p \in Proc : /\ cwd[p] = root /\ file[p] = 0 /\ pc[p] = "idle"
                      /\ cur[p] = 0 /\ ip[p] = 0 /\ puts[p] = <<>>
  BY DEF FsInit
<1>7. LocalOK
  <2>1. cwd \in [Proc -> Inum] /\ file \in [Proc -> Ref] /\ cur \in [Proc -> Ref] /\ ip \in [Proc -> Ref]
    BY <1>1 DEF FsInit, Ref
  <2>2. /\ puts \in [Proc -> Seq(Inum \X BOOLEAN)] /\ \A p \in Proc : Len(puts[p]) <= 2
        /\ path \in [Proc -> Seq(Name)] /\ new \in [Proc -> Path \cup {<<>>}]
    BY DEF FsInit
  <2>3. pc \in [Proc -> Positions] /\ op \in [Proc -> Walks \cup {"close", "write", None}]
    BY DEF FsInit, Positions
  <2> QED BY <2>1, <2>2, <2>3 DEF LocalOK
<1>8. ASSUME NEW p \in Proc PROVE Shape(p) /\ HasOf(p) /\ KnowOf(p) /\ NewOf(p) /\ ~Linking(p)
  <2>1. Shape(p)
    BY <1>6 DEF Shape, nameiparent
  <2>2. \A i \in Inum : Has(p, i) => i = root
    <3>1. DOMAIN puts[p] = {}
      BY <1>6
    <3>2. 0 \notin Inum
      BY FsAssumption
    <3> QED BY <1>6, <3>1, <3>2 DEF Has
  <2>3. HasOf(p)
    BY <1>1, <1>2, <2>2 DEF HasOf
  <2>4. KnowOf(p) /\ NewOf(p) /\ ~Linking(p)
    BY <1>6 DEF KnowOf, NewOf, New, Linking
  <2> QED BY <2>1, <2>3, <2>4
<1>9. CopyInv /\ LockInv
  <2>1. \A i \in Inum : ~valid[i] /\ lock[i] = None
    BY DEF FsInit
  <2> QED BY <2>1 DEF CopyInv, LockInv
<1>10. NameInv /\ TreeInv
  <2>1. 0 \notin Inum
    BY FsAssumption
  <2> QED BY <1>3, <2>1 DEF NameInv, TreeInv
<1>11. \A i \in Inum : NamesOf(i) = {} /\ LinksTo(i) = {} /\ DirsIn(i) = {}
  <2>1. ASSUME NEW i \in Inum, NEW s \in NamesOf(i) PROVE FALSE
    <3>1. s[1] \in Inum /\ s[2] \in Name /\ ents[s[1]][s[2]] = i
      BY DEF NamesOf
    <3> QED BY <1>3, <3>1, FsAssumption
  <2>2. \A i \in Inum : LinksTo(i) = {}
    BY <1>8 DEF LinksTo
  <2>3. \A i \in Inum : DirsIn(i) = {}
    BY <1>3 DEF DirsIn
  <2> QED BY <2>1, <2>2, <2>3
<1>12. FileLinks /\ DirLinks
  <2>1. \A i \in Inum : /\ Cardinality(NamesOf(i)) = 0 /\ Cardinality(LinksTo(i)) = 0
                        /\ Cardinality(DirsIn(i)) = 0
    BY <1>11, FS_EmptySet
  <2>2. \A i \in Inum : dinode[i].nlink \in Nat
    BY <1>2 DEF Inode
  <2>3. dinode[root].nlink = 1
    BY <1>1, <1>2
  <2> QED BY <1>11, <2>1, <2>2, <2>3 DEF FileLinks, DirLinks
<1>13. BlocksOwned
  <2>1. dinode[root].addr = 1 /\ \A i \in Inum : i # root => dinode[i].addr = 0
    BY <1>1, <1>2, TableEmpty
  <2>2. used = {1}
    BY DEF FsInit
  <2>3. {dinode[i].addr : i \in Inum} \ {0} = {1}
    BY <1>1, <2>1
  <2> QED BY <2>1, <2>2, <2>3 DEF BlocksOwned
<1>14. RefsExact
  <2>1. ASSUME NEW i \in Inum PROVE ref[i] = Pointers(i)
    <3>1. Pointers(i) = Cardinality(Pairs(Ptr, i))
      BY DEF Pointers, Pairs, Ptr
    <3>2. \A p \in Proc : Ptr[p][1] = root /\ \A k \in 2..6 : Ptr[p][k] = 0
      BY <1>6 DEF Ptr, Pointer
    <3>3. Cardinality(Pairs(Ptr, i)) = RootRefs[i]
      BY <3>2, RootCounts
    <3> QED BY <3>1, <3>3 DEF FsInit
  <2> QED BY <2>1 DEF RefsExact
<1> QED BY <1>4, <1>5, <1>7, <1>8, <1>9, <1>10, <1>12, <1>13, <1>14 DEF FsInv

LEMMA CrashStep ==
  ASSUME FsInv, Crash
  PROVE  FsInv'
<1>1. /\ LocalOK /\ TableOK /\ DiskOK /\ LockInv /\ NameInv /\ TreeInv /\ FileLinks /\ DirLinks
      /\ BlocksOwned
  BY DEF FsInv
<1>2. UNCHANGED <<dinode, ents, used, lock, pc, op, path, new, cur, ip, puts>>
  BY DEF Crash, disk, local
<1>3. root \in Inum /\ 0 \notin Inum /\ dinode[root].type = "dir"
  BY <1>1, FsAssumption DEF DiskOK, root
<1>4. \A p \in Proc : /\ cwd'[p] = root /\ file'[p] = 0 /\ pc'[p] = "idle"
                      /\ cur'[p] = 0 /\ ip'[p] = 0 /\ puts'[p] = <<>>
  <2>1. \A p \in Proc : cwd'[p] = root /\ file'[p] = 0 /\ pc[p] = "idle"
    BY DEF Crash
  <2>2. \A p \in Proc : cur[p] = 0 /\ ip[p] = 0 /\ puts[p] = <<>>
    BY <2>1 DEF FsInv, Shape
  <2> QED BY <1>2, <2>1, <2>2
<1>5. DiskOK' /\ LockInv' /\ NameInv' /\ TreeInv' /\ BlocksOwned'
  BY <1>1, <1>2 DEF DiskOK, LockInv, NameInv, TreeInv, BlocksOwned
<1>6. TableOK' /\ CopyInv'
  <2>1. /\ inode' = [i \in Inum |-> FreeInode] /\ valid' = [i \in Inum |-> FALSE]
        /\ ref' = RootRefs /\ lock' = lock
    BY <1>2 DEF Crash
  <2> QED BY <1>1, <2>1, RootRefsType, TableEmpty DEF TableOK, CopyInv
<1>7. LocalOK'
  <2>1. cwd' \in [Proc -> Inum] /\ file' \in [Proc -> Ref]
    BY <1>3 DEF Crash, Ref
  <2> QED BY <1>1, <1>2, <2>1 DEF LocalOK
<1>8. ASSUME NEW p \in Proc PROVE Shape(p)' /\ HasOf(p)' /\ KnowOf(p)' /\ NewOf(p)'
  <2>1. Shape(p)'
    BY <1>4 DEF Shape, nameiparent
  <2>2. \A i \in Inum : Has(p, i)' => i = root
    <3>1. DOMAIN puts'[p] = {}
      BY <1>4
    <3> QED BY <1>3, <1>4, <3>1 DEF Has
  <2>3. HasOf(p)'
    BY <1>2, <1>3, <2>2 DEF HasOf
  <2>4. KnowOf(p)' /\ NewOf(p)'
    BY <1>4 DEF KnowOf, NewOf, New, Linking
  <2> QED BY <2>1, <2>3, <2>4
<1>9. \A i \in Inum : NamesOf(i)' = NamesOf(i) /\ LinksTo(i)' = LinksTo(i) /\ DirsIn(i)' = DirsIn(i)
  BY <1>2 DEF NamesOf, LinksTo, DirsIn, Linking
<1>10. FileLinks' /\ DirLinks'
  BY <1>1, <1>2, <1>9 DEF FileLinks, DirLinks
<1>11. RefsExact'
  <2>1. ASSUME NEW i \in Inum PROVE ref'[i] = Pointers(i)'
    <3>1. Pointers(i)' = Cardinality(Pairs(Ptr', i))
      BY DEF Pointers, Pairs, Ptr
    <3>2. \A p \in Proc : Ptr'[p][1] = root /\ \A k \in 2..6 : Ptr'[p][k] = 0
      BY <1>4 DEF Ptr, Pointer
    <3>3. Cardinality(Pairs(Ptr', i)) = RootRefs[i]
      BY <3>2, RootCounts
    <3> QED BY <3>1, <3>3 DEF Crash
  <2> QED BY <2>1 DEF RefsExact
<1> QED BY <1>5, <1>6, <1>7, <1>8, <1>10, <1>11 DEF FsInv

LEMMA StutterStep ==
  ASSUME FsInv, UNCHANGED fsVars
  PROVE  FsInv'
<1>1. UNCHANGED <<dinode, ents, used, inode, valid, ref, lock, cwd, file, pc, op, path, new, cur, ip, puts>>
  BY DEF fsVars, disk, table, held, local
<1>2. DiskOK' /\ TableOK' /\ LocalOK' /\ CopyInv' /\ LockInv' /\ NameInv' /\ TreeInv' /\ BlocksOwned'
  <2>1. DiskOK /\ TableOK /\ LocalOK /\ CopyInv /\ LockInv /\ NameInv /\ TreeInv /\ BlocksOwned
    BY DEF FsInv
  <2>2. DiskOK' /\ NameInv' /\ TreeInv' /\ BlocksOwned'
    BY <1>1, <2>1 DEF DiskOK, NameInv, TreeInv, BlocksOwned
  <2>3. TableOK' /\ CopyInv'
    BY <1>1, <2>1 DEF TableOK, CopyInv
  <2>4. LocalOK'
    BY <1>1, <2>1 DEF LocalOK
  <2>5. LockInv'
    BY <1>1, <2>1 DEF LockInv
  <2> QED BY <2>2, <2>3, <2>4, <2>5
<1>3. ASSUME NEW p \in Proc PROVE Shape(p)' /\ HasOf(p)' /\ KnowOf(p)' /\ NewOf(p)'
  <2>1. Shape(p) /\ HasOf(p) /\ KnowOf(p) /\ NewOf(p)
    BY DEF FsInv
  <2>2. (nameiparent(p)' <=> nameiparent(p)) /\ (Linking(p)' <=> Linking(p)) /\ (New(p)' <=> New(p))
    BY <1>1 DEF nameiparent, Linking, New
  <2>3. \A q, i : Has(q, i)' <=> Has(q, i)
    BY <1>1 DEF Has
  <2>4. Shape(p)'
    BY <1>1, <2>1, <2>2 DEF Shape
  <2>5. HasOf(p)'
    BY <1>1, <2>1, <2>3 DEF HasOf
  <2>6. KnowOf(p)'
    BY <1>1, <2>1, <2>2 DEF KnowOf
  <2>7. NewOf(p)'
    BY <1>1, <2>1, <2>2, <2>3 DEF NewOf
  <2> QED BY <2>4, <2>5, <2>6, <2>7
<1>4. \A i \in Inum : NamesOf(i)' = NamesOf(i) /\ LinksTo(i)' = LinksTo(i) /\ DirsIn(i)' = DirsIn(i)
  BY <1>1 DEF NamesOf, LinksTo, DirsIn, Linking
<1>5. FileLinks' /\ DirLinks'
  BY <1>1, <1>4 DEF FsInv, FileLinks, DirLinks
<1>6. RefsExact'
  BY <1>1 DEF FsInv, RefsExact, Pointers, Pointer
<1> QED BY <1>2, <1>3, <1>5, <1>6 DEF FsInv

----------------------------------------------------------------------------
(* The invariant, and what follows from it. *)

LEMMA NextStep ==
  ASSUME PlainPaths, FsInv, FsNext
  PROVE  FsInv'
<1>1. CASE Crash
  BY <1>1, CrashStep
<1>2. ASSUME NEW p \in Proc, Step(p) PROVE FsInv'
  <2>1. CASE NamexStep(p)
    BY <2>1, NamexTurn
  <2>2. CASE NamexEnd(p)
    BY <2>2, NamexEndStep
  <2>3. CASE IputFree(p)
    BY <2>3, IputFreeStep
  <2>4. CASE IputDrop(p)
    BY <2>4, IputDropStep
  <2>5. CASE OpenFound(p)
    BY <2>5, OpenStep
  <2>6. CASE CreateLookup(p)
    BY <2>6, CreateLookupStep
  <2>7. CASE CreateExists(p)
    BY <2>7, CreateExistsStep
  <2>8. CASE CreateMade(p)
    BY <2>8, CreateMadeStep
  <2>9. CASE LinkCount(p)
    BY <2>9, LinkCountStep
  <2>10. CASE LinkEnter(p)
    BY <2>10, LinkEnterStep
  <2>11. CASE LinkBad(p)
    BY <2>11, LinkBadStep
  <2>12. CASE UnlinkLookup(p)
    BY <2>12, UnlinkLookupStep
  <2>13. CASE UnlinkVictim(p)
    BY <2>13, UnlinkVictimStep
  <2>14. CASE ChdirFound(p)
    BY <2>14, ChdirStep
  <2>15. CASE Writei(p)
    BY <2>15, WriteiStep
  <2>16. CASE EndOp(p)
    BY <2>16, EndOpStep
  <2> QED BY <1>2, <2>1, <2>2, <2>3, <2>4, <2>5, <2>6, <2>7, <2>8, <2>9, <2>10, <2>11, <2>12, <2>13,
             <2>14, <2>15, <2>16 DEF Step
<1>3. ASSUME NEW p \in Proc, Close(p) PROVE FsInv'
  BY <1>3, CloseStep
<1>4. ASSUME NEW p \in Proc, Write(p) PROVE FsInv'
  BY <1>4, WriteStep
<1>5. ASSUME NEW p \in Proc, NEW o \in Call, NEW s \in Path, NEW t \in Path, Begin(p, o, s, t)
      PROVE  FsInv'
  BY <1>5, BeginStep
<1> QED BY <1>1, <1>2, <1>3, <1>4, <1>5 DEF FsNext

\* FsInv holds in every state, if no path has "..".
LEMMA Inductive ==
  PlainPaths /\ FsSpec => []FsInv
<1> SUFFICES ASSUME PlainPaths PROVE FsSpec => []FsInv
  OBVIOUS
<1>1. FsInv /\ [FsNext]_fsVars => FsInv'
  BY NextStep, StutterStep
<1> QED BY <1>1, FsInitInv, PTL DEF FsSpec

\* A path reaches the root and what has names.
LEMMA ReachableNamed ==
  ASSUME FsInv, NEW i \in Reachable
  PROVE  i \in Inum /\ dinode[i].type # "free" /\ (i = root \/ NamesOf(i) # {})
<1> DEFINE T == {j \in Inum : j = root \/ NamesOf(j) # {}}
<1>1. DiskOK /\ NameInv /\ i \in Inum
  BY DEF FsInv, Reachable
<1>2. ASSUME NEW e \in Inum, NEW m \in Name, ents[e][m] # 0
      PROVE  ents[e][m] \in Inum /\ <<e, m>> \in NamesOf(ents[e][m])
  <2>1. ents[e][m] \in Inum
    BY <1>1, <1>2 DEF DiskOK, Entry, Ref
  <2>2. <<e, m>> \in Inum \X Name /\ <<e, m>>[1] = e /\ <<e, m>>[2] = m
    OBVIOUS
  <2>3. ents[<<e, m>>[1]][<<e, m>>[2]] = ents[e][m]
    BY <2>2
  <2> QED BY <2>1, <2>2, <2>3 DEF NamesOf
<1>3. T \in SUBSET Inum /\ Closed(T)
  <2>1. root \in T
    BY FsAssumption DEF root
  <2>2. \A e \in T, m \in Name : ents[e][m] = 0 \/ ents[e][m] \in T
    BY <1>2
  <2> QED BY <2>1, <2>2 DEF Closed
<1>4. i \in T
  BY <1>3 DEF Reachable
<1>5. ASSUME i # root PROVE dinode[i].type # "free"
  <2>1. PICK s \in NamesOf(i) : TRUE
    BY <1>4, <1>5
  <2>2. s[1] \in Inum /\ s[2] \in Name /\ ents[s[1]][s[2]] = i /\ i # 0
    BY <1>1, <2>1, FsAssumption DEF NamesOf
  <2> QED BY <1>1, <2>2 DEF NameInv
<1>6. dinode[root].type # "free"
  BY <1>1 DEF DiskOK
<1> QED BY <1>1, <1>4, <1>5, <1>6

LEMMA NamesCovered ==
  ASSUME FsInv
  PROVE  NamesValid
<1>1. ASSUME NEW i \in Reachable
      PROVE  /\ dinode[i].type # "free"
             /\ dinode[i].nlink >= IF dinode[i].type = "dir" THEN 1 + Subdirs(i) ELSE Links(i)
  <2>1. /\ i \in Inum /\ dinode[i].type # "free" /\ (i = root \/ NamesOf(i) # {})
        /\ dinode[i].nlink \in Nat
    BY ReachableNamed DEF FsInv, DiskOK, Inode
  <2>2. CASE dinode[i].type = "dir"
    <3>1. dinode[i].nlink >= 1 + Cardinality(DirsIn(i))
      BY <2>1, <2>2 DEF FsInv, DirLinks
    <3>2. Subdirs(i) = Cardinality(DirsIn(i))
      BY <2>2 DEF Subdirs, DirsIn, LiveDirs
    <3> QED BY <2>1, <2>2, <3>1, <3>2
  <2>3. CASE dinode[i].type # "dir"
    <3> DEFINE S == {s \in LiveDirs \X Name : ents[s[1]][s[2]] = i}
    <3>1. dinode[i].nlink >= Cardinality(NamesOf(i)) + Cardinality(LinksTo(i))
      BY <2>1, <2>3 DEF FsInv, FileLinks
    <3>2. LiveDirs \subseteq Inum
      BY DEF LiveDirs, Reachable
    <3>3. S \subseteq NamesOf(i)
      BY <3>2 DEF NamesOf
    <3>4. IsFiniteSet(NamesOf(i)) /\ IsFiniteSet(LinksTo(i))
      BY NamesFinite
    <3> HIDE DEF S
    <3>5. IsFiniteSet(S) /\ Cardinality(S) <= Cardinality(NamesOf(i))
      BY <3>3, <3>4, FS_Subset
    <3>6. Cardinality(S) \in Nat /\ Cardinality(NamesOf(i)) \in Nat /\ Cardinality(LinksTo(i)) \in Nat
      BY <3>4, <3>5, FS_CardinalityType
    <3>7. dinode[i].nlink >= Cardinality(S)
      BY <2>1, <3>1, <3>5, <3>6
    <3>8. Links(i) = Cardinality(S)
      BY DEF Links, S
    <3> QED BY <2>1, <2>3, <3>7, <3>8
  <2> QED BY <2>1, <2>2, <2>3
<1> QED BY <1>1 DEF NamesValid

\* The inode a call is about to lock is one it has.
LEMMA WantedIs ==
  ASSUME FsInv, NEW p \in Proc, Wanted(p) # 0
  PROVE  Wanted(p) \in Inum /\ Wanted(p) \in {cur[p], ip[p]} /\ dinode[Wanted(p)].type # "free"
<1>1. cur[p] \in Ref /\ ip[p] \in Ref /\ HasOf(p)
  BY DEF FsInv, LocalOK
<1>2. Wanted(p) \in {cur[p], ip[p]}
  BY DEF Wanted
<1>3. Wanted(p) \in Inum
  BY <1>1, <1>2 DEF Ref
<1>4. Has(p, Wanted(p))
  BY <1>2 DEF Has
<1> QED BY <1>1, <1>2, <1>3, <1>4 DEF HasOf

LEMMA NoneFree ==
  ASSUME FsInv
  PROVE  InUseKept
<1>1. \A i \in Inum : ref[i] > 0 /\ valid[i] => inode[i] = dinode[i] /\ dinode[i].type # "free"
  BY DEF FsInv, CopyInv
<1>2. ASSUME NEW p \in Proc, NEW i \in {cwd[p], file[p], cur[p], ip[p]} \ {0}
      PROVE  dinode[i].type # "free"
  <2>1. cwd[p] \in Inum /\ file[p] \in Ref /\ cur[p] \in Ref /\ ip[p] \in Ref
    BY DEF FsInv, LocalOK
  <2>2. i \in Inum
    BY <1>2, <2>1 DEF Ref
  <2>3. Has(p, i)
    BY <1>2 DEF Has
  <2> QED BY <2>2, <2>3 DEF FsInv, HasOf
<1> QED BY <1>1, <1>2 DEF InUseKept

\* Each waits for a lock, so there is a lock whose directory names none of the others.
LEMMA NoCycle ==
  ASSUME FsInv
  PROVE  NoLockCycle
<1>1. ASSUME NEW S \in SUBSET Proc, S # {}, \A p \in S : Wanted(p) # 0 /\ lock[Wanted(p)] \in S
      PROVE  FALSE
  <2> DEFINE T == {i \in Inum : lock[i] \in S}
  <2>1. \A p \in S : p \in Proc /\ Wanted(p) \in T
    BY <1>1, WantedIs
  <2>2. T # {} /\ T \in SUBSET Inum
    BY <1>1, <2>1
  <2>3. PICK d \in T : \A n \in Name : ents[d][n] \notin T
    BY <2>2 DEF FsInv, TreeInv
  <2>4. \A i \in T : i \in Inum /\ lock[i] \in S /\ lock[i] \in Proc /\ lock[i] # None
    BY FsAssumption
  <2> HIDE DEF T
  <2>5. \A i \in T : pc[lock[i]] \in {"made", "victim"} /\ cur[lock[i]] = i
    BY <2>4 DEF FsInv, LockInv
  <2>6. PICK p \in S : p = lock[d]
    BY <2>3, <2>4
  <2>7. p \in Proc /\ pc[p] \in {"made", "victim"} /\ cur[p] = d
    BY <2>1, <2>3, <2>5, <2>6
  <2>8. /\ Shape(p) /\ KnowOf(p) /\ NewOf(p) /\ path[p] \in Seq(Name)
    BY <2>7 DEF FsInv, LocalOK
  <2>9. puts[p] = <<>> /\ Len(path[p]) = 1 /\ ip[p] \in Inum
    BY <2>7, <2>8 DEF Shape
  <2>10. Wanted(p) = ip[p]
    BY <2>7, <2>9 DEF Wanted
  <2>11. ip[p] \in T
    BY <2>1, <2>10
  <2>12. CASE pc[p] = "victim"
    <3>1. Head(path[p]) \in Name
      BY <2>8, <2>9
    <3>2. ents[d][Head(path[p])] = ip[p]
      BY <2>7, <2>8, <2>12 DEF KnowOf
    <3> QED BY <2>3, <2>11, <3>1, <3>2
  <2>13. CASE pc[p] = "made"
    <3>1. (\A q \in Proc : q # p => ~Has(q, ip[p])) /\ ip[p] # cur[p]
      BY <2>8, <2>13 DEF NewOf, New
    <3>2. lock[ip[p]] \in Proc /\ cur[lock[ip[p]]] = ip[p]
      BY <2>4, <2>5, <2>11
    <3>3. Has(lock[ip[p]], ip[p])
      BY <3>2 DEF Has
    <3> QED BY <3>1, <3>2, <3>3
  <2> QED BY <2>7, <2>12, <2>13
<1> QED BY <1>1 DEF NoLockCycle

LEMMA NothingPanics ==
  ASSUME FsInv
  PROVE  NoPanic
<1>1. ASSUME NEW p \in Proc, IlockPanics(p) PROVE FALSE
  <2>1. Wanted(p) # 0 /\ Loaded(Wanted(p)).type = "free"
    BY <1>1 DEF IlockPanics
  <2>2. Wanted(p) \in Inum /\ dinode[Wanted(p)].type # "free"
    BY <2>1, WantedIs
  <2>3. Loaded(Wanted(p)) = dinode[Wanted(p)]
    BY <2>2, LoadedIs
  <2> QED BY <2>1, <2>2, <2>3
<1>2. ASSUME NEW p \in Proc, UnlinkPanics(p) PROVE FALSE
  <2>1. pc[p] = "victim" /\ Loaded(ip[p]).nlink = 0
    BY <1>2 DEF UnlinkPanics
  <2>2. Shape(p) /\ KnowOf(p) /\ HasOf(p) /\ path[p] \in Seq(Name)
    BY DEF FsInv, LocalOK
  <2>3. Len(path[p]) = 1 /\ ip[p] \in Inum /\ cur[p] \in Inum /\ ents[cur[p]][Head(path[p])] = ip[p]
    BY <2>1, <2>2 DEF Shape, KnowOf
  <2>4. dinode[ip[p]].nlink = 0
    BY <2>1, <2>3, LoadedIs
  <2>5. dinode[ip[p]].type # "free"
    BY <2>2, <2>3 DEF HasOf, Has
  <2>6. NamesOf(ip[p]) = {}
    BY <2>3, <2>4, <2>5, NoNames
  <2> DEFINE s == <<cur[p], Head(path[p])>>
  <2>7. s \in Inum \X Name /\ s[1] = cur[p] /\ s[2] = Head(path[p])
    BY <2>2, <2>3
  <2> HIDE DEF s
  <2>8. ents[s[1]][s[2]] = ip[p]
    BY <2>3, <2>7
  <2> QED BY <2>6, <2>7, <2>8 DEF NamesOf
<1> QED BY <1>1, <1>2 DEF NoPanic

\* A name that a path reaches belongs to an allocated inode, whose link count covers its names.
THEOREM NamesStayValid ==
  PlainPaths /\ FsSpec => []NamesValid
BY Inductive, NamesCovered, PTL

\* No block has two owners, and the bitmap has exactly the blocks that inodes have.
THEOREM BlocksHaveOneOwner ==
  PlainPaths /\ FsSpec => []BlocksOwned
<1>1. FsInv => BlocksOwned
  BY DEF FsInv
<1> QED BY <1>1, Inductive, PTL

\* The count of an inode in the table is the number of pointers to it, on every path of every call.
THEOREM ReferencesCounted ==
  PlainPaths /\ FsSpec => []RefsExact
<1>1. FsInv => RefsExact
  BY DEF FsInv
<1> QED BY <1>1, Inductive, PTL

\* An inode that is open, a current directory, or in use by a call, is not freed.
THEOREM InodesInUseStay ==
  PlainPaths /\ FsSpec => []InUseKept
BY Inductive, NoneFree, PTL

\* Waiting for inode locks is never circular.
THEOREM InodeLocksOrdered ==
  PlainPaths /\ FsSpec => []NoLockCycle
BY Inductive, NoCycle, PTL

\* ilock() never finds a free inode, nor unlink() one without links.
THEOREM FsNeverPanics ==
  PlainPaths /\ FsSpec => []NoPanic
BY Inductive, NothingPanics, PTL
=============================================================================
