-------------------------- MODULE HeapPagingProofs --------------------------
(* Proofs about HeapPaging, for every number of processes, slots, groups,  *)
(* blocks and pages.                                                       *)
EXTENDS HeapPaging, FiniteSetTheorems, TLAPS

USE DEF HeapBase, None, Slot, Page, Q, Group

(* The part of the inductive invariant that does not speak of contents.    *)
ProcOK(p) == AddrOK(p) /\ HandlerOK(p) /\ MappedOK(p) /\ ResidentOK(p)
Basic == TypeOK /\ \A p \in Procs : ProcOK(p)

-----------------------------------------------------------------------------
(* What the searches of the handler return.                                *)

(* Every search loop of the handler that keeps the best match so far is a  *)
(* CHOOSE of a least index in the model: it needs that there is one.       *)

(* A non-empty set of natural numbers has a least element.  The initial    *)
(* segments of the set are finite sets, and strict inclusion is            *)
(* well-founded on those.                                                  *)
THEOREM LeastNat ==
  ASSUME NEW S \in SUBSET Nat, S # {}
  PROVE  \E n \in S : \A m \in S : n <= m
<1> DEFINE Seg(n) == {m \in S : m <= n}
           Segs == {Seg(n) : n \in S}
           R == StrictSubsetOrdering(Nat)
<1>1. \A n \in S : Seg(n) \in FiniteSubsetsOf(Nat)
  <2> TAKE n \in S
  <2>1. Seg(n) \in SUBSET Nat /\ \A s \in Seg(n) : s <= n
    OBVIOUS
  <2>2. IsFiniteSet(Seg(n))
    <3> HIDE DEF Seg
    <3> QED BY <2>1, FS_BoundedSetOfNaturals
  <2> QED BY <2>1, <2>2 DEF FiniteSubsetsOf
<1>2. Segs \subseteq FiniteSubsetsOf(Nat) /\ Segs # {}
  BY <1>1
<1>3. IsWellFoundedOn(R, FiniteSubsetsOf(Nat))
  BY FS_StrictSubsetOrderingWellFounded
<1>4. \E X \in Segs : \A Y \in Segs : <<Y, X>> \notin R
  <2> HIDE DEF Segs, R
  <2> QED BY <1>2, <1>3, WFMin
<1>5. PICK n \in S : \A m \in S : <<Seg(m), Seg(n)>> \notin R
  BY <1>4
<1>6. ASSUME NEW m \in S, m < n PROVE FALSE
  <2>0. m \in Nat /\ n \in Nat /\ \A k \in S : k \in Nat
    OBVIOUS
  <2>a. \A k \in S : k <= m => k <= n
    BY <1>6, <2>0
  <2>b. n <= n /\ ~(n <= m)
    BY <1>6, <2>0
  <2>1. Seg(m) \subseteq Seg(n) /\ n \in Seg(n) /\ n \notin Seg(m)
    BY <2>a, <2>b
  <2>2. Seg(m) \in SUBSET Nat /\ Seg(n) \in SUBSET Nat
    OBVIOUS
  <2> HIDE DEF Seg
  <2>3. <<Seg(m), Seg(n)>> \in R
    BY <2>1, <2>2 DEF StrictSubsetOrdering
  <2> QED BY <2>3, <1>5
<1> QED BY <1>6

(* The search for blocks returns a group of the save area, and a free one  *)
(* if there is one.                                                        *)
LEMMA PickGroupChoice ==
  /\ PickGroup \in Group
  /\ (\E g \in Group : FreeGroup(g)) => FreeGroup(PickGroup)
<1>1. CASE \E g \in Group : FreeGroup(g)
  <2> DEFINE S == {g \in Group : FreeGroup(g)}
  <2>1. S \in SUBSET Nat /\ S # {}
    BY <1>1, ConstAssumption
  <2>2. \E n \in S : \A m \in S : n <= m
    <3> HIDE DEF S
    <3> QED BY <2>1, LeastNat
  <2>3. \E g \in Group : FreeGroup(g) /\ \A f \in Group : FreeGroup(f) => g <= f
    BY <2>2
  <2> QED BY <1>1, <2>3 DEF PickGroup
<1>2. CASE ~ \E g \in Group : FreeGroup(g)
  BY <1>2, ConstAssumption DEF PickGroup
<1> QED BY <1>1, <1>2

(* The tracker search finds a slot that has the faulting address.          *)
LEMMA SlotOfChoice ==
  ASSUME NEW p \in Procs, NEW a \in Int, Tracked(p, a)
  PROVE  SlotOf(p, a) \in Slot /\ addr[p][SlotOf(p, a)] = a
<1> DEFINE S == {s \in Slot : addr[p][s] = a}
<1>1. S \in SUBSET Nat /\ S # {}
  BY ConstAssumption DEF Tracked
<1>2. \E n \in S : \A m \in S : n <= m
  <2> HIDE DEF S
  <2> QED BY <1>1, LeastNat
<1>3. \E s \in Slot : addr[p][s] = a /\ \A t \in Slot : addr[p][t] = a => s <= t
  BY <1>2
<1> QED BY <1>3 DEF SlotOf

(* The victim search returns a loaded slot if there is one.                *)
LEMMA VictimChoice ==
  ASSUME TypeOK, NEW p \in Procs, LoadedSlots(p) # {}
  PROVE  Victim(p) \in LoadedSlots(p)
<1> DEFINE L == LoadedSlots(p)
           T == {time[p][s] + 1 : s \in L}
<1>1. L \in SUBSET Slot /\ \A s \in L : time[p][s] \in Nat \cup {-1}
  BY DEF TypeOK, LoadedSlots
<1>2. T \in SUBSET Nat /\ T # {}
  <2>1. \A s \in L : time[p][s] + 1 \in Nat
    BY <1>1
  <2> QED BY <2>1
<1>3. \E n \in T : \A m \in T : n <= m
  <2> HIDE DEF T
  <2> QED BY <1>2, LeastNat
<1>4. PICK s0 \in L : \A t \in L : time[p][s0] + 1 <= time[p][t] + 1
  BY <1>3
<1> DEFINE S == {s \in L : time[p][s] = time[p][s0]}
<1>5. S \in SUBSET Nat /\ S # {}
  BY <1>1, <1>4, ConstAssumption
<1>6. \E n \in S : \A m \in S : n <= m
  <2> HIDE DEF S
  <2> QED BY <1>5, LeastNat
<1>7. PICK s \in S : \A m \in S : s <= m
  BY <1>6
<1>8. \A t \in L : time[p][s] < time[p][t] \/ (time[p][s] = time[p][t] /\ s <= t)
  <2> TAKE t \in L
  <2>1. time[p][s] = time[p][s0] /\ time[p][s0] <= time[p][t]
    BY <1>1, <1>4, <1>7
  <2>2. CASE time[p][t] = time[p][s0]
    BY <2>1, <2>2, <1>7
  <2>3. CASE time[p][t] # time[p][s0]
    BY <2>1, <2>3, <1>1
  <2> QED BY <2>2, <2>3
<1>9. \E u \in LoadedSlots(p) : \A t \in LoadedSlots(p) :
         time[p][u] < time[p][t] \/ (time[p][u] = time[p][t] /\ u <= t)
  BY <1>7, <1>8
<1> QED BY <1>9 DEF Victim

(* Sets of slots are finite.                                               *)
LEMMA SlotsFinite ==
  ASSUME NEW S \in SUBSET Slot
  PROVE  IsFiniteSet(S) /\ Cardinality(S) \in Nat
<1>1. IsFiniteSet(Slot)
  BY FS_Interval, ConstAssumption
<1>2. IsFiniteSet(S)
  BY <1>1, FS_Subset
<1> QED BY <1>2, FS_CardinalityType

(* The page-table page an address falls in.                                *)
LEMMA TableIndexType ==
  ASSUME NEW a \in Page
  PROVE  a \div PerTable \in Int
BY ConstAssumption

(* A slot the tracker did not count as loaded adds one page.               *)
LEMMA OneMoreSlot ==
  ASSUME NEW S, NEW x, IsFiniteSet(S), x \notin S
  PROVE  Cardinality(S \cup {x}) = Cardinality(S) + 1
BY FS_AddElement

(* What the operations that only read or only panic leave alone.           *)
LEMMA ZeroPageType == ZeroPage \in PageData /\ Idle \in Handler
BY ConstAssumption DEF ZeroPage, PageData, Content, Idle, Handler

-----------------------------------------------------------------------------
(* The invariant holds initially and is kept by every action.              *)

LEMMA InitBasic == Init => Basic
<1> SUFFICES ASSUME Init PROVE Basic
  OBVIOUS
<1> USE ZeroPageType, ConstAssumption DEF Init
<1>1. TypeOK
  <2>1. NoSlot \in [Slot -> {-1}]
    BY DEF NoSlot
  <2>2. /\ addr \in [Procs -> [Slot -> Int]]
        /\ start \in [Procs -> [Slot -> Group \cup {None}]]
        /\ time \in [Procs -> [Slot -> Nat \cup {None}]]
    BY <2>1
  <2>3. /\ sz \in [Procs -> HeapBase .. MaxPage + 1]
        /\ ticks \in 0 .. MaxTick /\ execs \in 0 .. MaxExec
        /\ ver \in [Procs -> [Page -> 0 .. MaxVer]]
    OBVIOUS
  <2>4. /\ disk \in [Group -> [Q -> Content]]
        /\ mem \in [Procs -> [Page -> PageData]]
        /\ h \in [Procs -> Handler]
    BY DEF PageData
  <2>5. /\ pc \in [Procs -> {"user", "evict", "retrieve"}]
        /\ panic \in Panics
        /\ leaf \in [Procs -> SUBSET Int]
        /\ mapped \in [Procs -> SUBSET Page]
        /\ resident \in [Procs -> Int]
    BY DEF Panics
  <2> QED BY <2>2, <2>3, <2>4, <2>5 DEF TypeOK
<1>2. ASSUME NEW p \in Procs PROVE ProcOK(p)
  <2>1. LoadedSlots(p) = {} /\ resident[p] = 0 /\ pc[p] = "user" /\ mapped[p] = {}
    BY DEF LoadedSlots
  <2>2. Cardinality(LoadedSlots(p)) = 0
    BY <2>1, FS_EmptySet
  <2>3. AddrOK(p) /\ HandlerOK(p)
    BY DEF AddrOK, HandlerOK, NoSlot
  <2>4. MappedOK(p) /\ ResidentOK(p)
    BY <2>1, <2>2 DEF MappedOK, ResidentOK
  <2> QED BY <2>3, <2>4 DEF ProcOK
<1> QED BY <1>1, <1>2 DEF Basic

(* ProcOK is about one process: it stays true of a process whose tracker,  *)
(* page table and handler a step leaves alone.                             *)
LEMMA OtherProc ==
  ASSUME NEW r \in Procs, ProcOK(r),
         pc'[r] = pc[r], sz'[r] = sz[r], addr'[r] = addr[r],
         loaded'[r] = loaded[r], start'[r] = start[r],
         resident'[r] = resident[r], mapped'[r] = mapped[r], h'[r] = h[r]
  PROVE  ProcOK(r)'
<1>1. LoadedSlots(r)' = LoadedSlots(r)
  BY DEF LoadedSlots
<1>2. AddrOK(r)' /\ HandlerOK(r)'
  BY DEF ProcOK, AddrOK, HandlerOK
<1>3. MappedOK(r)'
  BY <1>1 DEF ProcOK, MappedOK
<1>4. ResidentOK(r)'
  BY <1>1 DEF ProcOK, ResidentOK
<1> QED BY <1>2, <1>3, <1>4 DEF ProcOK

(* A step that leaves the paging state alone.                              *)
LEMMA FrameBasic ==
  ASSUME Basic, TypeOK',
         UNCHANGED <<pc, sz, addr, loaded, start, resident, mapped, h>>
  PROVE  Basic'
BY OtherProc DEF Basic

(* A panic.                                                                *)
LEMMA PanicBasic ==
  ASSUME Basic, NEW why \in Panics, Panic(why)
  PROVE  Basic'
<1>1. TypeOK'
  BY DEF Basic, TypeOK, Panic, procVars
<1> QED BY <1>1, FrameBasic DEF Panic, procVars

(* The timer tick.                                                         *)
LEMMA TickBasic ==
  ASSUME Basic, Tick
  PROVE  Basic'
<1>0. ticks' \in 0 .. MaxTick
  BY ConstAssumption DEF Basic, TypeOK, Tick
<1>1. TypeOK'
  BY <1>0 DEF Basic, TypeOK, Tick, procVars
<1> QED BY <1>1, FrameBasic DEF Tick, procVars

(* A store of the program.                                                 *)
LEMMA StoreBasic ==
  ASSUME Basic, NEW p \in Procs, NEW a \in Page, Store(p, a)
  PROVE  Basic'
<1>0. ver \in [Procs -> [Page -> 0 .. MaxVer]] /\ ver[p][a] \in 0 .. MaxVer
  <2>1. ver \in [Procs -> [Page -> 0 .. MaxVer]]
    BY DEF Basic, TypeOK
  <2> QED BY <2>1
<1>1. ver[p][a] + 1 \in 1 .. MaxVer
  <2>1. ver[p][a] < MaxVer
    BY DEF Store
  <2> QED BY <1>0, <2>1, ConstAssumption
<1>2. [q \in Q |-> Data(p, a, q, ver[p][a] + 1)] \in PageData
  BY <1>1, ConstAssumption DEF PageData, Data, Content
<1>3. mem' \in [Procs -> [Page -> PageData]]
  BY <1>2 DEF Basic, TypeOK, Store
<1>4. ver' \in [Procs -> [Page -> 0 .. MaxVer]]
  BY <1>1 DEF Basic, TypeOK, Store
<1>5. TypeOK'
  BY <1>3, <1>4 DEF Basic, TypeOK, Store
<1> QED BY <1>5, FrameBasic DEF Store

(* A fault outside the heap.                                               *)
LEMMA SegFaultBasic ==
  ASSUME Basic, NEW p \in Procs, NEW a \in Page, NEW st \in BOOLEAN,
         NEW f \in {"ok", "missing", "bad"}, SegFault(p, a, st, f)
  PROVE  Basic'
<1>1. CASE \E why \in {"remap", "freed page table"} : Panic(why)
  BY <1>1, PanicBasic DEF Panics
<1>2. CASE ~ \E why \in {"remap", "freed page table"} : Panic(why)
  <2>1. TypeOK'
    BY <1>2 DEF Basic, TypeOK, SegFault
  <2> QED BY <1>2, <2>1, FrameBasic DEF SegFault
<1> QED BY <1>1, <1>2

(* exec().                                                                 *)
LEMMA ExecBasic ==
  ASSUME Basic, NEW p \in Procs, Exec(p)
  PROVE  Basic'
<1>1. CASE \E why \in {"uvmunmap: walk", "freewalk: leaf"} : Panic(why)
  BY <1>1, PanicBasic DEF Panics
<1>2. CASE ~ \E why \in {"uvmunmap: walk", "freewalk: leaf"} : Panic(why)
  <2> DEFINE NoneLoaded == [s \in Slot |-> FALSE]
  <2>1. /\ sz' = [sz EXCEPT ![p] = HeapBase]
        /\ seg' = [seg EXCEPT ![p] = FALSE]
        /\ addr' = [addr EXCEPT ![p] = NoSlot]
        /\ loaded' = [loaded EXCEPT ![p] = NoneLoaded]
        /\ start' = [start EXCEPT ![p] = NoSlot]
        /\ time' = [time EXCEPT ![p] = NoSlot]
        /\ resident' = [resident EXCEPT ![p] = 0]
        /\ mapped' = [mapped EXCEPT ![p] = {}]
        /\ leaf' = [leaf EXCEPT ![p] = {0}]
        /\ mem' = [mem EXCEPT ![p] = [a \in Page |-> ZeroPage]]
        /\ ver' = [ver EXCEPT ![p] = [a \in Page |-> 0]]
        /\ execs' = execs + 1 /\ execs < MaxExec
        /\ UNCHANGED <<pc, h, psa, disk, ticks, panic, clash>>
        /\ pc[p] = "user"
    BY <1>2 DEF Exec
  <2>2. /\ NoSlot \in [Slot -> Int] /\ NoSlot \in [Slot -> Group \cup {None}]
        /\ NoSlot \in [Slot -> Nat \cup {None}] /\ \A s \in Slot : NoSlot[s] = None
        /\ NoneLoaded \in [Slot -> BOOLEAN] /\ \A s \in Slot : NoneLoaded[s] = FALSE
        /\ [a \in Page |-> 0] \in [Page -> 0 .. MaxVer]
        /\ [a \in Page |-> ZeroPage] \in [Page -> PageData]
        /\ HeapBase \in HeapBase .. MaxPage + 1
    BY ZeroPageType, ConstAssumption DEF NoSlot
  <2> HIDE DEF NoneLoaded
  <2>3. TypeOK
    BY DEF Basic
  <2>4. TypeOK'
    <3>1. addr' \in [Procs -> [Slot -> Int]]
      BY <2>1, <2>2, <2>3 DEF TypeOK
    <3>2. start' \in [Procs -> [Slot -> Group \cup {None}]]
      BY <2>1, <2>2, <2>3 DEF TypeOK
    <3>3. time' \in [Procs -> [Slot -> Nat \cup {None}]]
      BY <2>1, <2>2, <2>3 DEF TypeOK
    <3>4. loaded' \in [Procs -> [Slot -> BOOLEAN]]
      BY <2>1, <2>2, <2>3 DEF TypeOK
    <3>5. sz' \in [Procs -> HeapBase .. MaxPage + 1]
      BY <2>1, <2>2, <2>3 DEF TypeOK
    <3>6. execs' \in 0 .. MaxExec
      BY <2>1, <2>3, ConstAssumption DEF TypeOK
    <3>7. ver' \in [Procs -> [Page -> 0 .. MaxVer]]
      BY <2>1, <2>2, <2>3 DEF TypeOK
    <3>8. mem' \in [Procs -> [Page -> PageData]]
      BY <2>1, <2>2, <2>3 DEF TypeOK
    <3>9. /\ leaf' \in [Procs -> SUBSET Int]
          /\ mapped' \in [Procs -> SUBSET Page]
          /\ resident' \in [Procs -> Int]
          /\ seg' \in [Procs -> BOOLEAN]
      BY <2>1, <2>3 DEF TypeOK
    <3> QED BY <2>1, <2>3, <3>1, <3>2, <3>3, <3>4, <3>5, <3>6, <3>7, <3>8, <3>9
            DEF TypeOK
  <2>5. ASSUME NEW r \in Procs PROVE ProcOK(r)'
    <3>1. CASE r # p
      BY <2>1, <2>3, <3>1, OtherProc DEF Basic, TypeOK
    <3>2. CASE r = p
      <4>1. /\ addr'[p] = NoSlot /\ loaded'[p] = NoneLoaded
            /\ mapped'[p] = {} /\ resident'[p] = 0 /\ pc'[p] = "user"
        BY <2>1, <2>3 DEF TypeOK
      <4>2. LoadedSlots(p)' = {}
        BY <2>2, <4>1 DEF LoadedSlots
      <4>3. Cardinality(LoadedSlots(p)') = 0
        BY <4>2, FS_EmptySet
      <4>4. AddrOK(p)' /\ HandlerOK(p)'
        BY <2>2, <4>1 DEF AddrOK, HandlerOK
      <4>5. MappedOK(p)'
        BY <4>1, <4>2 DEF MappedOK
      <4>6. ResidentOK(p)'
        BY <4>1, <4>3, ConstAssumption DEF ResidentOK
      <4> QED BY <3>2, <4>4, <4>5, <4>6 DEF ProcOK
    <3> QED BY <3>1, <3>2
  <2> QED BY <2>4, <2>5 DEF Basic
<1> QED BY <1>1, <1>2

(* track_heap gives out the lowest free slots: those it takes are free,    *)
(* and no free slot below one of them is left over.                        *)
LEMMA TakenLowest ==
  ASSUME NEW p \in Procs, NEW n \in Int
  PROVE  \A t \in TakenBy(p, n) : \A s \in FreeSlots(p) :
            s < t => s \in TakenBy(p, n)
<1> SUFFICES ASSUME NEW t \in TakenBy(p, n), NEW s \in FreeSlots(p), s < t
             PROVE  s \in TakenBy(p, n)
  OBVIOUS
<1> DEFINE Below(u) == {v \in FreeSlots(p) : v < u}
<1>1. FreeSlots(p) \in SUBSET Slot /\ t \in FreeSlots(p) /\ s \in Int /\ t \in Int
  BY DEF FreeSlots, TakenBy
<1>2. Below(s) \in SUBSET Below(t) /\ Below(t) \in SUBSET Slot
  <2>1. \A v \in FreeSlots(p) : v \in Int
    BY <1>1
  <2>2. \A v \in FreeSlots(p) : v < s => v < t
    BY <1>1, <2>1
  <2> QED BY <1>1, <2>2
<1>3. Cardinality(Below(t)) < n
  BY DEF TakenBy
<1> HIDE DEF Below
<1>4. IsFiniteSet(Below(t)) /\ Cardinality(Below(t)) \in Nat
  BY <1>2, SlotsFinite
<1>5. Below(s) \in SUBSET Slot
  BY <1>2
<1>6. Cardinality(Below(s)) \in Nat
  BY <1>5, SlotsFinite
<1>7. Cardinality(Below(s)) <= Cardinality(Below(t))
  BY <1>2, <1>4, FS_Subset
<1>8. Cardinality(Below(s)) < n
  BY <1>3, <1>4, <1>6, <1>7
<1> QED BY <1>8 DEF TakenBy, Below

(* sbrk().                                                                 *)
LEMMA SbrkBasic ==
  ASSUME Basic, NEW p \in Procs, NEW n \in SbrkPages, Sbrk(p, n)
  PROVE  Basic'
<1>0. n \in Int
  BY ConstAssumption
<1>1. CASE Panic("track_heap")
  BY <1>1, PanicBasic DEF Panics
<1>2. CASE ~Panic("track_heap")
  <2> DEFINE new == TakenBy(p, n)
             A == [s \in Slot |-> IF s \in new THEN SlotAddr(p, s) ELSE addr[p][s]]
             L == [s \in Slot |-> IF s \in new THEN FALSE ELSE loaded[p][s]]
             T == [s \in Slot |-> IF s \in new THEN None ELSE start[p][s]]
  <2>1. TypeOK /\ ProcOK(p)
    BY DEF Basic
  <2>2. /\ addr' = [addr EXCEPT ![p] = A]
        /\ loaded' = [loaded EXCEPT ![p] = L]
        /\ start' = [start EXCEPT ![p] = T]
        /\ sz' = [sz EXCEPT ![p] = sz[p] + n]
        /\ sz[p] + n <= MaxPage + 1 /\ ~(n <= 0) /\ pc[p] = "user"
        /\ UNCHANGED <<pc, seg, time, resident, mapped, leaf, mem, h, psa,
                       disk, ticks, execs, panic, ver, clash>>
    BY <1>2 DEF Sbrk
  <2>3. \A s \in new : s \in Slot /\ addr[p][s] = None
    BY DEF TakenBy, FreeSlots
  <2>4. \A t \in new : \A s \in Slot : s < t /\ addr[p][s] = None => s \in new
    BY <1>0, TakenLowest DEF FreeSlots
  <2> HIDE DEF new
  <2>5. /\ sz[p] \in HeapBase .. MaxPage + 1 /\ addr[p] \in [Slot -> Int]
        /\ loaded[p] \in [Slot -> BOOLEAN]
        /\ start[p] \in [Slot -> Group \cup {None}]
    BY <2>1 DEF TypeOK
  <2>6. /\ A \in [Slot -> Int] /\ L \in [Slot -> BOOLEAN]
        /\ T \in [Slot -> Group \cup {None}]
        /\ sz[p] + n \in HeapBase .. MaxPage + 1
    <3>1. \A s \in Slot : SlotAddr(p, s) \in Int
      BY <2>5, ConstAssumption DEF SlotAddr
    <3>2. A \in [Slot -> Int]
      BY <2>5, <3>1
    <3>3. sz[p] + n \in HeapBase .. MaxPage + 1
      BY <1>0, <2>2, <2>5, ConstAssumption
    <3> QED BY <2>5, <3>2, <3>3
  <2>7. \A s \in Slot :
          /\ s \in new => A[s] = sz[p] + s /\ L[s] = FALSE
          /\ s \notin new => A[s] = addr[p][s] /\ L[s] = loaded[p][s]
    BY DEF SlotAddr
  <2> HIDE DEF A, L, T
  <2>a. \A s \in Slot : s \in Nat /\ addr[p][s] \in Int
    BY <2>5, ConstAssumption
  <2>b. \A s \in Slot : addr[p][s] # None => /\ HeapBase <= addr[p][s]
                                             /\ addr[p][s] < sz[p] + s
    BY <2>1 DEF ProcOK, AddrOK
  <2>c. sz[p] \in Nat /\ sz[p] >= HeapBase /\ n \in Nat /\ n > 0
    BY <1>0, <2>2, <2>5, ConstAssumption
  <2>8. TypeOK'
    BY <2>1, <2>2, <2>6 DEF TypeOK
  <2>9. ASSUME NEW r \in Procs PROVE ProcOK(r)'
    <3>1. CASE r # p
      BY <2>1, <2>2, <3>1, OtherProc DEF Basic, TypeOK
    <3>2. CASE r = p
      <4>1. /\ addr'[p] = A /\ loaded'[p] = L /\ sz'[p] = sz[p] + n
            /\ mapped'[p] = mapped[p] /\ resident'[p] = resident[p]
            /\ pc'[p] = "user"
        BY <2>1, <2>2 DEF TypeOK
      <4>2. \A s \in Slot : L[s] = loaded[p][s]
        BY <2>1, <2>3, <2>5, <2>7 DEF ProcOK, AddrOK
      <4>3. LoadedSlots(p)' = LoadedSlots(p)
        BY <4>1, <4>2 DEF LoadedSlots
      <4>4. AddrOK(p)'
        <5>1. \A s \in Slot : A[s] # None => HeapBase <= A[s] /\ A[s] < sz[p] + n + s
          <6> TAKE s \in Slot
          <6> HAVE A[s] # None
          <6>2. CASE s \in new
            BY <2>7, <2>a, <2>c, <6>2
          <6>3. CASE s \notin new
            BY <2>7, <2>a, <2>b, <2>c, <6>3
          <6> QED BY <6>2, <6>3
        <5>2. \A s \in Slot : L[s] => A[s] # None
          BY <2>1, <2>3, <2>7, <4>2 DEF ProcOK, AddrOK
        <5>3. ASSUME NEW s \in Slot, NEW t \in Slot, s < t, A[t] # None
              PROVE  A[s] # None /\ A[s] < A[t]
          <6>1. CASE t \in new
            <7>2. CASE s \in new
              BY <2>7, <2>a, <2>c, <5>3, <6>1, <7>2
            <7>3. CASE s \notin new
              <8>1. addr[p][s] # None
                BY <2>4, <5>3, <6>1, <7>3
              <8> QED BY <2>7, <2>a, <2>b, <2>c, <5>3, <6>1, <7>3, <8>1
            <7> QED BY <7>2, <7>3
          <6>2. CASE t \notin new
            BY <2>1, <2>3, <2>5, <2>7, <5>3, <6>2 DEF ProcOK, AddrOK
          <6> QED BY <6>1, <6>2
        <5> QED BY <4>1, <5>1, <5>2, <5>3 DEF AddrOK
      <4>5. HandlerOK(p)'
        BY <4>1 DEF HandlerOK
      <4>6. \A s \in LoadedSlots(p) : A[s] = addr[p][s]
        BY <2>1, <2>3, <2>7 DEF LoadedSlots, ProcOK, AddrOK
      <4>7. MappedOK(p)'
        <5>1. mapped[p] = {addr[p][s] : s \in LoadedSlots(p)}
          BY <2>1 DEF ProcOK, MappedOK
        <5>2. mapped[p] = {A[s] : s \in LoadedSlots(p)}
          BY <5>1, <4>6
        <5> QED BY <4>1, <4>3, <5>2 DEF MappedOK
      <4>8. ResidentOK(p)'
        BY <2>1, <2>2, <4>1, <4>3 DEF ProcOK, ResidentOK
      <4> QED BY <3>2, <4>4, <4>5, <4>7, <4>8 DEF ProcOK
    <3> QED BY <3>1, <3>2
  <2> QED BY <2>8, <2>9 DEF Basic
<1> QED BY <1>1, <1>2

(* Mapping the faulting page, in an address space k that has room for it.  *)
LEMMA MapPageBasic ==
  ASSUME Basic, NEW p \in Procs, NEW s \in Slot, NEW from \in BOOLEAN, NEW k,
         MapPage(p, s, from, k), addr[p][s] \in Page,
         k.ld \in [Slot -> BOOLEAN], k.st \in [Slot -> Group \cup {None}],
         k.res \in Int, k.mp \in SUBSET Page, k.m \in [Page -> PageData],
         ~k.ld[s], from = (k.st[s] # None),
         \A u \in Slot : k.ld[u] => addr[p][u] # None,
         k.mp = {addr[p][u] : u \in {v \in Slot : k.ld[v]}},
         Cardinality({v \in Slot : k.ld[v]}) = k.res, k.res < MaxRes,
         psa' \in [Group -> [Q -> BOOLEAN]], disk' \in [Group -> [Q -> Content]],
         UNCHANGED <<sz, seg, addr, ticks, execs, panic, ver, clash>>
  PROVE  Basic'
<1> DEFINE a == addr[p][s]
           ld == [k.ld EXCEPT ![s] = TRUE]
           mp == k.mp \cup {a}
           m == [k.m EXCEPT ![a] = ZeroPage]
           hp == IF from THEN [Idle EXCEPT !.slot = s, !.from = TRUE] ELSE Idle
           res == Counted(k.res, from)
           pp == IF from THEN "retrieve" ELSE "user"
           lf == leaf[p] \cup {a \div PerTable}
<1>1. /\ loaded' = [loaded EXCEPT ![p] = ld]
      /\ start' = [start EXCEPT ![p] = k.st]
      /\ time' = [time EXCEPT ![p] = [time[p] EXCEPT ![s] = ticks]]
      /\ mapped' = [mapped EXCEPT ![p] = mp]
      /\ leaf' = [leaf EXCEPT ![p] = lf]
      /\ mem' = [mem EXCEPT ![p] = m]
      /\ resident' = [resident EXCEPT ![p] = res]
      /\ pc' = [pc EXCEPT ![p] = pp]
      /\ h' = [h EXCEPT ![p] = hp]
  BY DEF MapPage
<1>2. TypeOK
  BY DEF Basic
<1>3. /\ ld \in [Slot -> BOOLEAN] /\ mp \in SUBSET Page
      /\ m \in [Page -> PageData] /\ res \in Int
      /\ pp \in {"user", "evict", "retrieve"}
  BY ZeroPageType DEF Counted
<1>4. hp \in Handler /\ (from => hp.slot = s)
  BY ZeroPageType DEF Handler, Idle
<1>5. lf \in SUBSET Int
  <2>1. a \div PerTable \in Int
    BY TableIndexType
  <2> QED BY <1>2, <2>1 DEF TypeOK
<1>6. [time[p] EXCEPT ![s] = ticks] \in [Slot -> Nat \cup {None}]
  BY <1>2 DEF TypeOK
<1>7. /\ \A u \in Slot : ld[u] = (u = s \/ k.ld[u])
      /\ {v \in Slot : ld[v]} = {v \in Slot : k.ld[v]} \cup {s}
  OBVIOUS
<1>8. res = IF from THEN k.res ELSE k.res + 1
  BY DEF Counted
<1> HIDE DEF ld, mp, m, hp, res, lf
<1>9. TypeOK'
  <2>1. /\ loaded' \in [Procs -> [Slot -> BOOLEAN]]
        /\ start' \in [Procs -> [Slot -> Group \cup {None}]]
        /\ time' \in [Procs -> [Slot -> Nat \cup {None}]]
        /\ mapped' \in [Procs -> SUBSET Page]
    BY <1>1, <1>2, <1>3, <1>6 DEF TypeOK
  <2>2. /\ leaf' \in [Procs -> SUBSET Int]
        /\ mem' \in [Procs -> [Page -> PageData]]
        /\ resident' \in [Procs -> Int]
        /\ h' \in [Procs -> Handler]
    BY <1>1, <1>2, <1>3, <1>4, <1>5 DEF TypeOK
  <2>3. pc' \in [Procs -> {"user", "evict", "retrieve"}]
    BY <1>1, <1>2, <1>3 DEF TypeOK
  <2> QED BY <1>2, <2>1, <2>2, <2>3 DEF TypeOK
<1>10. ASSUME NEW r \in Procs PROVE ProcOK(r)'
  <2>1. CASE r # p
    BY <1>1, <1>2, <2>1, OtherProc DEF Basic, TypeOK
  <2>2. CASE r = p
    <3>1. /\ loaded'[p] = ld /\ start'[p] = k.st /\ mapped'[p] = mp
          /\ resident'[p] = res /\ pc'[p] = pp /\ h'[p] = hp
          /\ addr'[p] = addr[p] /\ sz'[p] = sz[p]
      BY <1>1, <1>2 DEF TypeOK
    <3>2. LoadedSlots(p)' = {v \in Slot : k.ld[v]} \cup {s}
      BY <1>7, <3>1 DEF LoadedSlots
    <3>3. AddrOK(p) /\ addr[p][s] # None
      BY ConstAssumption DEF Basic, ProcOK
    <3>4. AddrOK(p)'
      BY <1>7, <3>1, <3>3 DEF AddrOK
    <3>5. HandlerOK(p)'
      BY <1>4, <3>1 DEF HandlerOK
    <3>6. MappedOK(p)'
      <4>1. mp = {addr[p][u] : u \in {v \in Slot : k.ld[v]} \cup {s}}
        BY DEF mp
      <4>2. from => ld[hp.slot]
        BY <1>4, <1>7
      <4>3. pp # "evict" /\ (pp = "retrieve" => from)
        OBVIOUS
      <4> QED BY <3>1, <3>2, <4>1, <4>2, <4>3 DEF MappedOK
    <3>7. ResidentOK(p)'
      <4> DEFINE K == {v \in Slot : k.ld[v]}
      <4>1. IsFiniteSet(K) /\ s \notin K
        BY SlotsFinite
      <4>2. Cardinality(K \cup {s}) = k.res + 1
        <5>1. Cardinality(K) = k.res
          OBVIOUS
        <5> HIDE DEF K
        <5>2. Cardinality(K \cup {s}) = Cardinality(K) + 1
          BY <4>1, OneMoreSlot, Zenon
        <5> QED BY <5>1, <5>2, Zenon
      <4>3. Cardinality(LoadedSlots(p)') = k.res + 1
        BY <3>2, <4>2
      <4>4. pc'[p] = "retrieve" <=> from
        BY <3>1
      <4> HIDE DEF pp
      <4>5. CASE from
        BY <1>8, <3>1, <4>3, <4>4, <4>5, ConstAssumption DEF ResidentOK
      <4>6. CASE ~from
        BY <1>8, <3>1, <4>3, <4>4, <4>6, ConstAssumption DEF ResidentOK
      <4> QED BY <4>5, <4>6
    <3> QED BY <2>2, <3>4, <3>5, <3>6, <3>7 DEF ProcOK
  <2> QED BY <2>1, <2>2
<1> QED BY <1>9, <1>10 DEF Basic

(* A page outside the page table has a slot that is not loaded.            *)
LEMMA FaultSlot ==
  ASSUME Basic, NEW p \in Procs, NEW a \in Page, a \notin mapped[p], Tracked(p, a)
  PROVE  /\ SlotOf(p, a) \in Slot /\ addr[p][SlotOf(p, a)] = a
         /\ ~loaded[p][SlotOf(p, a)]
<1>1. SlotOf(p, a) \in Slot /\ addr[p][SlotOf(p, a)] = a
  BY SlotOfChoice
<1>2. mapped[p] = {addr[p][u] : u \in LoadedSlots(p)}
  BY DEF Basic, ProcOK, MappedOK
<1> QED BY <1>1, <1>2 DEF LoadedSlots

(* When the limit is reached there is a victim, and its page is mapped.    *)
LEMMA VictimLoaded ==
  ASSUME Basic, NEW p \in Procs, pc[p] = "user", resident[p] = MaxRes
  PROVE  /\ Victim(p) \in Slot /\ loaded[p][Victim(p)]
         /\ addr[p][Victim(p)] \in mapped[p]
<1>1. LoadedSlots(p) \in SUBSET Slot
  BY DEF LoadedSlots
<1>2. Cardinality(LoadedSlots(p)) = MaxRes
  BY ConstAssumption DEF Basic, ProcOK, ResidentOK
<1>3. LoadedSlots(p) # {}
  BY <1>2, FS_EmptySet, ConstAssumption
<1>4. Victim(p) \in LoadedSlots(p)
  BY <1>3, VictimChoice DEF Basic
<1>5. mapped[p] = {addr[p][u] : u \in LoadedSlots(p)}
  BY DEF Basic, ProcOK, MappedOK
<1> QED BY <1>4, <1>5 DEF LoadedSlots

(* A fault on a heap page.                                                 *)
LEMMA HeapFaultBasic ==
  ASSUME Basic, NEW p \in Procs, NEW a \in Page, HeapFault(p, a)
  PROVE  Basic'
<1> DEFINE s == SlotOf(p, a)
           from == FromDisk(p, s)
           k == Space(p)
<1>0. TypeOK /\ ProcOK(p) /\ pc[p] = "user"
  BY DEF Basic, HeapFault
<1>1. s \in Slot /\ addr[p][s] = a /\ ~loaded[p][s]
  BY FaultSlot DEF HeapFault
<1>2. from \in BOOLEAN /\ from = (start[p][s] # None)
  BY DEF FromDisk
<1>3. CASE resident[p] # MaxRes
  <2>1. /\ MapPage(p, s, from, k)
        /\ UNCHANGED <<sz, seg, addr, psa, disk, ticks, execs, panic, ver, clash>>
    BY <1>3 DEF HeapFault
  <2>2. /\ k.ld = loaded[p] /\ k.st = start[p] /\ k.res = resident[p]
        /\ k.mp = mapped[p] /\ k.m = mem[p]
    BY DEF Space
  <2>3. LoadedSlots(p) = {v \in Slot : loaded[p][v]}
    BY DEF LoadedSlots
  <2> HIDE DEF s, from, k
  <2>4. /\ k.ld \in [Slot -> BOOLEAN] /\ k.st \in [Slot -> Group \cup {None}]
        /\ k.res \in Int /\ k.mp \in SUBSET Page /\ k.m \in [Page -> PageData]
    BY <1>0, <2>2 DEF TypeOK
  <2>5. /\ ~k.ld[s] /\ from = (k.st[s] # None)
        /\ \A u \in Slot : k.ld[u] => addr[p][u] # None
        /\ k.mp = {addr[p][u] : u \in {v \in Slot : k.ld[v]}}
    BY <1>0, <1>1, <1>2, <2>2, <2>3 DEF ProcOK, AddrOK, MappedOK
  <2>6. Cardinality({v \in Slot : k.ld[v]}) = k.res /\ k.res < MaxRes
    <3>1. Cardinality(LoadedSlots(p)) = resident[p] /\ resident[p] <= MaxRes
      BY <1>0, ConstAssumption DEF ProcOK, ResidentOK, TypeOK
    <3>2. resident[p] < MaxRes
      BY <1>0, <1>3, <3>1, ConstAssumption DEF TypeOK
    <3> QED BY <2>2, <2>3, <3>1, <3>2
  <2>7. psa' \in [Group -> [Q -> BOOLEAN]] /\ disk' \in [Group -> [Q -> Content]]
    BY <1>0, <2>1 DEF TypeOK
  <2> QED BY <1>1, <1>2, <2>1, <2>4, <2>5, <2>6, <2>7, MapPageBasic
<1>4. CASE resident[p] = MaxRes
  <2> DEFINE hp == [slot |-> s, from |-> from, victim |-> Victim(p),
                    grp |-> PickGroup, i |-> 0,
                    buf |-> mem[p][addr[p][Victim(p)]]]
  <2>1. /\ pc' = [pc EXCEPT ![p] = "evict"]
        /\ h' = [h EXCEPT ![p] = hp]
        /\ clash' \in BOOLEAN
        /\ UNCHANGED <<sz, seg, addr, loaded, start, time, resident, mapped,
                       leaf, mem, psa, disk, ticks, execs, panic, ver>>
    BY <1>4 DEF HeapFault, procVars
  <2>2. /\ Victim(p) \in Slot /\ loaded[p][Victim(p)]
        /\ addr[p][Victim(p)] \in Page
    BY <1>0, <1>4, VictimLoaded DEF TypeOK
  <2>3. PickGroup \in Group /\ 0 \in Q
    BY PickGroupChoice, ConstAssumption
  <2>4. mem[p][addr[p][Victim(p)]] \in PageData
    <3>1. mem \in [Procs -> [Page -> PageData]]
      BY <1>0 DEF TypeOK
    <3> QED BY <2>2, <3>1
  <2>5. hp \in Handler /\ hp.slot = s /\ hp.victim = Victim(p) /\ hp.from = from
    BY <1>1, <1>2, <2>2, <2>3, <2>4 DEF Handler
  <2> HIDE DEF hp, s, from
  <2>6. TypeOK'
    BY <1>0, <2>1, <2>5 DEF TypeOK
  <2>7. ASSUME NEW r \in Procs PROVE ProcOK(r)'
    <3>1. CASE r # p
      BY <1>0, <2>1, <3>1, OtherProc DEF Basic, TypeOK
    <3>2. CASE r = p
      <4>1. pc'[p] = "evict" /\ h'[p] = hp
        BY <1>0, <2>1 DEF TypeOK
      <4>2. LoadedSlots(p)' = LoadedSlots(p)
        BY <2>1 DEF LoadedSlots
      <4>3. AddrOK(p)'
        BY <1>0, <2>1 DEF ProcOK, AddrOK
      <4>4. HandlerOK(p)'
        BY <1>1, <1>2, <1>4, <2>1, <2>5, <4>1 DEF HandlerOK
      <4>5. MappedOK(p)'
        BY <1>0, <1>1, <2>1, <2>2, <2>5, <4>1, <4>2 DEF ProcOK, MappedOK
      <4>6. ResidentOK(p)'
        BY <1>0, <2>1, <4>1, <4>2 DEF ProcOK, ResidentOK
      <4> QED BY <3>2, <4>3, <4>4, <4>5, <4>6 DEF ProcOK
    <3> QED BY <3>1, <3>2
  <2> QED BY <2>6, <2>7 DEF Basic
<1> QED BY <1>3, <1>4

(* One block of an eviction.                                               *)
LEMMA EvictBasic ==
  ASSUME Basic, NEW p \in Procs, EvictStep(p)
  PROVE  Basic'
<1> DEFINE g == h[p].grp
           i == h[p].i
           s == h[p].slot
           v == h[p].victim
           from == h[p].from
           k == SpaceAfterEvict(p)
<1>0. TypeOK /\ ProcOK(p) /\ pc[p] = "evict"
  BY DEF Basic, EvictStep
<1>1. h[p] \in Handler
  BY <1>0 DEF TypeOK
<1>2. g \in Group /\ i \in Q /\ s \in Slot /\ v \in Slot /\ from \in BOOLEAN
  BY <1>1 DEF Handler
<1>3. 0 \in Q /\ h[p].buf \in PageData
  BY <1>1, ConstAssumption DEF Handler
<1>4. disk' = [disk EXCEPT ![g] = [disk[g] EXCEPT ![0] = h[p].buf[0]]]
  BY DEF EvictStep, EvictBlock
<1>5. disk' \in [Group -> [Q -> Content]]
  <2>1. disk \in [Group -> [Q -> Content]]
    BY <1>0 DEF TypeOK
  <2> QED BY <1>2, <1>3, <1>4, <2>1 DEF PageData
<1>6. psa' \in [Group -> [Q -> BOOLEAN]]
  <2>1. psa \in [Group -> [Q -> BOOLEAN]]
    BY <1>0 DEF TypeOK
  <2>2. psa' = [psa EXCEPT ![g] = [psa[g] EXCEPT ![i] = TRUE]]
    BY DEF EvictStep, MarkUsed
  <2> QED BY <1>2, <2>1, <2>2
<1>7. UNCHANGED <<ticks, execs, panic, ver, clash>>
  BY DEF EvictStep
<1>8. CASE i < BPP - 1
  <2> DEFINE hp == [h[p] EXCEPT !.i = NextBlock(i)]
  <2>1. h' = [h EXCEPT ![p] = hp] /\ UNCHANGED <<pc, procVars>>
    BY <1>2, <1>8, ConstAssumption DEF EvictStep
  <2>2. i + 1 \in Q
    BY <1>2, <1>8, ConstAssumption
  <2>3. hp \in Handler /\ hp.slot = s /\ hp.victim = v /\ hp.from = from
    BY <1>1, <2>2 DEF Handler, NextBlock
  <2> HIDE DEF hp
  <2>4. TypeOK'
    BY <1>0, <1>5, <1>6, <1>7, <2>1, <2>3 DEF TypeOK, procVars
  <2>5. ASSUME NEW r \in Procs PROVE ProcOK(r)'
    <3>1. CASE r # p
      BY <1>0, <2>1, <3>1, OtherProc DEF Basic, TypeOK, procVars
    <3>2. CASE r = p
      <4>1. h'[p] = hp /\ UNCHANGED <<pc, sz, addr, loaded, start, resident, mapped>>
        BY <1>0, <2>1 DEF TypeOK, procVars
      <4>2. LoadedSlots(p)' = LoadedSlots(p)
        BY <4>1 DEF LoadedSlots
      <4>3. AddrOK(p)'
        BY <1>0, <4>1 DEF ProcOK, AddrOK
      <4>4. HandlerOK(p)'
        BY <1>0, <2>3, <4>1 DEF ProcOK, HandlerOK
      <4>5. MappedOK(p)'
        BY <1>0, <2>3, <4>1, <4>2 DEF ProcOK, MappedOK
      <4>6. ResidentOK(p)'
        BY <1>0, <4>1, <4>2 DEF ProcOK, ResidentOK
      <4> QED BY <3>2, <4>3, <4>4, <4>5, <4>6 DEF ProcOK
    <3> QED BY <3>1, <3>2
  <2> QED BY <2>4, <2>5 DEF Basic
<1>9. CASE ~(i < BPP - 1)
  <2>1. MapPage(p, s, from, k) /\ UNCHANGED <<sz, seg, addr>>
    BY <1>9 DEF EvictStep
  <2>2. /\ k.ld = [loaded[p] EXCEPT ![v] = FALSE]
        /\ k.st = [start[p] EXCEPT ![v] = g]
        /\ k.res = resident[p] - 1
        /\ k.mp = mapped[p] \ {addr[p][v]}
        /\ k.m = [mem[p] EXCEPT ![addr[p][v]] = ZeroPage]
    BY DEF SpaceAfterEvict
  <2>3. /\ loaded[p][v] /\ ~loaded[p][s] /\ s # v
        /\ addr[p][s] \in Page /\ from = (start[p][s] # None)
        /\ resident[p] = MaxRes
        /\ mapped[p] = {addr[p][u] : u \in LoadedSlots(p)}
    BY <1>0 DEF ProcOK, MappedOK, HandlerOK
  <2> HIDE DEF k, g, i, s, v, from
  <2>4. /\ loaded[p] \in [Slot -> BOOLEAN]
        /\ start[p] \in [Slot -> Group \cup {None}]
        /\ resident[p] \in Int /\ mapped[p] \in SUBSET Page
        /\ mem[p] \in [Page -> PageData]
    BY <1>0 DEF TypeOK
  <2>5. /\ k.ld \in [Slot -> BOOLEAN] /\ k.st \in [Slot -> Group \cup {None}]
        /\ k.res \in Int /\ k.mp \in SUBSET Page
    BY <1>2, <2>2, <2>4
  <2>6. k.m \in [Page -> PageData]
    <3>1. [mem[p] EXCEPT ![addr[p][v]] = ZeroPage] \in [Page -> PageData]
      BY <2>4, ZeroPageType
    <3> QED BY <2>2, <3>1
  <2>7. /\ ~k.ld[s] /\ from = (k.st[s] # None)
        /\ \A u \in Slot : k.ld[u] = (u # v /\ loaded[p][u])
    <3>1. k.ld[s] = loaded[p][s] /\ k.st[s] = start[p][s]
      BY <1>2, <2>2, <2>3, <2>4
    <3>2. \A u \in Slot : u # v => k.ld[u] = loaded[p][u]
      BY <1>2, <2>2, <2>4
    <3>3. k.ld[v] = FALSE
      BY <1>2, <2>2, <2>4
    <3>4. \A u \in Slot : k.ld[u] = (u # v /\ loaded[p][u])
      BY <2>4, <2>5, <3>2, <3>3
    <3> QED BY <2>3, <3>1, <3>4
  <2>8. \A u \in Slot : k.ld[u] => addr[p][u] # None
    BY <1>0, <2>7 DEF ProcOK, AddrOK
  <2> DEFINE K == {u \in Slot : k.ld[u]}
  <2>9. K = LoadedSlots(p) \ {v} /\ v \in LoadedSlots(p)
    BY <1>2, <2>3, <2>7 DEF LoadedSlots
  <2>10. \A u, w \in LoadedSlots(p) : addr[p][u] = addr[p][w] => u = w
    <3> SUFFICES ASSUME NEW u \in LoadedSlots(p), NEW w \in LoadedSlots(p),
                        addr[p][u] = addr[p][w], u # w
                 PROVE  FALSE
      OBVIOUS
    <3>1. /\ u \in Slot /\ w \in Slot
          /\ addr[p][u] # None /\ addr[p][w] # None
          /\ u < w => addr[p][u] < addr[p][w]
          /\ w < u => addr[p][w] < addr[p][u]
      BY <1>0 DEF LoadedSlots, ProcOK, AddrOK
    <3>2. addr \in [Procs -> [Slot -> Int]]
      BY <1>0 DEF TypeOK
    <3>3. addr[p][u] \in Int /\ addr[p][w] \in Int
      BY <3>1, <3>2
    <3>4. u < w \/ w < u
      BY <3>1, ConstAssumption
    <3> QED BY <3>1, <3>3, <3>4
  <2>11. k.mp = {addr[p][u] : u \in K}
    <3>1. k.mp = {addr[p][u] : u \in LoadedSlots(p)} \ {addr[p][v]}
      BY <2>2, <2>3
    <3> QED BY <2>9, <2>10, <3>1
  <2>12. Cardinality(K) = k.res /\ k.res < MaxRes
    <3>1. Cardinality(LoadedSlots(p)) = resident[p]
      BY <1>0, <2>4 DEF ProcOK, ResidentOK
    <3>2. LoadedSlots(p) \in SUBSET Slot
      BY DEF LoadedSlots
    <3>3. IsFiniteSet(LoadedSlots(p))
      BY <3>2, SlotsFinite
    <3>4. Cardinality(LoadedSlots(p) \ {v}) = resident[p] - 1
      BY <2>9, <3>1, <3>3, FS_RemoveElement
    <3>5. Cardinality(K) = k.res
      BY <2>2, <2>9, <3>4
    <3>6. k.res < MaxRes
      BY <2>2, <2>3, ConstAssumption
    <3> QED BY <3>5, <3>6
  <2>13. UNCHANGED <<sz, seg, addr, ticks, execs, panic, ver, clash>>
    BY <1>7, <2>1
  <2>14. k.mp = {addr[p][u] : u \in {w \in Slot : k.ld[w]}}
    BY <2>11
  <2>15. Cardinality({w \in Slot : k.ld[w]}) = k.res /\ k.res < MaxRes
    BY <2>12
  <2>16. ~k.ld[s] /\ from = (k.st[s] # None)
    BY <2>7
  <2>17. s \in Slot /\ from \in BOOLEAN /\ addr[p][s] \in Page
    BY <1>2, <2>3
  <2>18. MapPage(p, s, from, k)
    BY <2>1
  <2> QED BY <1>5, <1>6, <2>5, <2>6, <2>8, <2>13, <2>14, <2>15, <2>16, <2>17,
             <2>18, MapPageBasic
<1> QED BY <1>8, <1>9

(* One block of a retrieval.                                               *)
LEMMA RetrieveBasic ==
  ASSUME Basic, NEW p \in Procs, RetrieveStep(p)
  PROVE  Basic'
<1> DEFINE s == h[p].slot
           i == h[p].i
           g == start[p][s]
           buf == [h[p].buf EXCEPT ![i] = disk[g][i]]
<1>0. TypeOK /\ ProcOK(p) /\ pc[p] = "retrieve"
  BY DEF Basic, RetrieveStep
<1>1. h[p] \in Handler
  BY <1>0 DEF TypeOK
<1>2. i \in Q /\ s \in Slot /\ h[p].buf \in PageData /\ h[p].victim \in Slot
  BY <1>1 DEF Handler
<1>3. g \in Group /\ loaded[p][s]
  <2>1. start \in [Procs -> [Slot -> Group \cup {None}]]
    BY <1>0 DEF TypeOK
  <2>2. start[p][s] \in Group \cup {None}
    BY <1>2, <2>1
  <2>3. start[p][s] # None /\ loaded[p][s]
    BY <1>0 DEF ProcOK, HandlerOK, MappedOK
  <2> QED BY <2>2, <2>3
<1>4. addr[p][s] \in Page
  BY <1>0, <1>2, <1>3 DEF ProcOK, MappedOK, LoadedSlots, TypeOK
<1>5. buf \in PageData
  <2>1. disk \in [Group -> [Q -> Content]]
    BY <1>0 DEF TypeOK
  <2> QED BY <1>2, <1>3, <2>1 DEF PageData
<1>6. psa' \in [Group -> [Q -> BOOLEAN]]
  <2>1. psa \in [Group -> [Q -> BOOLEAN]]
    BY <1>0 DEF TypeOK
  <2>2. psa' = [psa EXCEPT ![g] = [psa[g] EXCEPT ![i] = FALSE]]
    BY DEF RetrieveStep
  <2> QED BY <1>2, <1>3, <2>1, <2>2
<1>7. UNCHANGED <<sz, seg, addr, loaded, start, time, mapped, leaf, disk, ticks,
                  execs, panic, ver, clash>>
  BY DEF RetrieveStep
<1>8. LoadedSlots(p)' = LoadedSlots(p) /\ AddrOK(p)'
  BY <1>0, <1>7 DEF LoadedSlots, ProcOK, AddrOK
<1>9. CASE i < BPP - 1
  <2> DEFINE hp == [h[p] EXCEPT !.i = NextBlock(i), !.buf = buf]
  <2>0. /\ h' = [h EXCEPT ![p].i = NextBlock(@), ![p].buf = buf]
        /\ UNCHANGED <<pc, mem, resident>>
    <3>1. i # BPP - 1
      BY <1>2, <1>9, ConstAssumption
    <3> QED BY <3>1, Zenon DEF RetrieveStep
  <2>1. h' = [h EXCEPT ![p] = hp] /\ UNCHANGED <<pc, mem, resident>>
    <3> HIDE DEF buf
    <3>1. h \in [Procs -> Handler]
      BY <1>0 DEF TypeOK
    <3> QED BY <2>0, <3>1
  <2>2. i + 1 \in Q
    BY <1>2, <1>9, ConstAssumption
  <2>3. hp \in Handler /\ hp.slot = s
    BY <1>1, <1>5, <2>2 DEF Handler, NextBlock
  <2> HIDE DEF hp
  <2>4. TypeOK'
    BY <1>0, <1>6, <1>7, <2>1, <2>3 DEF TypeOK
  <2>5. ASSUME NEW r \in Procs PROVE ProcOK(r)'
    <3>1. CASE r # p
      BY <1>0, <1>7, <2>1, <3>1, OtherProc DEF Basic, TypeOK
    <3>2. CASE r = p
      <4>1. h'[p] = hp
        BY <1>0, <2>1 DEF TypeOK
      <4>2. HandlerOK(p)' /\ MappedOK(p)'
        BY <1>0, <1>7, <1>8, <2>1, <2>3, <4>1 DEF ProcOK, HandlerOK, MappedOK
      <4>3. ResidentOK(p)'
        BY <1>0, <1>8, <2>1 DEF ProcOK, ResidentOK
      <4> QED BY <1>8, <3>2, <4>2, <4>3 DEF ProcOK
    <3> QED BY <3>1, <3>2
  <2> QED BY <2>4, <2>5 DEF Basic
<1>10. CASE ~(i < BPP - 1)
  <2>1. /\ mem' = [mem EXCEPT ![p] = [mem[p] EXCEPT ![addr[p][s]] = buf]]
        /\ resident' = [resident EXCEPT ![p] = resident[p] + 1]
        /\ pc' = [pc EXCEPT ![p] = "user"]
        /\ h' = [h EXCEPT ![p] = Idle]
    BY <1>10 DEF RetrieveStep
  <2> HIDE DEF buf
  <2>2. mem' \in [Procs -> [Page -> PageData]]
    <3>1. mem \in [Procs -> [Page -> PageData]]
      BY <1>0 DEF TypeOK
    <3> QED BY <1>4, <1>5, <2>1, <3>1
  <2>3. TypeOK'
    BY <1>0, <1>6, <1>7, <2>1, <2>2, ZeroPageType DEF TypeOK
  <2>4. ASSUME NEW r \in Procs PROVE ProcOK(r)'
    <3>1. CASE r # p
      BY <1>0, <1>7, <2>1, <3>1, OtherProc DEF Basic, TypeOK
    <3>2. CASE r = p
      <4>1. pc'[p] = "user" /\ resident'[p] = resident[p] + 1
        BY <1>0, <2>1 DEF TypeOK
      <4>2. HandlerOK(p)' /\ MappedOK(p)'
        BY <1>0, <1>7, <1>8, <4>1 DEF ProcOK, HandlerOK, MappedOK
      <4>3. ResidentOK(p)'
        BY <1>0, <1>8, <4>1 DEF ProcOK, ResidentOK, TypeOK
      <4> QED BY <1>8, <3>2, <4>2, <4>3 DEF ProcOK
    <3> QED BY <3>1, <3>2
  <2> QED BY <2>3, <2>4 DEF Basic
<1> QED BY <1>9, <1>10

(* Every step keeps the invariant.                                         *)
LEMMA NextBasic ==
  ASSUME Basic, [Next]_vars
  PROVE  Basic'
<1>1. ASSUME NEW p \in Procs, NEW n \in SbrkPages, Sbrk(p, n)
      PROVE  Basic'
  BY <1>1, SbrkBasic
<1>2. ASSUME NEW p \in Procs, NEW a \in Page,
             Store(p, a) \/ HeapFault(p, a) \/ HeapFaultNoMem(p, a)
      PROVE  Basic'
  <2>1. CASE Store(p, a)
    BY <2>1, StoreBasic
  <2>2. CASE HeapFault(p, a)
    BY <2>2, HeapFaultBasic
  <2>3. CASE HeapFaultNoMem(p, a)
    BY <2>3, PanicBasic DEF HeapFaultNoMem, Panics
  <2> QED BY <1>2, <2>1, <2>2, <2>3
<1>3. ASSUME NEW p \in Procs, NEW a \in Page, NEW st \in BOOLEAN,
             NEW f \in {"ok", "missing", "bad"}, SegFault(p, a, st, f)
      PROVE  Basic'
  BY <1>3, SegFaultBasic
<1>4. ASSUME NEW p \in Procs, EvictStep(p) \/ EvictNoMem(p) \/ RetrieveStep(p)
      PROVE  Basic'
  <2>1. CASE EvictStep(p)
    BY <2>1, EvictBasic
  <2>2. CASE EvictNoMem(p)
    BY <2>2, PanicBasic DEF EvictNoMem, Panics
  <2>3. CASE RetrieveStep(p)
    BY <2>3, RetrieveBasic
  <2> QED BY <1>4, <2>1, <2>2, <2>3
<1>5. ASSUME NEW p \in Procs, Exec(p)
      PROVE  Basic'
  BY <1>5, ExecBasic
<1>6. CASE Tick
  BY <1>6, TickBasic
<1>7. CASE UNCHANGED vars
  <2>1. TypeOK'
    BY <1>7 DEF Basic, TypeOK, vars
  <2> QED BY <1>7, <2>1, FrameBasic DEF vars
<1> QED BY <1>1, <1>2, <1>3, <1>4, <1>5, <1>6, <1>7 DEF Next, Halted

(* Basic is an invariant of the paging code.                               *)
THEOREM BasicInvariant == Spec => []Basic
<1>1. Init => Basic
  BY InitBasic
<1>2. Basic /\ [Next]_vars => Basic'
  BY NextBasic
<1> QED BY <1>1, <1>2, PTL DEF Spec

(* Every tracker index, block group and counter the handler computes stays *)
(* in its range, whatever the sizes of the tracker and the save area.      *)
THEOREM TypeCorrect == Spec => []TypeOK
<1>1. Basic => TypeOK
  BY DEF Basic
<1> QED BY <1>1, BasicInvariant, PTL

(* resident_heap_pages counts the loaded pages, and never more than        *)
(* MAXRESHEAP heap pages of a process are in memory, whatever the limits.  *)
THEOREM ResidentCorrect == Spec => []ResidentAccounting
<1>1. Basic => ResidentAccounting
  BY DEF Basic, ProcOK, ResidentAccounting
<1> QED BY <1>1, BasicInvariant, PTL

(* The tracker and the page table agree wherever another process can run.  *)
THEOREM MappedCorrect == Spec => []MappedIffLoaded
<1>1. Basic => MappedIffLoaded
  BY DEF Basic, ProcOK, MappedIffLoaded
<1> QED BY <1>1, BasicInvariant, PTL

-----------------------------------------------------------------------------
(* Groups of blocks: who holds one, who fills one, which blocks are marked. *)

SwapInv == MarkInv /\ SwapPairs

(* Block q of group g still holds the page of slot s of p.                 *)
Keeps(p, s, g, q) ==
  Holds(p, s, g) /\ (pc[p] = "retrieve" /\ h[p].slot = s => q >= h[p].i)

(* p has written block q of the group g it is filling.                     *)
Filled(p, g, q) == InFlight(p, g) /\ q < h[p].i

(* The invariant in these words.                                           *)
LEMMA MarkWords ==
  MarkInv <=> (~clash =>
    \A p \in Procs, g \in Group, q \in Q :
      /\ \A s \in Slot : Keeps(p, s, g, q) => psa[g][q]
      /\ Filled(p, g, q) => psa[g][q])
BY DEF MarkInv, Keeps, Filled

(* A held group is not free: its last block is marked until the end.       *)
LEMMA HeldMarked ==
  ASSUME Basic, MarkInv, ~clash, NEW p \in Procs, NEW s \in Slot, NEW g \in Group,
         Holds(p, s, g)
  PROVE  ~FreeGroup(g)
<1>1. BPP - 1 \in Q
  BY ConstAssumption
<1>2. h[p].i \in Q
  BY DEF Basic, TypeOK, Handler
<1>3. BPP - 1 >= h[p].i
  BY <1>2, ConstAssumption
<1>4. Keeps(p, s, g, BPP - 1)
  BY <1>3 DEF Keeps
<1>5. psa[g][BPP - 1]
  BY <1>1, <1>4, MarkWords
<1> QED BY <1>1, <1>5 DEF FreeGroup

(* A step after which nobody holds or fills more than before, and every    *)
(* mark is still there.                                                    *)
LEMMA FewerSwap ==
  ASSUME SwapInv, clash' \/ ~clash,
         \A g \in Group, q \in Q : psa[g][q] => psa'[g][q],
         \A r \in Procs, g \in Group :
           /\ InFlight(r, g)' => InFlight(r, g)
           /\ \A q \in Q : Filled(r, g, q)' => Filled(r, g, q) \/ psa'[g][q],
         \A r \in Procs, g \in Group, s \in Slot :
           /\ Holds(r, s, g)' => Holds(r, s, g)
           /\ \A q \in Q : Keeps(r, s, g, q)' => Keeps(r, s, g, q)
  PROVE  SwapInv'
<1>1. SwapPairs'
  BY DEF SwapInv, SwapPairs
<1>2. ASSUME ~clash', NEW p \in Procs, NEW g \in Group, NEW q \in Q
      PROVE  /\ \A s \in Slot : Keeps(p, s, g, q)' => psa'[g][q]
             /\ Filled(p, g, q)' => psa'[g][q]
  BY <1>2, MarkWords DEF SwapInv
<1>3. MarkInv'
  BY <1>2 DEF MarkInv, Keeps, Filled
<1> QED BY <1>1, <1>3 DEF SwapInv

(* The swap state of a process whose tracker and handler do not change.    *)
LEMMA SameSwap ==
  ASSUME NEW r \in Procs, pc'[r] = pc[r], addr'[r] = addr[r],
         loaded'[r] = loaded[r], start'[r] = start[r], h'[r] = h[r],
         NEW g \in Group
  PROVE  /\ InFlight(r, g)' <=> InFlight(r, g)
         /\ \A q \in Q : Filled(r, g, q)' <=> Filled(r, g, q)
         /\ \A s \in Slot : /\ Holds(r, s, g)' <=> Holds(r, s, g)
                            /\ \A q \in Q : Keeps(r, s, g, q)' <=> Keeps(r, s, g, q)
BY DEF InFlight, Filled, Holds, Keeps

(* A step that leaves the swap area and the handlers alone.                *)
LEMMA FrameSwap ==
  ASSUME SwapInv, UNCHANGED <<pc, addr, loaded, start, h, psa, clash>>
  PROVE  SwapInv'
<1>1. \A r \in Procs, g \in Group :
        /\ InFlight(r, g)' <=> InFlight(r, g)
        /\ \A q \in Q : Filled(r, g, q)' <=> Filled(r, g, q)
        /\ \A s \in Slot : /\ Holds(r, s, g)' <=> Holds(r, s, g)
                           /\ \A q \in Q : Keeps(r, s, g, q)' <=> Keeps(r, s, g, q)
  BY SameSwap
<1> QED BY <1>1, FewerSwap

(* No block is marked at first.                                            *)
LEMMA InitSwap == Init => SwapInv
<1> SUFFICES ASSUME Init PROVE SwapInv
  OBVIOUS
<1>1. \A p \in Procs, g \in Group : ~InFlight(p, g) /\ \A s \in Slot : ~Holds(p, s, g)
  BY ConstAssumption DEF Init, InFlight, Holds, NoSlot
<1> QED BY <1>1 DEF SwapInv, MarkInv, SwapPairs

(* A new slot has no blocks.                                               *)
LEMMA SbrkSwap ==
  ASSUME Basic, SwapInv, NEW p \in Procs, NEW n \in SbrkPages, Sbrk(p, n)
  PROVE  SwapInv'
<1>1. CASE Panic("track_heap")
  BY <1>1, FrameSwap DEF Panic, procVars
<1>2. CASE ~Panic("track_heap")
  <2> DEFINE new == TakenBy(p, n)
             A == [s \in Slot |-> IF s \in new THEN SlotAddr(p, s) ELSE addr[p][s]]
             L == [s \in Slot |-> IF s \in new THEN FALSE ELSE loaded[p][s]]
             T == [s \in Slot |-> IF s \in new THEN None ELSE start[p][s]]
  <2>1. /\ addr' = [addr EXCEPT ![p] = A]
        /\ loaded' = [loaded EXCEPT ![p] = L]
        /\ start' = [start EXCEPT ![p] = T]
        /\ UNCHANGED <<pc, h, psa, clash>>
    BY <1>2 DEF Sbrk
  <2>2. \A s \in Slot :
          /\ s \in new => T[s] = None
          /\ s \notin new => A[s] = addr[p][s] /\ L[s] = loaded[p][s] /\ T[s] = start[p][s]
    OBVIOUS
  <2> HIDE DEF new, A, L, T
  <2>3. addr'[p] = A /\ loaded'[p] = L /\ start'[p] = T
    BY <2>1 DEF Basic, TypeOK
  <2>4. \A g \in Group : g # None
    BY ConstAssumption
  <2>5. ASSUME NEW g \in Group, NEW s \in Slot
        PROVE  /\ Holds(p, s, g)' => Holds(p, s, g)
               /\ \A q \in Q : Keeps(p, s, g, q)' => Keeps(p, s, g, q)
    BY <2>1, <2>2, <2>3, <2>4 DEF Holds, Keeps
  <2>6. ASSUME NEW r \in Procs, r # p
        PROVE  addr'[r] = addr[r] /\ loaded'[r] = loaded[r] /\ start'[r] = start[r]
    BY <2>1, <2>6 DEF Basic, TypeOK
  <2>7. ASSUME NEW r \in Procs, NEW g \in Group
        PROVE  /\ InFlight(r, g)' => InFlight(r, g)
               /\ \A q \in Q : Filled(r, g, q)' => Filled(r, g, q)
    BY <2>1 DEF InFlight, Filled
  <2>8. ASSUME NEW r \in Procs, NEW g \in Group, NEW s \in Slot
        PROVE  /\ Holds(r, s, g)' => Holds(r, s, g)
               /\ \A q \in Q : Keeps(r, s, g, q)' => Keeps(r, s, g, q)
    BY <2>1, <2>5, <2>6, SameSwap
  <2> QED BY <2>1, <2>7, <2>8, FewerSwap
<1> QED BY <1>1, <1>2

(* exec() forgets the blocks of the old pages; they stay marked.           *)
LEMMA ExecSwap ==
  ASSUME Basic, SwapInv, NEW p \in Procs, Exec(p)
  PROVE  SwapInv'
<1>1. CASE \E why \in {"uvmunmap: walk", "freewalk: leaf"} : Panic(why)
  BY <1>1, FrameSwap DEF Panic, procVars
<1>2. CASE ~ \E why \in {"uvmunmap: walk", "freewalk: leaf"} : Panic(why)
  <2> DEFINE NoneLoaded == [s \in Slot |-> FALSE]
  <2>1. /\ addr' = [addr EXCEPT ![p] = NoSlot]
        /\ loaded' = [loaded EXCEPT ![p] = NoneLoaded]
        /\ start' = [start EXCEPT ![p] = NoSlot]
        /\ UNCHANGED <<pc, h, psa, clash>>
    BY <1>2 DEF Exec
  <2> HIDE DEF NoneLoaded
  <2>2. \A s \in Slot : addr'[p][s] = None
    BY <2>1 DEF Basic, TypeOK, NoSlot
  <2>3. ASSUME NEW r \in Procs, r # p
        PROVE  addr'[r] = addr[r] /\ loaded'[r] = loaded[r] /\ start'[r] = start[r]
    BY <2>1, <2>3 DEF Basic, TypeOK
  <2>4. ASSUME NEW r \in Procs, NEW g \in Group
        PROVE  /\ InFlight(r, g)' => InFlight(r, g)
               /\ \A q \in Q : Filled(r, g, q)' => Filled(r, g, q)
    BY <2>1 DEF InFlight, Filled
  <2>5. ASSUME NEW g \in Group, NEW s \in Slot
        PROVE  /\ ~Holds(p, s, g)'
               /\ \A q \in Q : ~Keeps(p, s, g, q)'
    BY <2>2 DEF Holds, Keeps
  <2>6. ASSUME NEW r \in Procs, NEW g \in Group, NEW s \in Slot
        PROVE  /\ Holds(r, s, g)' => Holds(r, s, g)
               /\ \A q \in Q : Keeps(r, s, g, q)' => Keeps(r, s, g, q)
    BY <2>1, <2>3, <2>5, SameSwap
  <2> QED BY <2>1, <2>4, <2>6, FewerSwap
<1> QED BY <1>1, <1>2

(* A page mapped at once holds its blocks until they have been read back;  *)
(* an eviction that does not clash chose a group nobody holds or fills.    *)
LEMMA HeapFaultSwap ==
  ASSUME Basic, SwapInv, NEW p \in Procs, NEW a \in Page, HeapFault(p, a)
  PROVE  SwapInv'
<1> DEFINE s == SlotOf(p, a)
           from == FromDisk(p, s)
<1>0. TypeOK /\ ProcOK(p) /\ pc[p] = "user"
  BY DEF Basic, HeapFault
<1>1. s \in Slot /\ addr[p][s] = a /\ ~loaded[p][s]
  BY FaultSlot DEF HeapFault
<1>2. from = (start[p][s] # None)
  BY DEF FromDisk
<1>3. CASE resident[p] # MaxRes
  <2> DEFINE hp == IF from THEN [Idle EXCEPT !.slot = s, !.from = TRUE] ELSE Idle
             pp == IF from THEN "retrieve" ELSE "user"
  <2>1. /\ loaded' = [loaded EXCEPT ![p] = [loaded[p] EXCEPT ![s] = TRUE]]
        /\ start' = [start EXCEPT ![p] = start[p]]
        /\ pc' = [pc EXCEPT ![p] = pp]
        /\ h' = [h EXCEPT ![p] = hp]
        /\ UNCHANGED <<addr, psa, clash>>
    BY <1>3 DEF HeapFault, MapPage, Space
  <2>2. hp.i = 0 /\ (from => hp.slot = s) /\ (pp = "retrieve" <=> from) /\ pp # "evict"
    BY DEF Idle
  <2> HIDE DEF s, from, hp, pp
  <2>3. /\ start'[p] = start[p] /\ pc'[p] = pp /\ h'[p] = hp /\ addr'[p] = addr[p]
        /\ \A u \in Slot : loaded'[p][u] = (u = s \/ loaded[p][u])
    <3>1. start'[p] = start[p] /\ pc'[p] = pp /\ h'[p] = hp /\ addr'[p] = addr[p]
      BY <1>0, <2>1 DEF TypeOK
    <3>2. /\ loaded'[p] = [loaded[p] EXCEPT ![s] = TRUE]
          /\ loaded[p] \in [Slot -> BOOLEAN]
      BY <1>0, <2>1 DEF TypeOK
    <3>3. \A u \in Slot : loaded'[p][u] = (u = s \/ loaded[p][u])
      BY <1>1, <3>2
    <3> QED BY <3>1, <3>3
  <2>4. ASSUME NEW g \in Group
        PROVE  ~InFlight(p, g)' /\ \A q \in Q : ~Filled(p, g, q)'
    BY <2>2, <2>3 DEF InFlight, Filled
  <2>5. ASSUME NEW g \in Group, NEW u \in Slot
        PROVE  /\ Holds(p, u, g)' => Holds(p, u, g)
               /\ \A q \in Q : Keeps(p, u, g, q)' => Keeps(p, u, g, q)
    BY <1>0, <1>1, <1>2, <2>2, <2>3 DEF Holds, Keeps
  <2>6. ASSUME NEW r \in Procs, r # p
        PROVE  /\ addr'[r] = addr[r] /\ loaded'[r] = loaded[r] /\ start'[r] = start[r]
               /\ pc'[r] = pc[r] /\ h'[r] = h[r]
    BY <1>0, <2>1, <2>6 DEF TypeOK
  <2>7. ASSUME NEW r \in Procs, NEW g \in Group
        PROVE  /\ InFlight(r, g)' => InFlight(r, g)
               /\ \A q \in Q : Filled(r, g, q)' => Filled(r, g, q)
    BY <2>4, <2>6, SameSwap
  <2>8. ASSUME NEW r \in Procs, NEW g \in Group, NEW u \in Slot
        PROVE  /\ Holds(r, u, g)' => Holds(r, u, g)
               /\ \A q \in Q : Keeps(r, u, g, q)' => Keeps(r, u, g, q)
    BY <2>5, <2>6, SameSwap
  <2> QED BY <2>1, <2>7, <2>8, FewerSwap
<1>4. CASE resident[p] = MaxRes
  <2> DEFINE hp == [slot |-> s, from |-> from, victim |-> Victim(p),
                    grp |-> PickGroup, i |-> 0,
                    buf |-> mem[p][addr[p][Victim(p)]]]
             G == PickGroup
  <2>1. /\ pc' = [pc EXCEPT ![p] = "evict"]
        /\ h' = [h EXCEPT ![p] = hp]
        /\ clash' = (clash \/ ~FreeGroup(G)
                       \/ \E r \in Procs \ {p} : pc[r] = "evict" /\ h[r].grp = G)
        /\ UNCHANGED <<addr, loaded, start, psa>>
    BY <1>4 DEF HeapFault, procVars
  <2>2. hp.grp = G /\ hp.i = 0 /\ G \in Group
    BY PickGroupChoice
  <2> HIDE DEF s, from, hp, G
  <2>3. pc'[p] = "evict" /\ h'[p] = hp
    BY <1>0, <2>1 DEF TypeOK
  <2>4. CASE clash'
    BY <2>4 DEF SwapInv, MarkInv, SwapPairs
  <2>5. CASE ~clash'
    <3>1. ~clash /\ FreeGroup(G) /\ \A r \in Procs : r # p => ~InFlight(r, G)
      BY <2>1, <2>5 DEF InFlight
    <3>2. \A r \in Procs, u \in Slot : ~Holds(r, u, G)
      BY <2>2, <3>1, HeldMarked DEF SwapInv
    <3>3. ASSUME NEW r \in Procs, r # p
          PROVE  addr'[r] = addr[r] /\ loaded'[r] = loaded[r] /\ start'[r] = start[r]
                 /\ pc'[r] = pc[r] /\ h'[r] = h[r]
      BY <1>0, <2>1, <3>3 DEF TypeOK
    <3>4. ASSUME NEW g \in Group, NEW u \in Slot
          PROVE  /\ Holds(p, u, g)' => Holds(p, u, g)
                 /\ \A q \in Q : Keeps(p, u, g, q)' => Keeps(p, u, g, q)
      BY <1>0, <2>1, <2>3 DEF Holds, Keeps
    <3>5. ASSUME NEW r \in Procs, NEW g \in Group, NEW u \in Slot
          PROVE  /\ Holds(r, u, g)' => Holds(r, u, g)
                 /\ \A q \in Q : Keeps(r, u, g, q)' => Keeps(r, u, g, q)
      BY <3>3, <3>4, SameSwap
    <3>6. ASSUME NEW r \in Procs, r # p, NEW g \in Group
          PROVE  /\ InFlight(r, g)' => InFlight(r, g)
                 /\ \A q \in Q : Filled(r, g, q)' => Filled(r, g, q)
      BY <3>3, <3>6, SameSwap
    <3>7. ASSUME NEW g \in Group
          PROVE  (InFlight(p, g)' => g = G) /\ \A q \in Q : ~Filled(p, g, q)'
      BY <2>2, <2>3, ConstAssumption DEF InFlight, Filled
    <3>8. MarkInv'
      <4>1. ASSUME NEW r \in Procs, NEW g \in Group, NEW q \in Q
            PROVE  /\ \A u \in Slot : Keeps(r, u, g, q)' => psa'[g][q]
                   /\ Filled(r, g, q)' => psa'[g][q]
        BY <2>1, <3>1, <3>5, <3>6, <3>7, MarkWords DEF SwapInv
      <4> QED BY <4>1 DEF MarkInv, Keeps, Filled
    <3>9. SwapPairs'
      <4>1. ASSUME NEW r \in Procs, NEW t \in Procs, NEW g \in Group
            PROVE  /\ \A u, w \in Slot : Holds(r, u, g)' /\ Holds(t, w, g)' => t = r /\ u = w
                   /\ \A u \in Slot : Holds(r, u, g)' => ~InFlight(t, g)'
                   /\ InFlight(r, g)' /\ InFlight(t, g)' => t = r
        <5>1. \A u, w \in Slot : Holds(r, u, g)' /\ Holds(t, w, g)' => t = r /\ u = w
          BY <3>1, <3>5 DEF SwapInv, SwapPairs
        <5>2. \A u \in Slot : Holds(r, u, g)' => ~InFlight(t, g)'
          BY <3>1, <3>2, <3>5, <3>6, <3>7 DEF SwapInv, SwapPairs
        <5>3. InFlight(r, g)' /\ InFlight(t, g)' => t = r
          BY <3>1, <3>6, <3>7 DEF SwapInv, SwapPairs
        <5> QED BY <5>1, <5>2, <5>3
      <4> QED BY <4>1 DEF SwapPairs
    <3> QED BY <3>8, <3>9 DEF SwapInv
  <2> QED BY <2>4, <2>5
<1> QED BY <1>3, <1>4

(* The group being filled is marked block by block and then held by the    *)
(* slot of the victim.                                                     *)
LEMMA EvictSwap ==
  ASSUME Basic, SwapInv, NEW p \in Procs, EvictStep(p)
  PROVE  SwapInv'
<1> DEFINE G == h[p].grp
           i == h[p].i
           s == h[p].slot
           v == h[p].victim
           from == h[p].from
<1>0. TypeOK /\ ProcOK(p) /\ pc[p] = "evict" /\ clash' = clash
  BY DEF Basic, EvictStep
<1>1. h[p] \in Handler
  BY <1>0 DEF TypeOK
<1>2. G \in Group /\ i \in Q /\ s \in Slot /\ v \in Slot /\ InFlight(p, G)
  BY <1>0, <1>1 DEF Handler, InFlight
<1>3. /\ \A g \in Group, q \in Q : psa[g][q] => psa'[g][q]
      /\ psa'[G][i]
  <2>1. psa \in [Group -> [Q -> BOOLEAN]]
    BY <1>0 DEF TypeOK
  <2>2. psa' = [psa EXCEPT ![G] = [psa[G] EXCEPT ![i] = TRUE]]
    BY DEF EvictStep, MarkUsed
  <2> HIDE DEF G, i
  <2> QED BY <1>2, <2>1, <2>2
<1>4. ASSUME NEW q \in Q, q < i + 1
      PROVE  q < i \/ q = i
  BY <1>2, <1>4, ConstAssumption
<1>5. CASE i < BPP - 1
  <2> DEFINE hp == [h[p] EXCEPT !.i = NextBlock(i)]
  <2>1. h' = [h EXCEPT ![p] = hp] /\ UNCHANGED <<pc, procVars>>
    BY <1>2, <1>5, ConstAssumption DEF EvictStep
  <2>2. hp.i = i + 1 /\ hp.slot = s /\ hp.grp = G
    BY <1>1 DEF Handler, NextBlock
  <2> HIDE DEF hp
  <2>3. h'[p] = hp
    BY <1>0, <2>1 DEF TypeOK
  <2>4. ASSUME NEW r \in Procs, r # p
        PROVE  h'[r] = h[r]
    BY <1>0, <2>1, <2>4 DEF TypeOK
  <2>5. ASSUME NEW g \in Group
        PROVE  /\ InFlight(p, g)' => InFlight(p, g)
               /\ \A q \in Q : Filled(p, g, q)' => Filled(p, g, q) \/ psa'[g][q]
    BY <1>3, <1>4, <2>1, <2>2, <2>3 DEF InFlight, Filled
  <2>6. ASSUME NEW g \in Group, NEW u \in Slot
        PROVE  /\ Holds(p, u, g)' => Holds(p, u, g)
               /\ \A q \in Q : Keeps(p, u, g, q)' => Keeps(p, u, g, q)
    BY <1>0, <2>1 DEF Holds, Keeps, procVars
  <2>7. ASSUME NEW r \in Procs, NEW g \in Group
        PROVE  /\ InFlight(r, g)' => InFlight(r, g)
               /\ \A q \in Q : Filled(r, g, q)' => Filled(r, g, q) \/ psa'[g][q]
    BY <2>1, <2>4, <2>5, SameSwap DEF procVars
  <2>8. ASSUME NEW r \in Procs, NEW g \in Group, NEW u \in Slot
        PROVE  /\ Holds(r, u, g)' => Holds(r, u, g)
               /\ \A q \in Q : Keeps(r, u, g, q)' => Keeps(r, u, g, q)
    BY <2>1, <2>4, <2>6, SameSwap DEF procVars
  <2> QED BY <1>0, <1>3, <2>7, <2>8, FewerSwap
<1>6. CASE ~(i < BPP - 1)
  <2> DEFINE hp == IF from THEN [Idle EXCEPT !.slot = s, !.from = TRUE] ELSE Idle
             pp == IF from THEN "retrieve" ELSE "user"
             ld == [[loaded[p] EXCEPT ![v] = FALSE] EXCEPT ![s] = TRUE]
             st == [start[p] EXCEPT ![v] = G]
  <2>1. /\ loaded' = [loaded EXCEPT ![p] = ld]
        /\ start' = [start EXCEPT ![p] = st]
        /\ pc' = [pc EXCEPT ![p] = pp]
        /\ h' = [h EXCEPT ![p] = hp]
        /\ UNCHANGED addr
    BY <1>6 DEF EvictStep, MapPage, SpaceAfterEvict
  <2>2. hp.i = 0 /\ (from => hp.slot = s) /\ (pp = "retrieve" <=> from) /\ pp # "evict"
    BY DEF Idle
  <2>3. /\ loaded[p][v] /\ ~loaded[p][s] /\ s # v /\ addr[p][v] # None
        /\ from = (start[p][s] # None)
    BY <1>0, <1>2 DEF ProcOK, MappedOK, HandlerOK, AddrOK
  <2>4. \A u \in Slot : /\ ld[u] = (u = s \/ (u # v /\ loaded[p][u]))
                        /\ st[u] = IF u = v THEN G ELSE start[p][u]
    <3>1. loaded[p] \in [Slot -> BOOLEAN] /\ start[p] \in [Slot -> Group \cup {None}]
      BY <1>0 DEF TypeOK
    <3> HIDE DEF G, s, v
    <3> QED BY <1>2, <2>3, <3>1
  <2>5. \A q \in Q : q <= i
    BY <1>2, <1>6, ConstAssumption
  <2> HIDE DEF hp, pp, ld, st, G, i, s, v, from
  <2>6. /\ loaded'[p] = ld /\ start'[p] = st /\ pc'[p] = pp /\ h'[p] = hp
        /\ addr'[p] = addr[p]
    BY <1>0, <2>1 DEF TypeOK
  <2>7. ASSUME NEW r \in Procs, r # p
        PROVE  /\ addr'[r] = addr[r] /\ loaded'[r] = loaded[r] /\ start'[r] = start[r]
               /\ pc'[r] = pc[r] /\ h'[r] = h[r]
    BY <1>0, <2>1, <2>7 DEF TypeOK
  <2>8. ASSUME NEW g \in Group
        PROVE  ~InFlight(p, g)' /\ \A q \in Q : ~Filled(p, g, q)'
    BY <2>2, <2>6 DEF InFlight, Filled
  <2>9. ASSUME NEW g \in Group, NEW u \in Slot, ~(u = v /\ g = G)
        PROVE  /\ Holds(p, u, g)' => Holds(p, u, g)
               /\ \A q \in Q : Keeps(p, u, g, q)' => Keeps(p, u, g, q)
    <3>1. CASE u = v
      BY <1>0, <2>3, <2>4, <2>6, <2>9, <3>1 DEF Holds, Keeps
    <3>2. CASE u = s
      BY <1>0, <2>2, <2>3, <2>4, <2>6, <2>9, <3>2 DEF Holds, Keeps
    <3>3. CASE u # v /\ u # s
      BY <1>0, <2>2, <2>3, <2>4, <2>6, <2>9, <3>3 DEF Holds, Keeps
    <3> QED BY <3>1, <3>2, <3>3
  <2>10. ASSUME NEW r \in Procs, NEW g \in Group
         PROVE  /\ InFlight(r, g)' => r # p /\ InFlight(r, g)
                /\ \A q \in Q : Filled(r, g, q)' => Filled(r, g, q)
    BY <2>7, <2>8, SameSwap
  <2>11. ASSUME NEW r \in Procs, NEW g \in Group, NEW u \in Slot,
                ~(r = p /\ u = v /\ g = G)
         PROVE  /\ Holds(r, u, g)' => Holds(r, u, g)
                /\ \A q \in Q : Keeps(r, u, g, q)' => Keeps(r, u, g, q)
    <3>1. CASE r = p
      BY <2>9, <2>11, <3>1
    <3>2. CASE r # p
      BY <2>7, <3>2, SameSwap
    <3> QED BY <3>1, <3>2
  <2>12. CASE clash
    BY <1>0, <2>12 DEF SwapInv, MarkInv, SwapPairs
  <2>13. CASE ~clash
    <3>1. /\ \A r \in Procs, u \in Slot : ~Holds(r, u, G)
          /\ \A r \in Procs : InFlight(r, G) => r = p
          /\ \A q \in Q : q < i => psa[G][q]
      BY <1>2, <2>13 DEF SwapInv, MarkInv, SwapPairs, i
    <3>2. \A q \in Q : psa'[G][q]
      <4> TAKE q \in Q
      <4>1. q < i \/ q = i
        BY <1>2, <2>5, ConstAssumption
      <4> QED BY <1>2, <1>3, <3>1, <4>1
    <3>3. MarkInv'
      <4>1. ASSUME NEW r \in Procs, NEW g \in Group, NEW q \in Q
            PROVE  /\ \A u \in Slot : Keeps(r, u, g, q)' => psa'[g][q]
                   /\ Filled(r, g, q)' => psa'[g][q]
        <5>1. CASE g = G
          BY <3>2, <5>1
        <5>2. CASE g # G
          BY <1>3, <2>10, <2>11, <2>13, <5>2, MarkWords DEF SwapInv
        <5> QED BY <5>1, <5>2
      <4> QED BY <4>1 DEF MarkInv, Keeps, Filled
    <3>4. ASSUME NEW g \in Group, g = G, NEW r \in Procs, NEW u \in Slot, Holds(r, u, g)'
          PROVE  r = p /\ u = v
      BY <2>11, <3>1, <3>4
    <3>5. SwapPairs'
      <4>1. ASSUME NEW r \in Procs, NEW t \in Procs, NEW g \in Group
            PROVE  /\ \A u, w \in Slot : Holds(r, u, g)' /\ Holds(t, w, g)' => t = r /\ u = w
                   /\ \A u \in Slot : Holds(r, u, g)' => ~InFlight(t, g)'
                   /\ InFlight(r, g)' /\ InFlight(t, g)' => t = r
        <5>1. \A u, w \in Slot : Holds(r, u, g)' /\ Holds(t, w, g)' => t = r /\ u = w
          <6>1. CASE g = G
            BY <3>4, <6>1
          <6>2. CASE g # G
            BY <2>11, <2>13, <6>2 DEF SwapInv, SwapPairs
          <6> QED BY <6>1, <6>2
        <5>2. \A u \in Slot : Holds(r, u, g)' => ~InFlight(t, g)'
          <6>1. CASE g = G
            BY <2>10, <3>1, <6>1
          <6>2. CASE g # G
            BY <2>10, <2>11, <2>13, <6>2 DEF SwapInv, SwapPairs
          <6> QED BY <6>1, <6>2
        <5>3. InFlight(r, g)' /\ InFlight(t, g)' => t = r
          BY <2>10, <2>13 DEF SwapInv, SwapPairs
        <5> QED BY <5>1, <5>2, <5>3
      <4> QED BY <4>1 DEF SwapPairs
    <3> QED BY <3>3, <3>5 DEF SwapInv
  <2> QED BY <2>12, <2>13
<1> QED BY <1>5, <1>6

(* Reading back unmarks the blocks of a group nobody else holds or fills.  *)
LEMMA RetrieveSwap ==
  ASSUME Basic, SwapInv, NEW p \in Procs, RetrieveStep(p)
  PROVE  SwapInv'
<1> DEFINE s == h[p].slot
           i == h[p].i
           G == start[p][s]
           buf == [h[p].buf EXCEPT ![i] = disk[G][i]]
<1>0. /\ TypeOK /\ ProcOK(p) /\ pc[p] = "retrieve"
      /\ UNCHANGED <<addr, loaded, start, clash>>
  BY DEF Basic, RetrieveStep
<1>1. h[p] \in Handler
  BY <1>0 DEF TypeOK
<1>2. i \in Q /\ s \in Slot
  BY <1>1 DEF Handler
<1>3. G \in Group /\ loaded[p][s] /\ addr[p][s] # None
  <2>1. start[p] \in [Slot -> Group \cup {None}]
    BY <1>0 DEF TypeOK
  <2>2. G # None /\ loaded[p][s] /\ addr[p][s] # None
    BY <1>0, <1>2 DEF ProcOK, HandlerOK, MappedOK, AddrOK
  <2> QED BY <1>2, <2>1, <2>2
<1>4. Holds(p, s, G)
  BY <1>0, <1>3 DEF Holds
<1>5. \A g \in Group, q \in Q : psa'[g][q] = (psa[g][q] /\ ~(g = G /\ q = i))
  <2>1. psa \in [Group -> [Q -> BOOLEAN]]
    BY <1>0 DEF TypeOK
  <2>2. psa' = [psa EXCEPT ![G] = [psa[G] EXCEPT ![i] = FALSE]]
    BY DEF RetrieveStep
  <2> HIDE DEF G, i
  <2> QED BY <1>2, <1>3, <2>1, <2>2
<1> HIDE DEF G
<1>6. ASSUME NEW r \in Procs, r # p
      PROVE  pc'[r] = pc[r] /\ h'[r] = h[r]
  <2>1. h \in [Procs -> Handler] /\ pc \in [Procs -> {"user", "evict", "retrieve"}]
    BY <1>0 DEF TypeOK
  <2>2. CASE i < BPP - 1
    <3>1. i # BPP - 1
      BY <1>2, <2>2, ConstAssumption
    <3>2. /\ h' = [h EXCEPT ![p].i = NextBlock(@), ![p].buf = buf]
          /\ UNCHANGED pc
      BY <3>1, Zenon DEF RetrieveStep, G
    <3> HIDE DEF buf
    <3> QED BY <1>6, <2>1, <3>2
  <2>3. CASE ~(i < BPP - 1)
    <3>1. pc' = [pc EXCEPT ![p] = "user"] /\ h' = [h EXCEPT ![p] = Idle]
      BY <2>3 DEF RetrieveStep
    <3> QED BY <1>6, <2>1, <3>1
  <2> QED BY <2>2, <2>3
<1>7. \/ pc'[p] = "user"
      \/ pc'[p] = "retrieve" /\ h'[p].slot = s /\ h'[p].i = i + 1
  <2>1. CASE i < BPP - 1
    <3>1. i # BPP - 1
      BY <1>2, <2>1, ConstAssumption
    <3>2. /\ h' = [h EXCEPT ![p].i = NextBlock(@), ![p].buf = buf]
          /\ UNCHANGED pc
      BY <3>1, Zenon DEF RetrieveStep, G
    <3>3. h \in [Procs -> Handler]
      BY <1>0 DEF TypeOK
    <3> HIDE DEF buf
    <3>4. h'[p].slot = s /\ h'[p].i = i + 1
      BY <1>1, <3>2, <3>3 DEF Handler, NextBlock
    <3> QED BY <1>0, <3>2, <3>4
  <2>2. CASE ~(i < BPP - 1)
    <3>1. pc' = [pc EXCEPT ![p] = "user"]
      BY <2>2 DEF RetrieveStep
    <3> QED BY <1>0, <3>1 DEF TypeOK
  <2> QED BY <2>1, <2>2
<1>8. ASSUME NEW r \in Procs, NEW g \in Group
      PROVE  /\ InFlight(r, g)' => InFlight(r, g)
             /\ \A q \in Q : Filled(r, g, q)' => Filled(r, g, q)
  <2>1. CASE r = p
    BY <1>7, <2>1 DEF InFlight, Filled
  <2>2. CASE r # p
    BY <1>0, <1>6, <2>2, SameSwap
  <2> QED BY <2>1, <2>2
<1>9. ASSUME NEW g \in Group, NEW u \in Slot
      PROVE  /\ Holds(p, u, g)' => Holds(p, u, g)
             /\ \A q \in Q : Keeps(p, u, g, q)' =>
                  Keeps(p, u, g, q) /\ ~(u = s /\ q = i)
  <2>1. Holds(p, u, g)' => Holds(p, u, g)
    BY <1>0, <1>7 DEF Holds
  <2>2. ASSUME NEW q \in Q, Keeps(p, u, g, q)'
        PROVE  Keeps(p, u, g, q) /\ ~(u = s /\ q = i)
    <3>1. CASE u # s
      BY <2>1, <2>2, <3>1 DEF Keeps
    <3>2. CASE u = s
      <4>1. pc'[p] = "retrieve" /\ h'[p].slot = s /\ h'[p].i = i + 1
        BY <1>0, <1>3, <1>7, <2>2, <3>2 DEF Keeps, Holds
      <4>2. q >= i + 1
        BY <2>2, <3>2, <4>1 DEF Keeps
      <4>3. q >= i /\ q # i
        BY <1>2, <4>2, ConstAssumption
      <4> QED BY <2>1, <2>2, <3>2, <4>3 DEF Keeps
    <3> QED BY <3>1, <3>2
  <2> QED BY <2>1, <2>2
<1>10. ASSUME NEW r \in Procs, NEW g \in Group, NEW u \in Slot
       PROVE  /\ Holds(r, u, g)' => Holds(r, u, g)
              /\ \A q \in Q : Keeps(r, u, g, q)' =>
                   Keeps(r, u, g, q) /\ ~(r = p /\ u = s /\ q = i)
  <2>1. CASE r = p
    BY <1>9, <2>1
  <2>2. CASE r # p
    BY <1>0, <1>6, <2>2, SameSwap
  <2> QED BY <2>1, <2>2
<1>11. CASE clash
  BY <1>0, <1>11 DEF SwapInv, MarkInv, SwapPairs
<1>12. CASE ~clash
  <2>1. /\ \A r \in Procs, u \in Slot : Holds(r, u, G) => r = p /\ u = s
        /\ \A r \in Procs : ~InFlight(r, G)
    BY <1>2, <1>3, <1>4, <1>12 DEF SwapInv, SwapPairs
  <2>2. SwapPairs'
    BY <1>8, <1>10, <1>12 DEF SwapInv, SwapPairs
  <2>3. MarkInv'
    <3>1. ASSUME NEW r \in Procs, NEW g \in Group, NEW q \in Q
          PROVE  /\ \A u \in Slot : Keeps(r, u, g, q)' => psa'[g][q]
                 /\ Filled(r, g, q)' => psa'[g][q]
      <4>1. \A u \in Slot : Keeps(r, u, g, q) => psa[g][q] /\ Holds(r, u, g)
        BY <1>12, MarkWords DEF SwapInv, Keeps
      <4>2. Filled(r, g, q) => psa[g][q] /\ g # G
        BY <1>12, <2>1, MarkWords DEF SwapInv, Filled
      <4>3. ASSUME NEW u \in Slot, Keeps(r, u, g, q)'
            PROVE  psa'[g][q]
        <5>1. psa[g][q] /\ ~(g = G /\ q = i)
          BY <1>10, <2>1, <4>1, <4>3
        <5> QED BY <1>5, <5>1
      <4>4. Filled(r, g, q)' => psa'[g][q]
        BY <1>5, <1>8, <4>2
      <4> QED BY <4>3, <4>4
    <3> QED BY <3>1 DEF MarkInv, Keeps, Filled
  <2> QED BY <2>2, <2>3 DEF SwapInv
<1> QED BY <1>11, <1>12

(* Every step keeps groups exclusive and marked.                           *)
LEMMA NextSwap ==
  ASSUME Basic, SwapInv, [Next]_vars
  PROVE  SwapInv'
<1>1. ASSUME NEW why, Panic(why) PROVE SwapInv'
  BY <1>1, FrameSwap DEF Panic, procVars
<1>2. ASSUME NEW p \in Procs, NEW n \in SbrkPages, Sbrk(p, n)
      PROVE  SwapInv'
  BY <1>2, SbrkSwap
<1>3. ASSUME NEW p \in Procs, NEW a \in Page,
             Store(p, a) \/ HeapFault(p, a) \/ HeapFaultNoMem(p, a)
      PROVE  SwapInv'
  <2>1. CASE Store(p, a)
    BY <2>1, FrameSwap DEF Store
  <2>2. CASE HeapFault(p, a)
    BY <2>2, HeapFaultSwap
  <2>3. CASE HeapFaultNoMem(p, a)
    BY <2>3, <1>1 DEF HeapFaultNoMem
  <2> QED BY <1>3, <2>1, <2>2, <2>3
<1>4. ASSUME NEW p \in Procs, NEW a \in Page, NEW st \in BOOLEAN,
             NEW f \in {"ok", "missing", "bad"}, SegFault(p, a, st, f)
      PROVE  SwapInv'
  <2>1. CASE \E why \in {"remap", "freed page table"} : Panic(why)
    BY <1>1, <2>1
  <2>2. CASE ~ \E why \in {"remap", "freed page table"} : Panic(why)
    BY <1>4, <2>2, FrameSwap DEF SegFault
  <2> QED BY <2>1, <2>2
<1>5. ASSUME NEW p \in Procs, EvictStep(p) \/ EvictNoMem(p) \/ RetrieveStep(p)
      PROVE  SwapInv'
  <2>1. CASE EvictStep(p)
    BY <2>1, EvictSwap
  <2>2. CASE EvictNoMem(p)
    BY <2>2, <1>1 DEF EvictNoMem
  <2>3. CASE RetrieveStep(p)
    BY <2>3, RetrieveSwap
  <2> QED BY <1>5, <2>1, <2>2, <2>3
<1>6. ASSUME NEW p \in Procs, Exec(p)
      PROVE  SwapInv'
  BY <1>6, ExecSwap
<1>7. CASE Tick
  BY <1>7, FrameSwap DEF Tick, procVars
<1>8. CASE UNCHANGED vars
  BY <1>8, FrameSwap DEF vars
<1> QED BY <1>2, <1>3, <1>4, <1>5, <1>6, <1>7, <1>8 DEF Next, Halted

-----------------------------------------------------------------------------
(* Where the first block of every page is.                                 *)

(* Two used slots have different addresses.                                *)
LEMMA SlotUnique ==
  ASSUME Basic, NEW p \in Procs, NEW s \in Slot, NEW t \in Slot,
         addr[p][s] # None, addr[p][s] = addr[p][t]
  PROVE  s = t
<1>1. addr[p][s] \in Int /\ addr[p][t] \in Int
  <2>1. addr[p] \in [Slot -> Int]
    BY DEF Basic, TypeOK
  <2> QED BY <2>1
<1>2. /\ s < t => addr[p][s] < addr[p][t]
      /\ t < s => addr[p][t] < addr[p][s]
  BY DEF Basic, ProcOK, AddrOK
<1>3. s < t \/ t < s \/ s = t
  BY ConstAssumption
<1> QED BY <1>1, <1>2, <1>3

(* BlocksOK is about one process: it stays true of a process that a step   *)
(* leaves alone, if the blocks it holds or fills keep their first one.     *)
LEMMA OtherBlocks ==
  ASSUME NEW r \in Procs, BlocksOK(r), h[r].grp \in Group,
         pc'[r] = pc[r], addr'[r] = addr[r], loaded'[r] = loaded[r],
         start'[r] = start[r], mapped'[r] = mapped[r], mem'[r] = mem[r],
         ver'[r] = ver[r], h'[r] = h[r],
         \A g \in Group : (InFlight(r, g) \/ \E s \in Slot : Holds(r, s, g))
                             => disk'[g][0] = disk[g][0]
  PROVE  BlocksOK(r)'
<1>1. \A s \in Slot, g \in Group : Holds(r, s, g)' <=> Holds(r, s, g)
  BY DEF Holds
<1>2. pc[r] = "evict" => disk'[h[r].grp][0] = disk[h[r].grp][0]
  BY DEF InFlight
<1> QED BY <1>1, <1>2 DEF BlocksOK, Wanted

(* A step that leaves pages, blocks and handlers alone.                    *)
LEMMA FrameBlocks ==
  ASSUME Basic, BlockInv,
         UNCHANGED <<pc, addr, loaded, start, mapped, mem, h, disk, ver, clash>>
  PROVE  BlockInv'
<1>1. \A r \in Procs : h[r].grp \in Group
  BY DEF Basic, TypeOK, Handler
<1> QED BY <1>1, OtherBlocks DEF BlockInv

(* No page is swapped out at first.                                        *)
LEMMA InitBlocks == Init => BlockInv
<1> SUFFICES ASSUME Init, NEW p \in Procs PROVE BlocksOK(p)
  BY DEF BlockInv
<1>1. /\ pc[p] = "user" /\ mapped[p] = {} /\ \A s \in Slot : addr[p][s] = None
      /\ \A a \in Page : ver[p][a] = 0
  BY DEF Init, NoSlot
<1> QED BY <1>1 DEF BlocksOK, Holds

(* A new page has never been written.                                      *)
LEMMA SbrkBlocks ==
  ASSUME Basic, BlockInv, NEW p \in Procs, NEW n \in SbrkPages, Sbrk(p, n)
  PROVE  BlockInv'
<1>1. CASE Panic("track_heap")
  BY <1>1, FrameBlocks DEF Panic, procVars
<1>2. CASE ~Panic("track_heap")
  <2> DEFINE new == TakenBy(p, n)
             A == [s \in Slot |-> IF s \in new THEN SlotAddr(p, s) ELSE addr[p][s]]
             L == [s \in Slot |-> IF s \in new THEN FALSE ELSE loaded[p][s]]
             T == [s \in Slot |-> IF s \in new THEN None ELSE start[p][s]]
  <2>1. /\ addr' = [addr EXCEPT ![p] = A]
        /\ loaded' = [loaded EXCEPT ![p] = L]
        /\ start' = [start EXCEPT ![p] = T]
        /\ pc[p] = "user"
        /\ UNCHANGED <<pc, mapped, mem, h, disk, ver, clash>>
    BY <1>2 DEF Sbrk
  <2>2. \A s \in Slot :
          /\ s \in new => T[s] = None /\ addr[p][s] = None
          /\ s \notin new => A[s] = addr[p][s] /\ L[s] = loaded[p][s] /\ T[s] = start[p][s]
    BY DEF TakenBy, FreeSlots
  <2> HIDE DEF new, A, L, T
  <2>3. addr'[p] = A /\ loaded'[p] = L /\ start'[p] = T /\ pc'[p] = "user"
    BY <2>1 DEF Basic, TypeOK
  <2>4. \A r \in Procs : h[r].grp \in Group
    BY DEF Basic, TypeOK, Handler
  <2>5. ASSUME NEW r \in Procs, BlocksOK(r), r # p
        PROVE  BlocksOK(r)'
    <3>1. addr'[r] = addr[r] /\ loaded'[r] = loaded[r] /\ start'[r] = start[r]
      BY <2>1, <2>5 DEF Basic, TypeOK
    <3> QED BY <2>1, <2>4, <2>5, <3>1, OtherBlocks
  <2>6. ASSUME BlocksOK(p)
        PROVE  BlocksOK(p)'
    <3>2. \A s \in Slot, g \in Group :
            Holds(p, s, g)' => Holds(p, s, g) /\ addr'[p][s] = addr[p][s]
      BY <2>1, <2>2, <2>3, ConstAssumption DEF Holds
    <3>3. \A a \in mapped'[p] : mem'[p][a][0] = Data(p, a, 0, ver'[p][a])
      BY <2>1, <2>6 DEF BlocksOK, Wanted
    <3>4. \A s \in Slot, g \in Group :
            Holds(p, s, g)' =>
              disk'[g][0] = Data(p, addr'[p][s], 0, ver'[p][addr'[p][s]])
      BY <2>1, <2>6, <3>2 DEF BlocksOK, Wanted
    <3>5. ASSUME NEW a \in Page,
                 \A s \in Slot : addr'[p][s] = a => ~loaded'[p][s] /\ start'[p][s] = None
          PROVE  ver'[p][a] = 0
      <4>1. a # None
        BY ConstAssumption
      <4>2. \A s \in Slot : addr[p][s] = a => ~loaded[p][s] /\ start[p][s] = None
        BY <2>2, <2>3, <3>5, <4>1
      <4> QED BY <2>1, <2>6, <4>2 DEF BlocksOK
    <3> QED BY <2>3, <3>3, <3>4, <3>5 DEF BlocksOK, Wanted
  <2> QED BY <2>1, <2>5, <2>6 DEF BlockInv
<1> QED BY <1>1, <1>2

(* The page of a store is in memory, so it is nowhere else.                *)
LEMMA StoreBlocks ==
  ASSUME Basic, BlockInv, NEW p \in Procs, NEW a \in Page, Store(p, a)
  PROVE  BlockInv'
<1>1. /\ pc[p] = "user" /\ a \in mapped[p]
      /\ ver' = [ver EXCEPT ![p] = [ver[p] EXCEPT ![a] = ver[p][a] + 1]]
      /\ mem' = [mem EXCEPT ![p] = [mem[p] EXCEPT ![a] =
                   [q \in Q |-> Data(p, a, q, ver[p][a] + 1)]]]
      /\ UNCHANGED <<pc, addr, loaded, start, mapped, h, disk, clash>>
  BY DEF Store
<1>2. \A r \in Procs : h[r].grp \in Group
  BY DEF Basic, TypeOK, Handler
<1>3. 0 \in Q
  BY ConstAssumption
<1>4. ASSUME NEW r \in Procs, BlocksOK(r), r # p
      PROVE  BlocksOK(r)'
  <2>1. mem'[r] = mem[r] /\ ver'[r] = ver[r]
    BY <1>1, <1>4 DEF Basic, TypeOK
  <2> QED BY <1>1, <1>2, <1>4, <2>1, OtherBlocks
<1>5. ASSUME BlocksOK(p)
      PROVE  BlocksOK(p)'
  <2>1. /\ mem[p] \in [Page -> PageData] /\ ver[p] \in [Page -> 0 .. MaxVer]
        /\ mapped[p] \subseteq Page
    BY DEF Basic, TypeOK
  <2>2. /\ ver'[p] = [ver[p] EXCEPT ![a] = ver[p][a] + 1]
        /\ mem'[p] = [mem[p] EXCEPT ![a] = [q \in Q |-> Data(p, a, q, ver[p][a] + 1)]]
    BY <1>1 DEF Basic, TypeOK
  <2>3. \A b \in Page : b # a => mem'[p][b] = mem[p][b] /\ ver'[p][b] = ver[p][b]
    BY <2>1, <2>2
  <2>4. mem'[p][a][0] = Data(p, a, 0, ver[p][a] + 1) /\ ver'[p][a] = ver[p][a] + 1
    <3>1. mem'[p][a] = [q \in Q |-> Data(p, a, q, ver[p][a] + 1)]
      BY <2>1, <2>2
    <3> QED BY <1>3, <2>1, <2>2, <3>1
  <2>7. PICK u \in Slot : loaded[p][u] /\ addr[p][u] = a
    BY <1>1 DEF Basic, ProcOK, MappedOK, LoadedSlots
  <2>8. a # None
    BY ConstAssumption
  <2>9. \A b \in mapped'[p] : mem'[p][b][0] = Data(p, b, 0, ver'[p][b])
    BY <1>1, <1>5, <2>1, <2>3, <2>4 DEF BlocksOK, Wanted
  <2>10. ASSUME NEW s \in Slot, NEW g \in Group, Holds(p, s, g)'
         PROVE  disk'[g][0] = Data(p, addr[p][s], 0, ver'[p][addr[p][s]])
    <3>1. Holds(p, s, g) /\ ~loaded[p][s] /\ addr[p][s] # None
      BY <1>1, <2>10 DEF Holds
    <3>2. addr[p][s] # a
      BY <2>7, <2>8, <3>1, SlotUnique
    <3>3. disk[g][0] = Data(p, addr[p][s], 0, ver[p][addr[p][s]])
      BY <1>1, <1>5, <3>1 DEF BlocksOK, Wanted
    <3>4. ver'[p][addr[p][s]] = ver[p][addr[p][s]]
      BY <2>1, <2>2, <3>2
    <3> QED BY <1>1, <3>3, <3>4
  <2>11. ASSUME NEW b \in Page,
                \A s \in Slot : addr'[p][s] = b => ~loaded'[p][s] /\ start'[p][s] = None
         PROVE  ver'[p][b] = 0
    <3>1. b # a
      BY <1>1, <2>7, <2>11
    <3>2. ver[p][b] = 0
      BY <1>1, <1>5, <2>11 DEF BlocksOK
    <3> QED BY <2>3, <3>1, <3>2
  <2> QED BY <1>1, <2>9, <2>10, <2>11, SMTT(30) DEF BlocksOK, Wanted
<1> QED BY <1>1, <1>4, <1>5 DEF BlockInv

(* exec() starts with no heap page.                                        *)
LEMMA ExecBlocks ==
  ASSUME Basic, BlockInv, NEW p \in Procs, Exec(p)
  PROVE  BlockInv'
<1>1. CASE \E why \in {"uvmunmap: walk", "freewalk: leaf"} : Panic(why)
  BY <1>1, FrameBlocks DEF Panic, procVars
<1>2. CASE ~ \E why \in {"uvmunmap: walk", "freewalk: leaf"} : Panic(why)
  <2> DEFINE NoneLoaded == [s \in Slot |-> FALSE]
             Fresh == [a \in Page |-> ZeroPage]
             NoVer == [a \in Page |-> 0]
  <2>1. /\ addr' = [addr EXCEPT ![p] = NoSlot]
        /\ loaded' = [loaded EXCEPT ![p] = NoneLoaded]
        /\ start' = [start EXCEPT ![p] = NoSlot]
        /\ mapped' = [mapped EXCEPT ![p] = {}]
        /\ mem' = [mem EXCEPT ![p] = Fresh]
        /\ ver' = [ver EXCEPT ![p] = NoVer]
        /\ pc[p] = "user"
        /\ UNCHANGED <<pc, h, disk, clash>>
    BY <1>2 DEF Exec
  <2>2. \A a \in Page : NoVer[a] = 0
    OBVIOUS
  <2> HIDE DEF NoneLoaded, Fresh, NoVer
  <2>3. /\ \A s \in Slot : addr'[p][s] = None
        /\ mapped'[p] = {} /\ ver'[p] = NoVer /\ pc'[p] = "user"
    BY <2>1 DEF Basic, TypeOK, NoSlot
  <2>4. BlocksOK(p)'
    BY <2>2, <2>3 DEF BlocksOK, Holds
  <2>5. ASSUME NEW r \in Procs, BlocksOK(r), r # p
        PROVE  BlocksOK(r)'
    <3>1. /\ addr'[r] = addr[r] /\ loaded'[r] = loaded[r] /\ start'[r] = start[r]
          /\ mapped'[r] = mapped[r] /\ mem'[r] = mem[r] /\ ver'[r] = ver[r]
      BY <2>1, <2>5 DEF Basic, TypeOK
    <3>2. h[r].grp \in Group
      BY DEF Basic, TypeOK, Handler
    <3> QED BY <2>1, <2>5, <3>1, <3>2, OtherBlocks
  <2> QED BY <2>1, <2>4, <2>5 DEF BlockInv
<1> QED BY <1>1, <1>2

(* In address space k of p and save area d the first block of every page   *)
(* is in memory or on disk, and a page that is nowhere was never written.  *)
SpaceBlocks(p, k, d) ==
  /\ \A b \in k.mp : k.m[b][0] = Data(p, b, 0, ver[p][b])
  /\ \A u \in Slot, g \in Group :
       addr[p][u] # None /\ k.st[u] = g /\ ~k.ld[u]
         => d[g][0] = Data(p, addr[p][u], 0, ver[p][addr[p][u]])
  /\ \A b \in Page :
       (\A u \in Slot : addr[p][u] = b => ~k.ld[u] /\ k.st[u] = None)
         => ver[p][b] = 0

(* Mapping the faulting page, in an address space k whose blocks are where *)
(* they should be: a page that was never swapped out was never written.    *)
LEMMA MapPageBlocks ==
  ASSUME Basic, NEW p \in Procs, NEW s \in Slot, NEW from \in BOOLEAN, NEW k,
         MapPage(p, s, from, k), addr[p][s] \in Page,
         k.ld \in [Slot -> BOOLEAN], k.st \in [Slot -> Group \cup {None}],
         k.mp \in SUBSET Page, k.m \in [Page -> PageData],
         ~k.ld[s], from = (k.st[s] # None), UNCHANGED <<addr, ver>>,
         SpaceBlocks(p, k, disk')
  PROVE  BlocksOK(p)'
<1> DEFINE a == addr[p][s]
           ld == [k.ld EXCEPT ![s] = TRUE]
           mp == k.mp \cup {a}
           m == [k.m EXCEPT ![a] = ZeroPage]
           hp == IF from THEN [Idle EXCEPT !.slot = s, !.from = TRUE] ELSE Idle
           pp == IF from THEN "retrieve" ELSE "user"
<1>1. /\ loaded' = [loaded EXCEPT ![p] = ld]
      /\ start' = [start EXCEPT ![p] = k.st]
      /\ mapped' = [mapped EXCEPT ![p] = mp]
      /\ mem' = [mem EXCEPT ![p] = m]
      /\ pc' = [pc EXCEPT ![p] = pp]
      /\ h' = [h EXCEPT ![p] = hp]
  BY DEF MapPage
<1>2. hp.i = 0 /\ (from => hp.slot = s) /\ (pp = "retrieve" <=> from) /\ pp # "evict"
  BY DEF Idle
<1>3. \A u \in Slot : ld[u] = (u = s \/ k.ld[u])
  OBVIOUS
<1>4. m[a] = ZeroPage /\ \A b \in Page : b # a => m[b] = k.m[b]
  OBVIOUS
<1> HIDE DEF ld, m, hp, pp
<1>5. /\ loaded'[p] = ld /\ start'[p] = k.st /\ mapped'[p] = mp /\ mem'[p] = m
      /\ pc'[p] = pp /\ h'[p] = hp
  BY <1>1 DEF Basic, TypeOK
<1>6. ASSUME NEW b \in mp, ~(from /\ b = a)
      PROVE  m[b][0] = Data(p, b, 0, ver[p][b])
  <2>1. CASE b = a
    <3>1. \A u \in Slot : addr[p][u] = b => u = s
      <4>1. b # None
        BY <2>1, ConstAssumption
      <4> QED BY <2>1, <4>1, SlotUnique
    <3>2. ver[p][b] = 0
      BY <1>6, <2>1, <3>1 DEF SpaceBlocks
    <3>3. ZeroPage[0] = Zero
      BY ConstAssumption DEF ZeroPage
    <3> QED BY <1>4, <2>1, <3>2, <3>3 DEF Data
  <2>2. CASE b # a
    BY <1>4, <2>2 DEF SpaceBlocks
  <2> QED BY <2>1, <2>2
<1>7. ASSUME NEW u \in Slot, NEW g \in Group, Holds(p, u, g)'
      PROVE  disk'[g][0] = Data(p, addr[p][u], 0, ver[p][addr[p][u]])
  <2>1. addr[p][u] # None /\ k.st[u] = g /\ ~k.ld[u]
    <3>1. addr[p][u] # None /\ k.st[u] = g /\ (u = s \/ ~ld[u])
      BY <1>2, <1>5, <1>7 DEF Holds
    <3>2. CASE u = s
      BY <3>1, <3>2
    <3>3. CASE u # s
      BY <1>3, <3>1, <3>3
    <3> QED BY <3>2, <3>3
  <2> QED BY <2>1 DEF SpaceBlocks
<1>8. ASSUME NEW b \in Page,
             \A u \in Slot : addr[p][u] = b => ~ld[u] /\ k.st[u] = None
      PROVE  ver[p][b] = 0
  BY <1>3, <1>8 DEF SpaceBlocks
<1>9. \A b \in mapped'[p] : ~(pc'[p] = "retrieve" /\ b = addr'[p][h'[p].slot]) =>
        mem'[p][b][0] = Data(p, b, 0, ver'[p][b])
  BY <1>2, <1>5, <1>6
<1>10. ~(h'[p].i > 0) /\ pc'[p] # "evict"
  BY <1>2, <1>5
<1> QED BY <1>5, <1>7, <1>8, <1>9, <1>10 DEF BlocksOK, Wanted

(* A fault on a heap page chooses its victim and its blocks.               *)
LEMMA HeapFaultBlocks ==
  ASSUME Basic, BlockInv, NEW p \in Procs, NEW a \in Page, HeapFault(p, a)
  PROVE  BlockInv'
<1> DEFINE s == SlotOf(p, a)
           from == FromDisk(p, s)
           k == Space(p)
<1>0. TypeOK /\ ProcOK(p) /\ pc[p] = "user"
  BY DEF Basic, HeapFault
<1>1. s \in Slot /\ addr[p][s] = a /\ ~loaded[p][s]
  BY FaultSlot DEF HeapFault
<1>2. from \in BOOLEAN /\ from = (start[p][s] # None)
  BY DEF FromDisk
<1>3. \A r \in Procs : h[r].grp \in Group
  BY <1>0 DEF TypeOK, Handler
<1>4. CASE resident[p] # MaxRes
  <2>1. MapPage(p, s, from, k) /\ UNCHANGED <<addr, disk, ver, clash>>
    BY <1>4 DEF HeapFault
  <2>2. /\ k.ld = loaded[p] /\ k.st = start[p] /\ k.mp = mapped[p] /\ k.m = mem[p]
    BY DEF Space
  <2> HIDE DEF s, from, k
  <2>3. /\ k.ld \in [Slot -> BOOLEAN] /\ k.st \in [Slot -> Group \cup {None}]
        /\ k.mp \in SUBSET Page /\ k.m \in [Page -> PageData]
    BY <1>0, <2>2 DEF TypeOK
  <2>4. ASSUME BlocksOK(p)
        PROVE  BlocksOK(p)'
    <3>1. SpaceBlocks(p, k, disk')
      BY <1>0, <2>1, <2>2, <2>4 DEF SpaceBlocks, BlocksOK, Wanted, Holds
    <3>2. ~k.ld[s] /\ from = (k.st[s] # None) /\ addr[p][s] \in Page
      BY <1>1, <1>2, <2>2
    <3> QED BY <1>1, <1>2, <2>1, <2>3, <3>1, <3>2, MapPageBlocks
  <2>5. ASSUME NEW r \in Procs, BlocksOK(r), r # p
        PROVE  BlocksOK(r)'
    <3>1. /\ loaded'[r] = loaded[r] /\ start'[r] = start[r] /\ pc'[r] = pc[r]
          /\ mapped'[r] = mapped[r] /\ mem'[r] = mem[r] /\ h'[r] = h[r]
      BY <1>0, <2>1, <2>5 DEF TypeOK, MapPage
    <3> QED BY <1>3, <2>1, <2>5, <3>1, OtherBlocks
  <2> QED BY <2>1, <2>4, <2>5 DEF BlockInv
<1>5. CASE resident[p] = MaxRes
  <2> DEFINE v == Victim(p)
             hp == [slot |-> s, from |-> from, victim |-> v, grp |-> PickGroup,
                    i |-> 0, buf |-> mem[p][addr[p][v]]]
  <2>1. /\ pc' = [pc EXCEPT ![p] = "evict"]
        /\ h' = [h EXCEPT ![p] = hp]
        /\ clash => clash'
        /\ UNCHANGED <<addr, loaded, start, mapped, mem, disk, ver>>
    BY <1>5 DEF HeapFault, procVars
  <2>2. v \in Slot /\ addr[p][v] \in mapped[p]
    BY <1>0, <1>5, VictimLoaded
  <2>3. hp.i = 0 /\ hp.victim = v /\ hp.buf = mem[p][addr[p][v]]
    OBVIOUS
  <2> HIDE DEF hp, v
  <2>4. pc'[p] = "evict" /\ h'[p] = hp
    BY <1>0, <2>1 DEF TypeOK
  <2>5. ASSUME BlocksOK(p)
        PROVE  BlocksOK(p)'
    <3>1. \A b \in mapped[p] : mem[p][b][0] = Data(p, b, 0, ver[p][b])
      BY <1>0, <2>5 DEF BlocksOK, Wanted
    <3>2. \A u \in Slot, g \in Group :
            Holds(p, u, g)' => disk[g][0] = Data(p, addr[p][u], 0, ver[p][addr[p][u]])
      BY <1>0, <2>1, <2>4, <2>5 DEF BlocksOK, Wanted, Holds
    <3>3. hp.buf[0] = Data(p, addr[p][v], 0, ver[p][addr[p][v]])
      BY <2>2, <2>3, <3>1
    <3>4. \A b \in Page :
            (\A u \in Slot : addr[p][u] = b => ~loaded[p][u] /\ start[p][u] = None)
              => ver[p][b] = 0
      BY <2>5 DEF BlocksOK
    <3>5. ~(hp.i > 0)
      BY <2>3
    <3> QED BY <2>1, <2>3, <2>4, <3>1, <3>2, <3>3, <3>4, <3>5 DEF BlocksOK, Wanted
  <2>6. ASSUME NEW r \in Procs, BlocksOK(r), r # p
        PROVE  BlocksOK(r)'
    <3>1. pc'[r] = pc[r] /\ h'[r] = h[r]
      BY <1>0, <2>1, <2>6 DEF TypeOK
    <3> QED BY <1>3, <2>1, <2>6, <3>1, OtherBlocks
  <2> QED BY <2>1, <2>5, <2>6 DEF BlockInv
<1> QED BY <1>4, <1>5

(* The first block of the victim goes to the first block of a group nobody *)
(* else holds or fills.                                                    *)
LEMMA EvictBlocks ==
  ASSUME Basic, SwapInv, BlockInv, NEW p \in Procs, EvictStep(p)
  PROVE  BlockInv'
<1> DEFINE G == h[p].grp
           i == h[p].i
           s == h[p].slot
           v == h[p].victim
           from == h[p].from
           k == SpaceAfterEvict(p)
<1>0. TypeOK /\ ProcOK(p) /\ pc[p] = "evict" /\ UNCHANGED <<ver, clash>>
  BY DEF Basic, EvictStep
<1>1. h[p] \in Handler
  BY <1>0 DEF TypeOK
<1>2. /\ G \in Group /\ i \in Q /\ s \in Slot /\ v \in Slot /\ from \in BOOLEAN
      /\ InFlight(p, G)
  BY <1>0, <1>1 DEF Handler, InFlight
<1>3. /\ disk'[G][0] = h[p].buf[0]
      /\ \A g \in Group : g # G => disk'[g] = disk[g]
  <2>1. disk \in [Group -> [Q -> Content]] /\ 0 \in Q
    BY <1>0, ConstAssumption DEF TypeOK
  <2>2. disk' = [disk EXCEPT ![G] = [disk[G] EXCEPT ![0] = h[p].buf[0]]]
    BY DEF EvictStep, EvictBlock
  <2> HIDE DEF G
  <2> QED BY <1>2, <2>1, <2>2
<1>4. CASE clash
  BY <1>0, <1>4 DEF BlockInv
<1>5. CASE ~clash
  <2>1. /\ \A r \in Procs, u \in Slot : ~Holds(r, u, G)
        /\ \A r \in Procs : InFlight(r, G) => r = p
    BY <1>2, <1>5 DEF SwapInv, SwapPairs
  <2>2. \A r \in Procs : BlocksOK(r) /\ h[r].grp \in Group
    BY <1>0, <1>5 DEF BlockInv, TypeOK, Handler
  <2>3. \A r \in Procs, g \in Group :
          (r # p /\ InFlight(r, g)) \/ (\E u \in Slot : Holds(r, u, g))
             => disk'[g][0] = disk[g][0]
    BY <1>3, <2>1
  <2>4. h[p].buf[0] = Data(p, addr[p][v], 0, ver[p][addr[p][v]])
    BY <1>0, <2>2 DEF BlocksOK, Wanted
  <2>5. \A b \in mapped[p] : mem[p][b][0] = Data(p, b, 0, ver[p][b])
    BY <1>0, <2>2 DEF BlocksOK, Wanted
  <2>6. \A u \in Slot, g \in Group : Holds(p, u, g) =>
          disk'[g][0] = Data(p, addr[p][u], 0, ver[p][addr[p][u]])
    BY <1>0, <2>2, <2>3 DEF BlocksOK, Wanted
  <2>7. \A b \in Page :
          (\A u \in Slot : addr[p][u] = b => ~loaded[p][u] /\ start[p][u] = None)
            => ver[p][b] = 0
    BY <2>2 DEF BlocksOK
  <2>8. CASE i < BPP - 1
    <3> DEFINE hp == [h[p] EXCEPT !.i = NextBlock(i)]
    <3>1. h' = [h EXCEPT ![p] = hp] /\ UNCHANGED <<pc, procVars>>
      BY <1>2, <2>8, ConstAssumption DEF EvictStep
    <3>2. hp.victim = v /\ hp.grp = G /\ hp.buf = h[p].buf
      BY <1>1 DEF Handler
    <3> HIDE DEF hp
    <3>3. h'[p] = hp
      BY <1>0, <3>1 DEF TypeOK
    <3>4. BlocksOK(p)'
      <4>1. \A u \in Slot, g \in Group : Holds(p, u, g)' => Holds(p, u, g)
        BY <1>0, <3>1 DEF Holds, procVars
      <4>2. \A u \in Slot, g \in Group : Holds(p, u, g)' =>
              disk'[g][0] = Data(p, addr[p][u], 0, ver[p][addr[p][u]])
        BY <2>6, <4>1
      <4>3. /\ hp.buf[0] = Data(p, addr[p][v], 0, ver[p][addr[p][v]])
            /\ disk'[hp.grp][0] = hp.buf[0]
        BY <1>3, <2>4, <3>2
      <4> HIDE DEF G, i, s, v, from, k
      <4> QED BY <1>0, <2>5, <2>7, <3>1, <3>2, <3>3, <4>2, <4>3
              DEF BlocksOK, Wanted, procVars
    <3>5. ASSUME NEW r \in Procs, r # p
          PROVE  BlocksOK(r)'
      <4>1. h'[r] = h[r]
        BY <1>0, <3>1, <3>5 DEF TypeOK
      <4> QED BY <1>0, <2>2, <2>3, <3>1, <3>5, <4>1, OtherBlocks DEF procVars
    <3> QED BY <3>4, <3>5 DEF BlockInv
  <2>9. CASE ~(i < BPP - 1)
    <3>1. MapPage(p, s, from, k) /\ UNCHANGED addr
      BY <2>9 DEF EvictStep
    <3>2. /\ k.ld = [loaded[p] EXCEPT ![v] = FALSE]
          /\ k.st = [start[p] EXCEPT ![v] = G]
          /\ k.mp = mapped[p] \ {addr[p][v]}
          /\ k.m = [mem[p] EXCEPT ![addr[p][v]] = ZeroPage]
      BY DEF SpaceAfterEvict
    <3>3. /\ loaded[p][v] /\ ~loaded[p][s] /\ s # v
          /\ addr[p][s] \in Page /\ from = (start[p][s] # None)
          /\ addr[p][v] \in mapped[p]
      BY <1>0, <1>2 DEF ProcOK, MappedOK, HandlerOK, LoadedSlots
    <3> HIDE DEF k, G, i, s, v, from
    <3>4. /\ loaded[p] \in [Slot -> BOOLEAN]
          /\ start[p] \in [Slot -> Group \cup {None}]
          /\ mapped[p] \in SUBSET Page
          /\ mem[p] \in [Page -> PageData]
      BY <1>0 DEF TypeOK
    <3>5. /\ k.ld \in [Slot -> BOOLEAN] /\ k.st \in [Slot -> Group \cup {None}]
          /\ k.mp \in SUBSET Page
      BY <1>2, <3>2, <3>4
    <3>6. k.m \in [Page -> PageData]
      <4>1. [mem[p] EXCEPT ![addr[p][v]] = ZeroPage] \in [Page -> PageData]
        BY <3>3, <3>4, ZeroPageType
      <4> QED BY <3>2, <4>1
    <3>7. /\ \A u \in Slot : k.ld[u] = (u # v /\ loaded[p][u])
          /\ \A u \in Slot : k.st[u] = IF u = v THEN G ELSE start[p][u]
          /\ \A b \in k.mp : k.m[b] = mem[p][b]
      <4>1. \A u \in Slot : k.ld[u] = (u # v /\ loaded[p][u])
        <5>1. k.ld[v] = FALSE /\ \A u \in Slot : u # v => k.ld[u] = loaded[p][u]
          BY <1>2, <3>2, <3>4
        <5> QED BY <3>4, <3>5, <5>1
      <4>2. \A u \in Slot : k.st[u] = IF u = v THEN G ELSE start[p][u]
        BY <1>2, <3>2, <3>4
      <4>3. \A b \in k.mp : k.m[b] = mem[p][b]
        BY <3>2, <3>4
      <4> QED BY <4>1, <4>2, <4>3
    <3>8. ~k.ld[s] /\ from = (k.st[s] # None)
      BY <1>2, <3>3, <3>7
    <3>9. \A b \in k.mp : k.m[b][0] = Data(p, b, 0, ver[p][b])
      BY <2>5, <3>2, <3>7
    <3>10. ASSUME NEW u \in Slot, NEW g \in Group,
                  addr[p][u] # None, k.st[u] = g, ~k.ld[u]
           PROVE  disk'[g][0] = Data(p, addr[p][u], 0, ver[p][addr[p][u]])
      <4>1. CASE u = v
        BY <1>3, <2>4, <3>7, <3>10, <4>1
      <4>2. CASE u # v
        BY <2>6, <3>7, <3>10, <4>2 DEF Holds
      <4> QED BY <4>1, <4>2
    <3>11. ASSUME NEW b \in Page,
                  \A u \in Slot : addr[p][u] = b => ~k.ld[u] /\ k.st[u] = None
           PROVE  ver[p][b] = 0
      <4>1. k.st[v] # None
        BY <1>2, <3>7, ConstAssumption
      <4>2. \A u \in Slot : addr[p][u] = b => ~loaded[p][u] /\ start[p][u] = None
        BY <1>2, <3>7, <3>11, <4>1
      <4> QED BY <2>7, <4>2
    <3>12. BlocksOK(p)'
      <4>1. SpaceBlocks(p, k, disk')
        BY <3>9, <3>10, <3>11 DEF SpaceBlocks
      <4> QED BY <1>0, <1>2, <3>1, <3>3, <3>5, <3>6, <3>8, <4>1, MapPageBlocks
    <3>13. ASSUME NEW r \in Procs, r # p
           PROVE  BlocksOK(r)'
      <4>1. /\ loaded'[r] = loaded[r] /\ start'[r] = start[r] /\ pc'[r] = pc[r]
            /\ mapped'[r] = mapped[r] /\ mem'[r] = mem[r] /\ h'[r] = h[r]
        BY <1>0, <3>1, <3>13 DEF TypeOK, MapPage
      <4> QED BY <1>0, <2>2, <2>3, <3>1, <3>13, <4>1, OtherBlocks
    <3> QED BY <3>12, <3>13 DEF BlockInv
  <2> QED BY <2>8, <2>9
<1> QED BY <1>4, <1>5

(* What is read back is what was written: the first block goes through the *)
(* handler's buffer into the page.                                         *)
LEMMA RetrieveBlocks ==
  ASSUME Basic, BlockInv, NEW p \in Procs, RetrieveStep(p)
  PROVE  BlockInv'
<1> DEFINE s == h[p].slot
           i == h[p].i
           G == start[p][s]
           buf == [h[p].buf EXCEPT ![i] = disk[G][i]]
           A == addr[p][s]
<1>0. /\ TypeOK /\ ProcOK(p) /\ pc[p] = "retrieve"
      /\ UNCHANGED <<addr, loaded, start, mapped, disk, ver, clash>>
  BY DEF Basic, RetrieveStep
<1>1. h[p] \in Handler
  BY <1>0 DEF TypeOK
<1>2. i \in Q /\ s \in Slot /\ h[p].buf \in PageData
  BY <1>1 DEF Handler
<1>3. /\ G \in Group /\ loaded[p][s] /\ A # None /\ A \in mapped[p] /\ A \in Page
  <2>1. start[p] \in [Slot -> Group \cup {None}]
    BY <1>0 DEF TypeOK
  <2>2. G # None /\ loaded[p][s] /\ A # None /\ A \in mapped[p]
    BY <1>0, <1>2 DEF ProcOK, HandlerOK, MappedOK, AddrOK, LoadedSlots
  <2> QED BY <1>0, <1>2, <2>1, <2>2 DEF TypeOK
<1>4. Holds(p, s, G)
  BY <1>0, <1>3 DEF Holds
<1>5. ASSUME BlocksOK(p)
      PROVE  buf[0] = Data(p, A, 0, ver[p][A])
  <2>1. 0 \in Q /\ h[p].buf \in [Q -> Content]
    BY <1>2, ConstAssumption DEF PageData
  <2>2. CASE i = 0
    <3>1. disk[G][0] = Data(p, A, 0, ver[p][A])
      BY <1>0, <1>2, <1>3, <1>4, <1>5, <2>2 DEF BlocksOK, Wanted
    <3>2. buf[0] = disk[G][0]
      BY <2>1, <2>2
    <3> QED BY <3>1, <3>2
  <2>3. CASE i # 0
    <3>1. i > 0
      BY <1>2, <2>3, ConstAssumption
    <3>2. h[p].buf[0] = Data(p, A, 0, ver[p][A])
      BY <1>0, <1>5, <3>1 DEF BlocksOK, Wanted
    <3>3. buf[0] = h[p].buf[0]
      BY <2>1, <2>3
    <3> QED BY <3>2, <3>3
  <2> QED BY <2>2, <2>3
<1> HIDE DEF buf
<1>6. \A r \in Procs : h[r].grp \in Group
  BY <1>0 DEF TypeOK, Handler
<1>7. CASE i < BPP - 1
  <2>1. /\ h' = [h EXCEPT ![p].i = NextBlock(@), ![p].buf = buf]
        /\ UNCHANGED <<pc, mem>>
    <3>1. i # BPP - 1
      BY <1>2, <1>7, ConstAssumption
    <3> QED BY <3>1, Zenon DEF RetrieveStep, buf
  <2>2. h \in [Procs -> Handler]
    BY <1>0 DEF TypeOK
  <2>3. h'[p].slot = s /\ h'[p].buf = buf /\ h'[p].i = i + 1
    BY <1>1, <2>1, <2>2 DEF Handler, NextBlock
  <2>4. h'[p].i > 0
    BY <1>2, <2>3, ConstAssumption
  <2> HIDE DEF s, i, G, A
  <2>5. ASSUME BlocksOK(p)
        PROVE  BlocksOK(p)'
    <3>1. \A b \in mapped[p] : b # A => mem[p][b][0] = Data(p, b, 0, ver[p][b])
      BY <1>0, <2>5 DEF BlocksOK, Wanted, A, s
    <3>2. \A u \in Slot, g \in Group : Holds(p, u, g)' /\ u # s =>
            disk[g][0] = Data(p, addr[p][u], 0, ver[p][addr[p][u]])
      BY <1>0, <2>1, <2>3, <2>5 DEF BlocksOK, Wanted, Holds, s
    <3>3. \A b \in Page :
            (\A u \in Slot : addr[p][u] = b => ~loaded[p][u] /\ start[p][u] = None)
              => ver[p][b] = 0
      BY <2>5 DEF BlocksOK
    <3>4. h'[p].buf[0] = Data(p, A, 0, ver[p][A])
      BY <1>5, <2>3, <2>5
    <3>5. addr'[p][h'[p].slot] = A
      BY <1>0, <2>3 DEF A
    <3>6. pc'[p] = "retrieve"
      BY <1>0, <2>1
    <3> QED BY <1>0, <2>1, <2>3, <2>4, <3>1, <3>2, <3>3, <3>4, <3>5, <3>6
            DEF BlocksOK, Wanted
  <2>6. ASSUME NEW r \in Procs, BlocksOK(r), r # p
        PROVE  BlocksOK(r)'
    <3>1. h'[r] = h[r]
      BY <2>1, <2>2, <2>6
    <3> QED BY <1>0, <1>6, <2>1, <2>6, <3>1, OtherBlocks
  <2> QED BY <1>0, <2>5, <2>6 DEF BlockInv
<1>8. CASE ~(i < BPP - 1)
  <2>1. /\ mem' = [mem EXCEPT ![p] = [mem[p] EXCEPT ![A] = buf]]
        /\ pc' = [pc EXCEPT ![p] = "user"]
        /\ h' = [h EXCEPT ![p] = Idle]
    BY <1>8 DEF RetrieveStep, buf
  <2>2. mem[p] \in [Page -> PageData] /\ mapped[p] \subseteq Page
    BY <1>0 DEF TypeOK
  <2>3. pc'[p] = "user" /\ mem'[p] = [mem[p] EXCEPT ![A] = buf]
    BY <1>0, <2>1 DEF TypeOK
  <2> HIDE DEF s, i, G, A
  <2>4. ASSUME BlocksOK(p)
        PROVE  BlocksOK(p)'
    <3>1. \A b \in mapped[p] : mem'[p][b][0] = Data(p, b, 0, ver[p][b])
      <4> TAKE b \in mapped[p]
      <4>1. CASE b = A
        BY <1>3, <1>5, <2>2, <2>3, <2>4, <4>1
      <4>2. CASE b # A
        <5>1. mem[p][b][0] = Data(p, b, 0, ver[p][b])
          BY <1>0, <2>4, <4>2 DEF BlocksOK, Wanted, A, s
        <5> QED BY <2>2, <2>3, <4>2, <5>1
      <4> QED BY <4>1, <4>2
    <3>2. ASSUME NEW u \in Slot, NEW g \in Group, Holds(p, u, g)'
          PROVE  disk[g][0] = Data(p, addr[p][u], 0, ver[p][addr[p][u]])
      <4>1. Holds(p, u, g) /\ u # s
        BY <1>0, <1>3, <2>3, <3>2 DEF Holds
      <4> QED BY <2>4, <4>1 DEF BlocksOK, Wanted, s
    <3>3. \A b \in Page :
            (\A u \in Slot : addr[p][u] = b => ~loaded[p][u] /\ start[p][u] = None)
              => ver[p][b] = 0
      BY <2>4 DEF BlocksOK
    <3> QED BY <1>0, <2>3, <3>1, <3>2, <3>3 DEF BlocksOK, Wanted
  <2>5. ASSUME NEW r \in Procs, BlocksOK(r), r # p
        PROVE  BlocksOK(r)'
    <3>1. h'[r] = h[r] /\ pc'[r] = pc[r] /\ mem'[r] = mem[r]
      BY <1>0, <2>1, <2>5 DEF TypeOK
    <3> QED BY <1>0, <1>6, <2>5, <3>1, OtherBlocks
  <2> QED BY <1>0, <2>4, <2>5 DEF BlockInv
<1> QED BY <1>7, <1>8

(* Every step preserves BlockInv.                                          *)
LEMMA NextBlocks ==
  ASSUME Basic, SwapInv, BlockInv, [Next]_vars
  PROVE  BlockInv'
<1>1. ASSUME NEW why, Panic(why) PROVE BlockInv'
  BY <1>1, FrameBlocks DEF Panic, procVars
<1>2. ASSUME NEW p \in Procs, NEW n \in SbrkPages, Sbrk(p, n)
      PROVE  BlockInv'
  BY <1>2, SbrkBlocks
<1>3. ASSUME NEW p \in Procs, NEW a \in Page,
             Store(p, a) \/ HeapFault(p, a) \/ HeapFaultNoMem(p, a)
      PROVE  BlockInv'
  <2>1. CASE Store(p, a)
    BY <2>1, StoreBlocks
  <2>2. CASE HeapFault(p, a)
    BY <2>2, HeapFaultBlocks
  <2>3. CASE HeapFaultNoMem(p, a)
    BY <2>3, <1>1 DEF HeapFaultNoMem
  <2> QED BY <1>3, <2>1, <2>2, <2>3
<1>4. ASSUME NEW p \in Procs, NEW a \in Page, NEW st \in BOOLEAN,
             NEW f \in {"ok", "missing", "bad"}, SegFault(p, a, st, f)
      PROVE  BlockInv'
  <2>1. CASE \E why \in {"remap", "freed page table"} : Panic(why)
    BY <1>1, <2>1
  <2>2. CASE ~ \E why \in {"remap", "freed page table"} : Panic(why)
    BY <1>4, <2>2, FrameBlocks DEF SegFault
  <2> QED BY <2>1, <2>2
<1>5. ASSUME NEW p \in Procs, EvictStep(p) \/ EvictNoMem(p) \/ RetrieveStep(p)
      PROVE  BlockInv'
  <2>1. CASE EvictStep(p)
    BY <2>1, EvictBlocks
  <2>2. CASE EvictNoMem(p)
    BY <2>2, <1>1 DEF EvictNoMem
  <2>3. CASE RetrieveStep(p)
    BY <2>3, RetrieveBlocks
  <2> QED BY <1>5, <2>1, <2>2, <2>3
<1>6. ASSUME NEW p \in Procs, Exec(p)
      PROVE  BlockInv'
  BY <1>6, ExecBlocks
<1>7. CASE Tick
  BY <1>7, FrameBlocks DEF Tick, procVars
<1>8. CASE UNCHANGED vars
  BY <1>8, FrameBlocks DEF vars
<1> QED BY <1>2, <1>3, <1>4, <1>5, <1>6, <1>7, <1>8 DEF Next, Halted

-----------------------------------------------------------------------------
(* The whole inductive invariant: types, one process' tracker, who holds   *)
(* which blocks, and where the first block of every page is.               *)
THEOREM SwapInvariance == Spec => [](Basic /\ SwapInv /\ BlockInv)
<1> DEFINE I == Basic /\ SwapInv /\ BlockInv
<1>1. Init => I
  BY InitBasic, InitSwap, InitBlocks
<1>2. I /\ [Next]_vars => I'
  BY NextBasic, NextSwap, NextBlocks
<1> HIDE DEF I
<1>3. Spec => []I
  BY <1>1, <1>2, PTL DEF Spec
<1> QED BY <1>3 DEF I

(* While no eviction has run into a full save area or into another one's   *)
(* unmarked group, a group of blocks belongs to one page, is not handed    *)
(* out again and stays marked until it is read back, for every number of   *)
(* processes evicting and retrieving at once.                              *)
THEOREM SwapExclusiveCorrect == Spec => []SwapExclusive
<1>1. ASSUME Basic, SwapInv PROVE SwapExclusive
  BY <1>1, HeldMarked DEF SwapExclusive, SwapInv, SwapPairs
<1> QED BY <1>1, SwapInvariance, PTL

(* Under the same condition the first block of a heap page survives any    *)
(* number of trips to disk and back, by evict_page_to_disk and             *)
(* retrieve_page_from_disk, whatever other processes do meanwhile.         *)
THEOREM FirstBlockCorrect == Spec => []FirstBlockKept
<1>1. BlockInv => FirstBlockKept
  BY DEF BlockInv, BlocksOK, FirstBlockKept
<1> QED BY <1>1, SwapInvariance, PTL
=============================================================================
