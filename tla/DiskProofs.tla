----------------------------- MODULE DiskProofs -----------------------------
(* Proofs about Disk, for any number of processes, blocks, buffers and descriptors.                 *)
EXTENDS Disk, Integers, FiniteSetTheorems, SequenceTheorems, WellFoundedInduction, TLAPS

----------------------------------------------------------------------------
(* The inductive invariant. *)

States == {"idle", "lock", "lockSleep", "have", "rw", "descSleep", "ioSleep", "io", "release"}

BuffersOK ==
  /\ blockno \in [Buf -> Block \cup {None}] /\ refcnt \in [Buf -> Nat]
  /\ valid \in [Buf -> BOOLEAN] /\ data \in [Buf -> BOOLEAN] /\ own \in [Buf -> BOOLEAN]
  /\ locked \in [Buf -> Proc \cup {None}] /\ platter \in [Block -> BOOLEAN]
ProcsOK ==
  /\ pc \in [Proc -> States] /\ want \in [Proc -> Block \cup {None}]
  /\ cur \in [Proc -> Buf] /\ write \in [Proc -> BOOLEAN]
QueuesOK ==
  /\ free \subseteq Desc /\ next \in [Desc -> Desc] /\ info \in [Desc -> Request \cup {None}]
  /\ avail \in Seq(Desc) /\ used \in Seq(Desc) /\ taken \subseteq Desc
  /\ irq \in BOOLEAN /\ intr \in {"off", "loop"}

\* The list has every buffer.
ListOK == lru \in [1..NBUF -> Buf] /\ \A i \in Buf : \E k \in 1..NBUF : lru[k] = i

\* Where a process is, asleep or not.
Locking(p)  == pc[p] \in {"lock", "lockSleep"}
Asking(p)   == pc[p] \in {"rw", "descSleep"}
Transfer(p) == pc[p] \in {"io", "ioSleep"}
Holding(p)  == pc[p] = "have" \/ Asking(p) \/ Transfer(p)

\* Buffers: one for each block, and those that a process has are not recycled.
Users(i) == {p \in Proc : pc[p] # "idle" /\ cur[p] = i}

CacheInv ==
  /\ \A i, j \in Buf : blockno[i] = blockno[j] /\ blockno[i] # None => i = j
  /\ \A p \in Proc : pc[p] # "idle" => blockno[cur[p]] = want[p] /\ want[p] \in Block
  /\ \A i \in Buf : refcnt[i] = Cardinality(Users(i))

LockInv == \A p \in Proc : Holding(p) => locked[cur[p]] = p

\* Requests: one for each process that waits for a transfer.
Heads == {d \in Desc : info[d] # None}
Coming == ToSet(avail) \cup taken
InFlight == Coming \cup ToSet(used)

Serves(d, p) == /\ Transfer(p) /\ cur[p] = info[d].b
                /\ write[p] = info[d].write /\ want[p] = info[d].sector

RequestInv ==
  /\ \A d \in Heads : \E p \in Proc : Serves(d, p)
  /\ \A d, e \in Heads : info[d].b = info[e].b => d = e
  /\ \A p \in Proc : Transfer(p) => \E d \in Heads : info[d].b = cur[p]

OwnInv ==
  /\ InFlight \subseteq Heads
  /\ \A d \in Heads : own[info[d].b] <=> d \in InFlight
  /\ \A p \in Proc : pc[p] = "ioSleep" => own[cur[p]]

Distinct(s) == \A i, j \in DOMAIN s : s[i] = s[j] => i = j

RingInv ==
  /\ Distinct(avail) /\ Distinct(used)
  /\ ToSet(avail) \cap taken = {} /\ Coming \cap ToSet(used) = {}
  /\ used # <<>> => irq \/ intr = "loop"

\* What buffers and the disk hold.
Pending(p) == /\ write[p]
              /\ Asking(p) \/ (Transfer(p) /\ \E d \in Heads : info[d].b = cur[p] /\ d \in Coming)

DataInv ==
  /\ \A i \in Buf : valid[i] => data[i]
  /\ \A p \in Proc : pc[p] = "have" => valid[cur[p]]
  /\ \A p \in Proc : (Asking(p) \/ Transfer(p)) /\ write[p] => valid[cur[p]]
  /\ \A b \in Block : ~platter[b] => \E p \in Proc : Pending(p) /\ want[p] = b
  /\ \A d \in Heads : d \notin Coming => data[info[d].b]

IInv == /\ BuffersOK /\ ProcsOK /\ QueuesOK /\ ListOK
        /\ CacheInv /\ LockInv /\ RequestInv /\ OwnInv /\ RingInv /\ DataInv
        /\ DescriptorsAccounted

----------------------------------------------------------------------------
(* Sets of numbers, and sequences. *)

\* A set of naturals that is not empty has a least element.
LEMMA LeastNat ==
  ASSUME NEW S \in SUBSET Nat, S # {}
  PROVE  \E n \in S : \A m \in S : n <= m
<1> DEFINE Seg(n) == {k \in Nat : k <= n}
           Segs == {Seg(n) : n \in S}
           R == StrictSubsetOrdering(Nat)
<1>1. \A n \in Nat : Seg(n) \in FiniteSubsetsOf(Nat)
  <2> TAKE n \in Nat
  <2>1. \A k \in Seg(n) : k <= n
    OBVIOUS
  <2>2. Seg(n) \in SUBSET Nat
    OBVIOUS
  <2>3. IsFiniteSet(Seg(n))
    <3> HIDE DEF Seg
    <3> QED BY <2>1, <2>2, FS_BoundedSetOfNaturals
  <2> HIDE DEF Seg
  <2> QED BY <2>2, <2>3 DEF FiniteSubsetsOf
<1>2. Segs \subseteq FiniteSubsetsOf(Nat) /\ Segs # {}
  <2> HIDE DEF Seg
  <2> QED BY <1>1
<1>3. IsWellFoundedOn(R, FiniteSubsetsOf(Nat))
  BY FS_StrictSubsetOrderingWellFounded
<1>4. \E X \in Segs : \A Y \in Segs : <<Y, X>> \notin R
  <2> HIDE DEF Segs, R
  <2> QED BY <1>2, <1>3, WFMin
<1>5. PICK n \in S : \A m \in S : <<Seg(m), Seg(n)>> \notin R
  BY <1>4
<1>6. ASSUME NEW m \in S, m < n PROVE FALSE
  <2>1. \A k \in Nat : k <= m => k <= n
    BY <1>6
  <2>2. n <= n /\ ~(n <= m)
    BY <1>6
  <2>3. Seg(m) \subseteq Seg(n) /\ n \in Seg(n) /\ n \notin Seg(m)
    BY <2>1, <2>2
  <2>4. Seg(m) \in SUBSET Nat /\ Seg(n) \in SUBSET Nat
    OBVIOUS
  <2> HIDE DEF Seg
  <2>5. <<Seg(m), Seg(n)>> \in R
    BY <2>3, <2>4 DEF StrictSubsetOrdering
  <2> QED BY <2>5, <1>5
<1> QED BY <1>6

\* The extremes of a set of places.
LEMMA Extremes ==
  ASSUME NEW S \in SUBSET (1..NBUF), S # {}
  PROVE  Min(S) \in S /\ Max(S) \in S
<1>1. NBUF \in Nat /\ S \subseteq Nat
  BY ConstAssumption
<1>2. Min(S) \in S
  <2>1. PICK n \in S : \A m \in S : n <= m
    BY <1>1, LeastNat
  <2> QED BY <2>1 DEF Min
<1>3. Max(S) \in S
  <2> DEFINE T == {NBUF - n : n \in S}
  <2>0. \A n \in S : n \in 1..NBUF /\ NBUF - n \in Nat
    BY <1>1
  <2>1. T \in SUBSET Nat /\ T # {}
    BY <2>0
  <2>2. PICK t \in T : \A u \in T : t <= u
    <3> HIDE DEF T
    <3> QED BY <2>1, LeastNat
  <2>3. PICK n \in S : t = NBUF - n
    OBVIOUS
  <2>4. \A m \in S : NBUF - m \in T
    OBVIOUS
  <2>5. ASSUME NEW m \in S PROVE n >= m
    <3>1. NBUF - n <= NBUF - m
      BY <2>2, <2>3, <2>4
    <3> QED BY <1>1, <3>1
  <2> QED BY <2>5 DEF Max
<1> QED BY <1>2, <1>3

\* Two different elements make two.
LEMMA PairSize ==
  ASSUME NEW x, NEW y, x # y
  PROVE  IsFiniteSet({x, y}) /\ Cardinality({x, y}) = 2
<1>1. IsFiniteSet({x}) /\ Cardinality({x}) = 1
  BY FS_Singleton
<1>2. IsFiniteSet({x} \cup {y}) /\ Cardinality({x} \cup {y}) = 2
  BY <1>1, FS_AddElement
<1>3. {x} \cup {y} = {x, y}
  OBVIOUS
<1> QED BY <1>2, <1>3

\* The first three elements of a set of descriptors: one with none, one and two below it.
Rank(S, d) == {e \in S : e < d}

\* If T is the lowest part of S, the next element of S has T below it.
LEMMA NthElement ==
  ASSUME NEW S \in SUBSET Desc, NEW T \in SUBSET S, S # T,
         \A t \in T, d \in S \ T : t < d
  PROVE  \E d \in S \ T : Rank(S, d) = T
<1>1. S \ T \in SUBSET Nat /\ S \ T # {}
  <2>1. Desc \subseteq Nat
    BY ConstAssumption DEF Desc
  <2> QED BY <2>1
<1>2. PICK d \in S \ T : \A m \in S \ T : d <= m
  BY <1>1, LeastNat
<1>3. \A e \in S : e < d <=> e \in T
  BY <1>1, <1>2, ConstAssumption DEF Desc
<1> QED BY <1>2, <1>3 DEF Rank

\* The three descriptors that alloc3_desc() finds are free ones, and different.
LEMMA NthFacts ==
  ASSUME free \subseteq Desc, Cardinality(free) >= 3
  PROVE  /\ Nth(1) \in free /\ Nth(2) \in free /\ Nth(3) \in free
         /\ Nth(1) # Nth(2) /\ Nth(1) # Nth(3) /\ Nth(2) # Nth(3)
<1>1. IsFiniteSet(Desc) /\ IsFiniteSet(free) /\ free \in SUBSET Desc
  <2>1. IsFiniteSet(Desc)
    BY FS_Interval, ConstAssumption DEF Desc
  <2> QED BY <2>1, FS_Subset
<1>a. \A d \in free : d \in Int
  BY <1>1, ConstAssumption DEF Desc
<1>2. PICK x \in free : Rank(free, x) = {}
  <2>1. free # {}
    BY FS_EmptySet
  <2> QED BY <1>1, <2>1, NthElement
<1>3. \A d \in free \ {x} : x < d
  BY <1>2, <1>a DEF Rank
<1>4. PICK y \in free \ {x} : Rank(free, y) = {x}
  <2>1. free # {x}
    BY FS_Singleton
  <2>2. {x} \in SUBSET free /\ \A t \in {x}, d \in free \ {x} : t < d
    BY <1>3
  <2> QED BY <1>1, <2>1, <2>2, NthElement
<1>5. \A d \in free \ {x, y} : x < d /\ y < d
  BY <1>3, <1>4, <1>a DEF Rank
<1>6. PICK z \in free \ {x, y} : Rank(free, z) = {x, y}
  <2>1. Cardinality({x, y}) = 2 /\ {x, y} \in SUBSET free
    BY <1>4, PairSize
  <2>2. free # {x, y}
    BY <2>1
  <2>3. \A t \in {x, y}, d \in free \ {x, y} : t < d
    BY <1>5
  <2> QED BY <1>1, <2>1, <2>2, <2>3, NthElement
<1>7. Cardinality(Rank(free, x)) = 0 /\ Cardinality(Rank(free, y)) = 1 /\ Cardinality(Rank(free, z)) = 2
  <2>1. Cardinality({x, y}) = 2
    BY <1>4, PairSize
  <2> QED BY <1>2, <1>4, <1>6, <2>1, FS_EmptySet, FS_Singleton
<1>8. ASSUME NEW k \in {1, 2, 3}
      PROVE  Nth(k) \in free /\ Cardinality(Rank(free, Nth(k))) = k - 1
  <2>1. \E d \in free : Cardinality(Rank(free, d)) = k - 1
    BY <1>7
  <2>2. Nth(k) = CHOOSE d \in free : Cardinality(Rank(free, d)) = k - 1
    BY DEF Nth, Rank
  <2> QED BY <2>1, <2>2
<1>9. Nth(1) \in free /\ Cardinality(Rank(free, Nth(1))) = 0
  BY <1>8
<1>10. Nth(2) \in free /\ Cardinality(Rank(free, Nth(2))) = 1
  BY <1>8
<1>11. Nth(3) \in free /\ Cardinality(Rank(free, Nth(3))) = 2
  BY <1>8
<1> QED BY <1>9, <1>10, <1>11

\* A new entry goes to the end of a ring.
LEMMA RingAppend ==
  ASSUME NEW s \in Seq(Desc), NEW d \in Desc
  PROVE  /\ Append(s, d) \in Seq(Desc) /\ Append(s, d) # <<>>
         /\ ToSet(Append(s, d)) = ToSet(s) \cup {d}
         /\ Distinct(s) /\ d \notin ToSet(s) => Distinct(Append(s, d))
<1> DEFINE t == Append(s, d)
<1>1. /\ t \in Seq(Desc) /\ t # <<>> /\ Len(t) = Len(s) + 1 /\ Len(s) \in Nat
      /\ DOMAIN t = 1..Len(s) + 1 /\ DOMAIN s = 1..Len(s)
      /\ \A i \in 1..Len(s) : t[i] = s[i]
      /\ t[Len(s) + 1] = d
  BY AppendProperties, LenProperties
<1> HIDE DEF t
<1>2. \A i \in DOMAIN t : i \in DOMAIN s \/ i = Len(s) + 1
  BY <1>1
<1>3. ToSet(t) = ToSet(s) \cup {d}
  <2>1. ToSet(t) \subseteq ToSet(s) \cup {d}
    BY <1>1, <1>2 DEF ToSet
  <2>2. \A i \in DOMAIN s : i \in DOMAIN t /\ t[i] = s[i]
    BY <1>1
  <2>3. Len(s) + 1 \in DOMAIN t
    BY <1>1
  <2> QED BY <1>1, <2>1, <2>2, <2>3 DEF ToSet
<1>4. ASSUME Distinct(s), d \notin ToSet(s) PROVE Distinct(t)
  <2> SUFFICES ASSUME NEW i \in DOMAIN t, NEW j \in DOMAIN t, t[i] = t[j] PROVE i = j
    BY DEF Distinct
  <2>1. \A k \in DOMAIN s : t[k] = s[k] /\ t[k] # d
    BY <1>1, <1>4 DEF ToSet
  <2> QED BY <1>1, <1>2, <1>4, <2>1 DEF Distinct
<1> QED BY <1>1, <1>3, <1>4 DEF t

\* The first entry of a ring is taken off.
LEMMA RingTail ==
  ASSUME NEW s \in Seq(Desc), s # <<>>, Distinct(s)
  PROVE  /\ Tail(s) \in Seq(Desc) /\ Head(s) \in ToSet(s) /\ Head(s) \in Desc
         /\ ToSet(Tail(s)) = ToSet(s) \ {Head(s)} /\ Distinct(Tail(s))
<1> DEFINE t == Tail(s)
           n == Len(s)
<1>1. /\ t \in Seq(Desc) /\ Len(t) = n - 1 /\ \A i \in 1..Len(t) : t[i] = s[i + 1]
      /\ Head(s) \in Desc
  BY HeadTailProperties
<1>2. n \in Nat \ {0} /\ DOMAIN s = 1..n
  BY EmptySeq, LenProperties
<1>a. Head(s) = s[1]
  OBVIOUS
<1>b. DOMAIN t = 1..n - 1
  <2>1. DOMAIN t = 1..Len(t)
    BY <1>1, LenProperties
  <2> QED BY <1>1, <2>1
<1> HIDE DEF t, n
<1>3. 1 \in DOMAIN s /\ \A i \in DOMAIN t : t[i] = s[i + 1] /\ i + 1 \in DOMAIN s /\ i + 1 # 1
  BY <1>1, <1>2, <1>b
<1>4. \A j \in DOMAIN s : j # 1 => j - 1 \in DOMAIN t /\ t[j - 1] = s[j]
  BY <1>1, <1>2, <1>b
<1>5. ToSet(t) = ToSet(s) \ {Head(s)}
  <2>1. ASSUME NEW x \in ToSet(t) PROVE x \in ToSet(s) /\ x # Head(s)
    <3>1. PICK i \in DOMAIN t : x = t[i]
      BY DEF ToSet
    <3> QED BY <1>3, <1>a, <3>1 DEF ToSet, Distinct
  <2>2. ASSUME NEW x \in ToSet(s), x # Head(s) PROVE x \in ToSet(t)
    <3>1. PICK j \in DOMAIN s : x = s[j]
      BY DEF ToSet
    <3>2. j # 1
      BY <1>a, <2>2, <3>1
    <3> QED BY <1>4, <3>1, <3>2 DEF ToSet
  <2> QED BY <2>1, <2>2
<1>6. Distinct(t)
  <2> SUFFICES ASSUME NEW i \in DOMAIN t, NEW j \in DOMAIN t, t[i] = t[j] PROVE i = j
    BY DEF Distinct
  <2>1. i + 1 = j + 1
    BY <1>3 DEF Distinct
  <2> QED BY <1>b, <1>2, <2>1
<1> QED BY <1>1, <1>3, <1>5, <1>6, <1>a DEF ToSet, t

\* A buffer moved to the front of the list is its first, and all the others stay in it.
LEMMA ToFrontKeeps ==
  ASSUME ListOK, NEW i \in Buf
  PROVE  ToFront(i) \in [1..NBUF -> Buf] /\ \A j \in Buf : \E k \in 1..NBUF : ToFront(i)[k] = j
<1>1. NBUF \in Nat \ {0} /\ lru \in [1..NBUF -> Buf] /\ Buf = 1..NBUF
  BY ConstAssumption DEF ListOK, Buf
<1>2. lru \in Seq(Buf) /\ Len(lru) = NBUF
  BY <1>1
<1> DEFINE I == {k \in 1..Len(lru) : lru[k] = i}
<1>3. I \in SUBSET (1..NBUF) /\ I # {}
  BY <1>2 DEF ListOK
<1>4. PICK x \in I : x = Min(I)
  <2> HIDE DEF I
  <2> QED BY <1>3, Extremes
<1>5. x \in 1..NBUF /\ lru[x] = i
  BY <1>2
<1>6. RemoveFirst(lru, i) = SubSeq(lru, 1, x - 1) \o SubSeq(lru, x + 1, NBUF)
  <2>1. \E k \in 1..Len(lru) : lru[k] = i
    BY <1>2, <1>5
  <2>2. SelectInSeq(lru, LAMBDA v : v = i) = x
    BY <1>3, <1>4 DEF SelectInSeq
  <2> HIDE DEF I
  <2> QED BY <1>2, <2>1, <2>2 DEF RemoveFirst, RemoveAt
<1> DEFINE f == SubSeq(lru, 1, x - 1)
           g == SubSeq(lru, x + 1, NBUF)
           h == <<i>>
<1>7. /\ f \in Seq(Buf) /\ Len(f) = x - 1
      /\ \A k \in 1..x - 1 : f[k] = lru[k]
  <2>1. \A k \in 1..x - 1 : lru[k] \in Buf
    BY <1>1, <1>5
  <2> QED BY <1>5, <2>1, SubSeqProperties
<1>8. /\ g \in Seq(Buf) /\ Len(g) = NBUF - x
      /\ \A k \in 1..NBUF - x : g[k] = lru[x + k]
  <2>1. \A k \in x + 1..NBUF : lru[k] \in Buf
    BY <1>1, <1>5
  <2>2. /\ g \in Seq(Buf) /\ Len(g) = (IF x + 1 <= NBUF THEN NBUF - (x + 1) + 1 ELSE 0)
        /\ \A k \in 1..NBUF - (x + 1) + 1 : g[k] = lru[x + 1 + k - 1]
    BY <1>1, <1>5, <2>1, SubSeqProperties
  <2> HIDE DEF g
  <2>3. \A k \in 1..NBUF - x : x + 1 + k - 1 = x + k /\ k \in 1..NBUF - (x + 1) + 1
    BY <1>1, <1>5
  <2>4. (IF x + 1 <= NBUF THEN NBUF - (x + 1) + 1 ELSE 0) = NBUF - x
    BY <1>1, <1>5
  <2> QED BY <2>2, <2>3, <2>4
<1>9. h \in Seq(Buf) /\ Len(h) = 1 /\ h[1] = i
  OBVIOUS
<1>10. ToFront(i) = h \o (f \o g)
  BY <1>6 DEF ToFront, Cons
<1> HIDE DEF f, g, h, I
<1>11. /\ f \o g \in Seq(Buf) /\ Len(f \o g) = NBUF - 1
       /\ \A k \in 1..NBUF - 1 : (f \o g)[k] = IF k <= x - 1 THEN lru[k] ELSE lru[k + 1]
  <2>0. /\ f \o g \in Seq(Buf) /\ Len(f \o g) = Len(f) + Len(g)
        /\ \A k \in 1..Len(f) + Len(g) :
             (f \o g)[k] = IF k <= Len(f) THEN f[k] ELSE g[k - Len(f)]
    BY <1>7, <1>8, ConcatProperties
  <2>2. Len(f) + Len(g) = NBUF - 1 /\ Len(f) = x - 1
    BY <1>1, <1>5, <1>7, <1>8
  <2>1. /\ f \o g \in Seq(Buf) /\ Len(f \o g) = NBUF - 1
        /\ \A k \in 1..NBUF - 1 : (f \o g)[k] = IF k <= x - 1 THEN f[k] ELSE g[k - (x - 1)]
    BY <2>0, <2>2
  <2>3. ASSUME NEW k \in 1..NBUF - 1
        PROVE  (f \o g)[k] = IF k <= x - 1 THEN lru[k] ELSE lru[k + 1]
    <3>1. CASE k <= x - 1
      BY <1>7, <2>1, <2>2, <3>1
    <3>2. CASE ~(k <= x - 1)
      <4>1. k - (x - 1) \in 1..NBUF - x /\ x + (k - (x - 1)) = k + 1
        BY <1>1, <1>5, <3>2
      <4> QED BY <1>8, <2>1, <2>2, <3>2, <4>1
    <3> QED BY <3>1, <3>2
  <2> QED BY <2>1, <2>2, <2>3
<1>12. /\ ToFront(i) \in Seq(Buf) /\ Len(ToFront(i)) = NBUF
       /\ ToFront(i)[1] = i
       /\ \A k \in 2..NBUF : ToFront(i)[k] = (f \o g)[k - 1]
  <2> DEFINE q == f \o g
  <2>0. q \in Seq(Buf) /\ Len(q) = NBUF - 1 /\ ToFront(i) = h \o q
    BY <1>10, <1>11
  <2> HIDE DEF q
  <2>1. /\ h \o q \in Seq(Buf) /\ Len(h \o q) = Len(h) + Len(q)
        /\ \A k \in 1..Len(h) + Len(q) : (h \o q)[k] = IF k <= Len(h) THEN h[k] ELSE q[k - Len(h)]
    BY <1>9, <2>0, ConcatProperties
  <2>2. Len(h) = 1 /\ Len(h) + Len(q) = NBUF /\ 1 \in 1..NBUF
    BY <1>1, <1>9, <2>0
  <2>3. /\ ToFront(i) \in Seq(Buf) /\ Len(ToFront(i)) = NBUF
        /\ \A k \in 1..NBUF : ToFront(i)[k] = IF k <= 1 THEN h[k] ELSE q[k - 1]
    BY <2>0, <2>1, <2>2
  <2>4. ToFront(i)[1] = i
    BY <1>9, <2>2, <2>3
  <2>5. \A k \in 2..NBUF : k \in 1..NBUF /\ ~(k <= 1)
    BY <1>1
  <2>6. \A k \in 2..NBUF : ToFront(i)[k] = q[k - 1]
    BY <2>3, <2>5
  <2> QED BY <2>3, <2>4, <2>6 DEF q
<1>13. ToFront(i) \in [1..NBUF -> Buf]
  BY <1>12, LenProperties
<1>14. ASSUME NEW j \in Buf PROVE \E k \in 1..NBUF : ToFront(i)[k] = j
  <2>1. PICK m \in 1..NBUF : lru[m] = j
    BY DEF ListOK
  <2>2. CASE m = x
    BY <1>1, <1>5, <1>12, <2>1, <2>2
  <2>3. CASE m < x
    <3>1. m \in 1..NBUF - 1 /\ m <= x - 1 /\ m + 1 \in 2..NBUF /\ (m + 1) - 1 = m
      BY <1>1, <1>5, <2>3
    <3>2. ToFront(i)[m + 1] = (f \o g)[(m + 1) - 1]
      BY <1>12, <3>1
    <3>3. (f \o g)[m] = lru[m]
      BY <1>11, <3>1
    <3>4. ToFront(i)[m + 1] = lru[m]
      BY <3>1, <3>2, <3>3, Zenon
    <3>5. m + 1 \in 1..NBUF
      BY <1>1, <3>1
    <3> QED BY <2>1, <3>4, <3>5
  <2>4. CASE m > x
    <3>1. m - 1 \in 1..NBUF - 1 /\ ~(m - 1 <= x - 1) /\ m \in 2..NBUF /\ (m - 1) + 1 = m
      BY <1>1, <1>5, <2>4
    <3>2. ToFront(i)[m] = (f \o g)[m - 1] /\ (f \o g)[m - 1] = lru[m]
      BY <1>11, <1>12, <3>1
    <3> QED BY <2>1, <3>2
  <2> QED BY <1>5, <2>2, <2>3, <2>4
<1> QED BY <1>13, <1>14

----------------------------------------------------------------------------
(* What the invariant says of a process and of its request. *)

TypeOK == BuffersOK /\ ProcsOK /\ QueuesOK

\* Processes that hold the lock of one buffer are one.
LEMMA OneHolder ==
  ASSUME LockInv, NEW p \in Proc, NEW q \in Proc, Holding(p), Holding(q), cur[p] = cur[q]
  PROVE  p = q
<1>1. locked[cur[p]] = p /\ locked[cur[q]] = q
  BY DEF LockInv
<1> QED BY <1>1

\* Processes at work on one block have the same buffer.
LEMMA SameBuffer ==
  ASSUME ProcsOK, CacheInv, NEW p \in Proc, NEW q \in Proc,
         pc[p] # "idle", pc[q] # "idle", want[p] = want[q]
  PROVE  cur[p] = cur[q]
<1>1. /\ blockno[cur[p]] = want[p] /\ blockno[cur[q]] = want[q] /\ want[p] \in Block
      /\ cur[p] \in Buf /\ cur[q] \in Buf
  BY DEF CacheInv, ProcsOK
<1>2. want[p] # None
  BY <1>1, ConstAssumption
<1> QED BY <1>1, <1>2 DEF CacheInv

\* A head's request names a buffer and a block.
LEMMA HeadType ==
  ASSUME TypeOK, NEW d \in Heads
  PROVE  /\ d \in Desc /\ info[d] \in Request
         /\ info[d].b \in Buf /\ info[d].write \in BOOLEAN /\ info[d].sector \in Block
<1>1. d \in Desc /\ info[d] \in Request
  BY DEF Heads, TypeOK, QueuesOK
<1> QED BY <1>1 DEF Request

\* A buffer's head is the only one with a request for it.
LEMMA HeadOfFacts ==
  ASSUME RequestInv, NEW d \in Heads
  PROVE  HeadOf(info[d].b) = d
<1> DEFINE i == info[d].b
<1>1. d \in Desc /\ info[d] # None /\ info[d].b = i
  BY DEF Heads
<1>2. \A e \in Desc : info[e] # None /\ info[e].b = i => e = d
  BY DEF RequestInv, Heads
<1> QED BY <1>1, <1>2 DEF HeadOf

\* A process that waits for a transfer has one head.
LEMMA MyHead ==
  ASSUME RequestInv, NEW p \in Proc, Transfer(p)
  PROVE  HeadOf(cur[p]) \in Heads /\ info[HeadOf(cur[p])].b = cur[p]
<1>1. PICK d \in Heads : info[d].b = cur[p]
  BY DEF RequestInv
<1> QED BY <1>1, HeadOfFacts

\* A head has the process that waits for it, and no other.
LEMMA Served ==
  ASSUME LockInv, RequestInv, NEW d \in Heads, NEW p \in Proc, Holding(p), cur[p] = info[d].b
  PROVE  Serves(d, p)
<1>1. PICK q \in Proc : Serves(d, q)
  BY DEF RequestInv
<1>2. q = p
  BY <1>1, OneHolder DEF Serves, Holding
<1> QED BY <1>1, <1>2

----------------------------------------------------------------------------
(* What a step must leave alone to keep each part of the invariant. *)

SamePlace(q) ==
  /\ Locking(q)' <=> Locking(q)
  /\ Asking(q)' <=> Asking(q)
  /\ Transfer(q)' <=> Transfer(q)
  /\ pc'[q] = "idle" <=> pc[q] = "idle"
  /\ pc'[q] = "have" <=> pc[q] = "have"

\* The cache: what processes use, unless they start or end.
LEMMA CacheFrame ==
  ASSUME CacheInv, UNCHANGED <<blockno, refcnt, cur, want>>,
         \A q \in Proc : pc'[q] = "idle" <=> pc[q] = "idle"
  PROVE  CacheInv'
<1>1. \A i \in Buf : Users(i)' = Users(i)
  BY DEF Users
<1> QED BY <1>1 DEF CacheInv

\* The locks: processes that held a buffer before.
LEMMA LockFrame ==
  ASSUME LockInv, UNCHANGED <<locked, cur>>, \A q \in Proc : Holding(q)' => Holding(q)
  PROVE  LockInv'
BY DEF LockInv

\* The requests: descriptors, and the processes that wait for a transfer.
LEMMA RequestFrame ==
  ASSUME RequestInv, UNCHANGED info,
         \A q \in Proc : /\ Transfer(q)' <=> Transfer(q)
                         /\ Transfer(q) => /\ cur'[q] = cur[q] /\ write'[q] = write[q]
                                           /\ want'[q] = want[q]
  PROVE  RequestInv'
<1>1. Heads' = Heads
  BY DEF Heads
<1>2. ASSUME NEW d \in Heads PROVE \E p \in Proc : Serves(d, p)'
  <2>1. PICK p \in Proc : Serves(d, p)
    BY DEF RequestInv
  <2> QED BY <2>1 DEF Serves
<1>3. \A d, e \in Heads : info'[d].b = info'[e].b => d = e
  BY DEF RequestInv
<1>4. ASSUME NEW p \in Proc, Transfer(p)' PROVE \E d \in Heads : info'[d].b = cur'[p]
  BY <1>4 DEF RequestInv
<1> QED BY <1>1, <1>2, <1>3, <1>4 DEF RequestInv

\* Ownership: rings, requests and buffers.
LEMMA OwnFrame ==
  ASSUME OwnInv, UNCHANGED <<info, own, avail, used, taken>>,
         \A q \in Proc : pc'[q] = "ioSleep" => pc[q] = "ioSleep" /\ cur'[q] = cur[q]
  PROVE  OwnInv'
BY DEF OwnInv, InFlight, Coming, Heads

\* The rings, and the interrupt.
LEMMA RingFrame ==
  ASSUME RingInv, UNCHANGED <<avail, used, taken, irq, intr>>
  PROVE  RingInv'
BY DEF RingInv, Coming, Distinct

\* The data: kinds of places, and what processes that have a buffer do with it.
LEMMA DataFrame ==
  ASSUME DataInv, UNCHANGED <<valid, data, platter, info, avail, taken>>,
         \A q \in Proc : SamePlace(q),
         \A q \in Proc : pc[q] = "have" \/ Asking(q) \/ Transfer(q) =>
                           cur'[q] = cur[q] /\ write'[q] = write[q] /\ want'[q] = want[q]
  PROVE  DataInv'
<1>1. Heads' = Heads /\ Coming' = Coming
  BY DEF Heads, Coming
<1>2. \A q \in Proc : Pending(q) => Pending(q)' /\ want'[q] = want[q]
  BY <1>1 DEF Pending, SamePlace
<1>3. \A b \in Block : ~platter'[b] => \E p \in Proc : Pending(p)' /\ want'[p] = b
  <2> TAKE b \in Block
  <2> HAVE ~platter'[b]
  <2>1. PICK p \in Proc : Pending(p) /\ want[p] = b
    BY DEF DataInv
  <2> QED BY <1>2, <2>1
<1>4. \A q \in Proc : pc'[q] = "have" => valid'[cur'[q]]
  BY DEF DataInv, SamePlace
<1>5. \A q \in Proc : (Asking(q)' \/ Transfer(q)') /\ write'[q] => valid'[cur'[q]]
  BY DEF DataInv, SamePlace
<1>6. \A d \in Heads : d \notin Coming => data'[info'[d].b]
  BY DEF DataInv
<1>7. \A i \in Buf : valid'[i] => data'[i]
  BY DEF DataInv
<1> QED BY <1>1, <1>3, <1>4, <1>5, <1>6, <1>7 DEF DataInv

\* The descriptors: nobody falls asleep for them while they are there.
LEMMA DescFrame ==
  ASSUME DescriptorsAccounted, UNCHANGED <<free, next, info>>,
         (\E q \in Proc : pc'[q] = "descSleep") =>
           Cardinality(free) < 3 \/ \E q \in Proc : pc[q] = "descSleep"
  PROVE  DescriptorsAccounted'
BY DEF DescriptorsAccounted, Chain

----------------------------------------------------------------------------
(* Initially nobody is at work and every descriptor is free. *)

\* The invariant holds initially.
LEMMA InitInv ==
  ASSUME Init
  PROVE  IInv
<1>1. NBUF \in Nat \ {0} /\ NUM \in Nat /\ 0 \in Desc /\ 1 \in Buf /\ Buf = 1..NBUF
  BY ConstAssumption DEF Desc, Buf
<1>2. BuffersOK
  BY DEF Init, BuffersOK
<1>3. ProcsOK
  BY <1>1 DEF Init, ProcsOK, States
<1>4. QueuesOK
  <2>1. <<>> \in Seq(Desc)
    OBVIOUS
  <2>2. next \in [Desc -> Desc] /\ info \in [Desc -> Request \cup {None}]
    BY <1>1 DEF Init
  <2> QED BY <2>1, <2>2 DEF Init, QueuesOK
<1>5. ListOK
  <2>1. lru = [i \in 1..NBUF |-> NBUF + 1 - i]
    BY DEF Init
  <2>2. \A i \in Buf : NBUF + 1 - i \in 1..NBUF /\ NBUF + 1 - (NBUF + 1 - i) = i
    BY <1>1
  <2>3. lru \in [1..NBUF -> Buf]
    BY <1>1, <2>1, <2>2
  <2>4. \A i \in Buf : lru[NBUF + 1 - i] = i
    BY <2>1, <2>2
  <2> QED BY <2>2, <2>3, <2>4 DEF ListOK
<1>6. CacheInv
  <2>1. \A i \in Buf : Users(i) = {}
    BY DEF Init, Users
  <2>2. \A i \in Buf : refcnt[i] = Cardinality(Users(i))
    BY <2>1, FS_EmptySet DEF Init
  <2>3. \A i \in Buf : blockno[i] = None
    BY DEF Init
  <2>4. \A p \in Proc : pc[p] = "idle"
    BY DEF Init
  <2> QED BY <2>2, <2>3, <2>4 DEF CacheInv
<1>7. LockInv
  BY DEF Init, LockInv, Holding, Asking, Transfer
<1>8. Heads = {} /\ Coming = {} /\ InFlight = {}
  <2>1. Heads = {}
    BY DEF Init, Heads
  <2>2. ToSet(avail) = {} /\ ToSet(used) = {} /\ taken = {}
    BY DEF Init, ToSet
  <2> QED BY <2>1, <2>2 DEF Coming, InFlight
<1>9. RequestInv /\ OwnInv
  BY <1>8 DEF Init, RequestInv, OwnInv, Transfer
<1>10. RingInv
  BY <1>8 DEF Init, RingInv, Distinct
<1>11. DataInv
  BY <1>8 DEF Init, DataInv, Asking, Transfer
<1>12. DescriptorsAccounted
  <2>1. Cardinality(Desc) = NUM
    BY <1>1, FS_Interval DEF Desc
  <2>2. free = Desc /\ {d \in Desc : info[d] # None} = {}
    BY <1>8 DEF Init, Heads
  <2>3. \A p \in Proc : pc[p] # "descSleep"
    BY DEF Init
  <2>4. Cardinality({}) = 0
    BY FS_EmptySet
  <2> QED BY <1>1, <2>1, <2>2, <2>3, <2>4 DEF DescriptorsAccounted
<1> QED BY <1>2, <1>3, <1>4, <1>5, <1>6, <1>7, <1>9, <1>10, <1>11, <1>12 DEF IInv

----------------------------------------------------------------------------
(* Steps that move a process between two places of one kind change nothing else. *)

\* Nobody changes its kind of place; those newly asleep have a reason to be.
Quiet ==
  /\ pc' \in [Proc -> States] /\ \A q \in Proc : SamePlace(q)
  /\ UNCHANGED <<cacheVars, data, own, locked, want, cur, write, queueVars, devVars, irq, intr>>
  /\ \A q \in Proc : pc'[q] = "ioSleep" => own[cur[q]]
  /\ (\E q \in Proc : pc'[q] = "descSleep") =>
       Cardinality(free) < 3 \/ \E q \in Proc : pc[q] = "descSleep"

\* Such a step keeps the invariant.
LEMMA QuietStep ==
  ASSUME IInv, Quiet
  PROVE  IInv'
<1> USE DEF IInv
<1>1. BuffersOK' /\ ProcsOK' /\ QueuesOK' /\ ListOK'
  BY DEF Quiet, cacheVars, queueVars, devVars, BuffersOK, ProcsOK, QueuesOK, ListOK
<1>2. CacheInv'
  BY CacheFrame DEF Quiet, cacheVars, SamePlace
<1>3. LockInv'
  BY LockFrame DEF Quiet, SamePlace, Holding
<1>4. RequestInv'
  BY RequestFrame DEF Quiet, queueVars, SamePlace
<1>5. OwnInv'
  BY DEF Quiet, queueVars, devVars, OwnInv, InFlight, Coming, Heads
<1>6. RingInv'
  BY RingFrame DEF Quiet, devVars
<1>7. DataInv'
  BY DataFrame DEF Quiet, cacheVars, queueVars, devVars
<1>8. DescriptorsAccounted'
  BY DescFrame DEF Quiet, queueVars
<1> QED BY <1>1, <1>2, <1>3, <1>4, <1>5, <1>6, <1>7, <1>8

\* A killed sleeper runs and tests its condition again.
LEMMA KillStep ==
  ASSUME IInv, NEW p \in Proc, Kill(p)
  PROVE  IInv'
<1>1. /\ pc \in [Proc -> States]
      /\ pc[p] \in {"lockSleep", "descSleep", "ioSleep"} /\ pc' = [pc EXCEPT ![p] = Awake[pc[p]]]
      /\ Awake["lockSleep"] = "lock" /\ Awake["descSleep"] = "rw" /\ Awake["ioSleep"] = "io"
  BY DEF Kill, Goto, Awake, IInv, ProcsOK
<1>2. pc'[p] = Awake[pc[p]] /\ \A q \in Proc : q # p => pc'[q] = pc[q]
  BY <1>1
<1>3. pc' \in [Proc -> States]
  BY <1>1 DEF States
<1>4. \A q \in Proc : SamePlace(q)
  BY <1>1, <1>2 DEF SamePlace, Locking, Asking, Transfer
<1>5. \A q \in Proc : pc'[q] = "ioSleep" => own[cur[q]]
  BY <1>1, <1>2 DEF IInv, OwnInv
<1>6. \A q \in Proc : pc'[q] = "descSleep" => pc[q] = "descSleep"
  BY <1>1, <1>2
<1> QED BY <1>3, <1>4, <1>5, <1>6, QuietStep DEF Quiet, Kill

\* Without three free descriptors, the others that wait try again and p sleeps.
LEMMA NoDescStep ==
  ASSUME IInv, NEW p \in Proc, NoDesc(p)
  PROVE  IInv'
<1>1. /\ pc \in [Proc -> States] /\ pc[p] = "rw" /\ Cardinality(free) < 3
      /\ pc' = [q \in Proc |-> IF [pc EXCEPT ![p] = "descSleep"][q] = "descSleep"
                                  /\ (free # {} /\ q # p)
                               THEN "rw" ELSE [pc EXCEPT ![p] = "descSleep"][q]]
  BY DEF NoDesc, Wake, IInv, ProcsOK
<1>2. pc'[p] = "descSleep"
  BY <1>1
<1>3. \A q \in Proc : q # p => pc'[q] = pc[q] \/ (pc[q] = "descSleep" /\ pc'[q] = "rw")
  BY <1>1
<1>4. pc' \in [Proc -> States]
  BY <1>1 DEF States
<1>5. \A q \in Proc : SamePlace(q)
  BY <1>1, <1>2, <1>3 DEF SamePlace, Locking, Asking, Transfer
<1>6. \A q \in Proc : pc'[q] = "ioSleep" => own[cur[q]]
  BY <1>2, <1>3 DEF IInv, OwnInv
<1> QED BY <1>1, <1>4, <1>5, <1>6, QuietStep DEF Quiet, NoDesc

----------------------------------------------------------------------------
(* The buffer cache. *)

\* The lock is another's, or p has it now; the buffer is valid or will be read.
LEMMA AcquireSleepStep ==
  ASSUME IInv, NEW p \in Proc, AcquireSleep(p)
  PROVE  IInv'
<1> DEFINE i == cur[p]
<1>0. /\ TypeOK /\ pc \in [Proc -> States] /\ pc[p] = "lock" /\ i \in Buf
      /\ write \in [Proc -> BOOLEAN] /\ locked \in [Buf -> Proc \cup {None}]
      /\ valid[i] \in BOOLEAN
  BY DEF AcquireSleep, IInv, TypeOK, ProcsOK, BuffersOK
<1>1. CASE locked[i] # None
  <2>1. pc' = [pc EXCEPT ![p] = "lockSleep"] /\ UNCHANGED <<locked, write>>
    BY <1>1 DEF AcquireSleep, Goto
  <2>2. pc'[p] = "lockSleep" /\ (\A q \in Proc : q # p => pc'[q] = pc[q]) /\ pc' \in [Proc -> States]
    BY <1>0, <2>1 DEF States
  <2>3. \A q \in Proc : SamePlace(q)
    BY <1>0, <2>2 DEF SamePlace, Locking, Asking, Transfer
  <2>4. \A q \in Proc : /\ pc'[q] = "ioSleep" => own[cur[q]]
                        /\ pc'[q] = "descSleep" => pc[q] = "descSleep"
    BY <2>2 DEF IInv, OwnInv
  <2> QED BY <2>1, <2>2, <2>3, <2>4, QuietStep DEF Quiet, AcquireSleep
<1>2. CASE locked[i] = None
  <2>1. /\ locked' = [locked EXCEPT ![i] = p] /\ write' = [write EXCEPT ![p] = FALSE]
        /\ pc' = [pc EXCEPT ![p] = IF valid[i] THEN "have" ELSE "rw"]
        /\ UNCHANGED <<cacheVars, data, own, want, cur, queueVars, devVars, irq, intr>>
    BY <1>2 DEF AcquireSleep, Goto
  <2>2. /\ pc'[p] = IF valid[i] THEN "have" ELSE "rw"
        /\ \A q \in Proc : q # p => pc'[q] = pc[q] /\ write'[q] = write[q]
        /\ ~write'[p] /\ locked'[i] = p /\ \A j \in Buf : j # i => locked'[j] = locked[j]
    BY <1>0, <2>1
  <2>3. BuffersOK' /\ ProcsOK' /\ QueuesOK' /\ ListOK'
    <3>1. pc' \in [Proc -> States] /\ write' \in [Proc -> BOOLEAN] /\ locked' \in [Buf -> Proc \cup {None}]
      BY <1>0, <2>1 DEF States
    <3> QED BY <2>1, <3>1 DEF cacheVars, queueVars, devVars, IInv, BuffersOK, ProcsOK, QueuesOK, ListOK
  <2>4. CacheInv'
    <3>1. \A q \in Proc : pc'[q] = "idle" <=> pc[q] = "idle"
      BY <1>0, <2>2
    <3> QED BY <2>1, <3>1, CacheFrame DEF IInv, cacheVars
  <2>5. LockInv'
    <3>1. \A q \in Proc : Holding(q) => cur[q] # i
      BY <1>2, ConstAssumption DEF IInv, LockInv
    <3>2. ASSUME NEW q \in Proc, Holding(q)' PROVE locked'[cur[q]] = q
      <4>1. CASE q = p
        BY <2>2, <4>1
      <4>2. CASE q # p
        <5>1. Holding(q) /\ cur[q] \in Buf
          BY <2>2, <3>2, <4>2 DEF Holding, Asking, Transfer, IInv, ProcsOK
        <5> QED BY <2>2, <3>1, <5>1 DEF IInv, LockInv
      <4> QED BY <4>1, <4>2
    <3> QED BY <2>1, <3>2 DEF LockInv
  <2>6. \A q \in Proc : /\ Transfer(q)' <=> Transfer(q)
                        /\ Transfer(q) => q # p
    BY <1>0, <2>2 DEF Transfer
  <2>7. RequestInv'
    BY <2>1, <2>2, <2>6, RequestFrame DEF IInv, queueVars
  <2>8. OwnInv'
    BY <1>0, <2>1, <2>2, OwnFrame DEF IInv, queueVars, devVars
  <2>9. RingInv'
    BY <2>1, RingFrame DEF IInv, devVars
  <2>10. DataInv'
    <3>1. UNCHANGED <<valid, data, platter, info, avail, taken, cur, want>>
      BY <2>1 DEF cacheVars, queueVars, devVars
    <3>2. Heads' = Heads /\ Coming' = Coming
      BY <3>1 DEF Heads, Coming
    <3>3. \A b \in Block : ~platter'[b] => \E q \in Proc : Pending(q)' /\ want'[q] = b
      <4> TAKE b \in Block
      <4> HAVE ~platter'[b]
      <4>1. PICK q \in Proc : Pending(q) /\ want[q] = b
        BY <3>1 DEF IInv, DataInv
      <4>2. q # p
        BY <1>0, <4>1 DEF Pending, Asking, Transfer
      <4> QED BY <2>2, <3>1, <3>2, <4>1, <4>2 DEF Pending, Asking, Transfer
    <3>4. \A q \in Proc : pc'[q] = "have" => valid'[cur'[q]]
      BY <2>2, <3>1 DEF IInv, DataInv
    <3>5. \A q \in Proc : (Asking(q)' \/ Transfer(q)') /\ write'[q] => valid'[cur'[q]]
      BY <2>2, <3>1 DEF IInv, DataInv, Asking, Transfer
    <3> QED BY <3>1, <3>2, <3>3, <3>4, <3>5 DEF IInv, DataInv
  <2>11. DescriptorsAccounted'
    BY <1>0, <2>1, <2>2, DescFrame DEF IInv, queueVars
  <2> QED BY <2>3, <2>4, <2>5, <2>7, <2>8, <2>9, <2>10, <2>11 DEF IInv
<1> QED BY <1>1, <1>2

\* The holder changes the data: the disk is behind until its request is done.
LEMMA BwriteStep ==
  ASSUME IInv, NEW p \in Proc, Bwrite(p)
  PROVE  IInv'
<1>0. /\ TypeOK /\ pc \in [Proc -> States] /\ pc[p] = "have" /\ cur[p] \in Buf
      /\ write \in [Proc -> BOOLEAN] /\ data \in [Buf -> BOOLEAN] /\ platter \in [Block -> BOOLEAN]
      /\ want[p] \in Block /\ blockno[cur[p]] = want[p] /\ valid[cur[p]]
  BY DEF Bwrite, IInv, TypeOK, ProcsOK, BuffersOK, CacheInv, DataInv
<1>1. /\ data' = [i \in Buf |-> i = cur[p] \/ (data[i] /\ blockno[i] # want[p])]
      /\ platter' = [platter EXCEPT ![want[p]] = FALSE]
      /\ write' = [write EXCEPT ![p] = TRUE] /\ pc' = [pc EXCEPT ![p] = "rw"]
      /\ UNCHANGED <<cacheVars, own, locked, want, cur, queueVars, avail, used, taken, irq, intr>>
  BY DEF Bwrite, Goto
<1>2. /\ pc'[p] = "rw" /\ write'[p]
      /\ \A q \in Proc : q # p => pc'[q] = pc[q] /\ write'[q] = write[q]
      /\ \A b \in Block : b # want[p] => platter'[b] = platter[b]
  BY <1>0, <1>1
<1>3. BuffersOK' /\ ProcsOK' /\ QueuesOK' /\ ListOK'
  <2>1. pc' \in [Proc -> States] /\ write' \in [Proc -> BOOLEAN]
    BY <1>0, <1>1 DEF States
  <2>2. platter' \in [Block -> BOOLEAN]
    BY <1>0, <1>1
  <2>3. data' \in [Buf -> BOOLEAN]
    BY <1>1
  <2> QED BY <1>1, <2>1, <2>2, <2>3 DEF cacheVars, queueVars, IInv, BuffersOK, ProcsOK, QueuesOK, ListOK
<1>4. CacheInv'
  <2>1. \A q \in Proc : pc'[q] = "idle" <=> pc[q] = "idle"
    BY <1>0, <1>2
  <2> QED BY <1>1, <2>1, CacheFrame DEF IInv, cacheVars
<1>5. LockInv'
  BY <1>0, <1>1, <1>2, LockFrame DEF IInv, Holding, Asking, Transfer
<1>6. \A q \in Proc : /\ Transfer(q)' <=> Transfer(q)
                      /\ Transfer(q) => q # p
  BY <1>0, <1>2 DEF Transfer
<1>7. RequestInv'
  BY <1>1, <1>2, <1>6, RequestFrame DEF IInv, queueVars
<1>8. OwnInv'
  BY <1>0, <1>1, <1>2, OwnFrame DEF IInv, queueVars
<1>9. RingInv'
  BY <1>1, RingFrame DEF IInv
<1>10. DataInv'
  <2>1. UNCHANGED <<valid, info, avail, taken, cur, want, blockno>>
    BY <1>1 DEF cacheVars, queueVars
  <2>2. Heads' = Heads /\ Coming' = Coming
    BY <2>1 DEF Heads, Coming
  <2>3. \A i \in Buf : data[i] => data'[i]
    <3> SUFFICES ASSUME NEW i \in Buf, data[i], i # cur[p] PROVE blockno[i] # want[p]
      BY <1>1
    <3> QED BY <1>0, ConstAssumption DEF IInv, CacheInv
  <2>4. ASSUME NEW b \in Block, ~platter'[b]
        PROVE  \E q \in Proc : Pending(q)' /\ want'[q] = b
    <3>1. CASE b = want[p]
      BY <1>2, <2>1, <3>1 DEF Pending, Asking
    <3>2. CASE b # want[p]
      <4>1. PICK q \in Proc : Pending(q) /\ want[q] = b
        BY <1>2, <2>4, <3>2 DEF IInv, DataInv
      <4> QED BY <1>2, <2>1, <2>2, <3>2, <4>1 DEF Pending, Asking, Transfer
    <3> QED BY <3>1, <3>2
  <2>5. \A q \in Proc : pc'[q] = "have" => valid'[cur'[q]]
    BY <1>2, <2>1 DEF IInv, DataInv
  <2>6. \A q \in Proc : (Asking(q)' \/ Transfer(q)') /\ write'[q] => valid'[cur'[q]]
    BY <1>0, <1>2, <2>1 DEF IInv, DataInv, Asking, Transfer
  <2>7. \A d \in Heads : d \notin Coming => data'[info'[d].b]
    <3> TAKE d \in Heads
    <3>1. info[d].b \in Buf
      BY <1>0, HeadType
    <3> QED BY <2>1, <2>3, <3>1 DEF IInv, DataInv
  <2> QED BY <2>1, <2>2, <2>3, <2>4, <2>5, <2>6, <2>7 DEF IInv, DataInv
<1>11. DescriptorsAccounted'
  BY <1>0, <1>1, <1>2, DescFrame DEF IInv, queueVars
<1> QED BY <1>3, <1>4, <1>5, <1>7, <1>8, <1>9, <1>10, <1>11 DEF IInv

\* The lock is free and its sleepers try again.
LEMMA ReleaseSleepStep ==
  ASSUME IInv, NEW p \in Proc, ReleaseSleep(p)
  PROVE  IInv'
<1>0. /\ TypeOK /\ pc \in [Proc -> States] /\ pc[p] = "have" /\ cur[p] \in Buf
      /\ locked \in [Buf -> Proc \cup {None}]
  BY DEF ReleaseSleep, IInv, TypeOK, ProcsOK, BuffersOK
<1>1. /\ locked' = [locked EXCEPT ![cur[p]] = None]
      /\ pc' = [q \in Proc |-> IF [pc EXCEPT ![p] = "release"][q] = "lockSleep" /\ cur[q] = cur[p]
                               THEN "lock" ELSE [pc EXCEPT ![p] = "release"][q]]
      /\ UNCHANGED <<cacheVars, data, own, want, cur, write, queueVars, devVars, irq, intr>>
  BY DEF ReleaseSleep, Wake
<1>2. /\ pc'[p] = "release" /\ pc' \in [Proc -> States]
      /\ \A q \in Proc : q # p => pc'[q] = pc[q] \/ (pc[q] = "lockSleep" /\ pc'[q] = "lock")
  BY <1>0, <1>1 DEF States
<1>3. \A q \in Proc : /\ q # p => SamePlace(q)
                      /\ pc'[q] = "idle" <=> pc[q] = "idle"
  BY <1>0, <1>2 DEF SamePlace, Locking, Asking, Transfer
<1>a. ~Holding(p)' /\ ~Transfer(p) /\ ~Transfer(p)' /\ ~Asking(p) /\ ~Asking(p)'
  BY <1>0, <1>2 DEF Holding, Asking, Transfer
<1>4. BuffersOK' /\ ProcsOK' /\ QueuesOK' /\ ListOK'
  <2>1. locked' \in [Buf -> Proc \cup {None}]
    BY <1>0, <1>1
  <2> QED BY <1>1, <1>2, <2>1 DEF cacheVars, queueVars, devVars, IInv, BuffersOK, ProcsOK, QueuesOK, ListOK
<1>5. CacheInv'
  BY <1>1, <1>3, CacheFrame DEF IInv, cacheVars
<1>6. LockInv'
  <2> SUFFICES ASSUME NEW q \in Proc, Holding(q)' PROVE locked'[cur'[q]] = q
    BY DEF LockInv
  <2>1. q # p
    BY <1>a
  <2>2. Holding(q) /\ Holding(p)
    BY <1>0, <1>3, <2>1 DEF SamePlace, Holding
  <2>3. cur[q] # cur[p] /\ cur[q] \in Buf /\ locked[cur[q]] = q
    BY <2>1, <2>2, OneHolder DEF IInv, LockInv, ProcsOK
  <2> QED BY <1>0, <1>1, <2>3
<1>7. RequestInv'
  <2>1. \A q \in Proc : Transfer(q)' <=> Transfer(q)
    BY <1>3, <1>a DEF SamePlace
  <2> QED BY <1>1, <2>1, RequestFrame DEF IInv, queueVars
<1>8. OwnInv'
  BY <1>1, <1>2, OwnFrame DEF IInv, queueVars, devVars
<1>9. RingInv'
  BY <1>1, RingFrame DEF IInv, devVars
<1>10. DataInv'
  <2>1. UNCHANGED <<valid, data, platter, info, avail, taken, cur, want, write>>
    BY <1>1 DEF cacheVars, queueVars, devVars
  <2>2. Heads' = Heads /\ Coming' = Coming
    BY <2>1 DEF Heads, Coming
  <2>3. ASSUME NEW b \in Block, ~platter'[b]
        PROVE  \E q \in Proc : Pending(q)' /\ want'[q] = b
    <3>1. PICK q \in Proc : Pending(q) /\ want[q] = b
      BY <2>1, <2>3 DEF IInv, DataInv
    <3>2. q # p
      BY <1>a, <3>1 DEF Pending
    <3> QED BY <1>3, <2>1, <2>2, <3>1, <3>2 DEF Pending, SamePlace
  <2>4. \A q \in Proc : pc'[q] = "have" => valid'[cur'[q]]
    BY <1>2, <2>1 DEF IInv, DataInv
  <2>5. \A q \in Proc : (Asking(q)' \/ Transfer(q)') /\ write'[q] => valid'[cur'[q]]
    BY <1>3, <1>a, <2>1 DEF IInv, DataInv, SamePlace
  <2> QED BY <2>1, <2>2, <2>3, <2>4, <2>5 DEF IInv, DataInv
<1>11. DescriptorsAccounted'
  BY <1>1, <1>2, DescFrame DEF IInv, queueVars
<1> QED BY <1>4, <1>5, <1>6, <1>7, <1>8, <1>9, <1>10, <1>11 DEF IInv

\* A set of processes is finite, and so are those that use a buffer.
LEMMA UsersFinite ==
  ASSUME NEW i
  PROVE  IsFiniteSet(Users(i))
<1>1. Users(i) \in SUBSET Proc
  BY DEF Users
<1> QED BY <1>1, FS_Subset, ConstAssumption

\* One user fewer; the last one puts the buffer in front.
LEMMA BrelseStep ==
  ASSUME IInv, NEW p \in Proc, Brelse(p)
  PROVE  IInv'
<1>p. PICK i \in Buf : i = cur[p]
  BY DEF IInv, ProcsOK
<1>0. /\ TypeOK /\ pc \in [Proc -> States] /\ pc[p] = "release"
      /\ want \in [Proc -> Block \cup {None}] /\ cur \in [Proc -> Buf]
      /\ write \in [Proc -> BOOLEAN] /\ refcnt \in [Buf -> Nat] /\ 1 \in Buf
  BY ConstAssumption DEF Brelse, IInv, TypeOK, ProcsOK, BuffersOK, Buf
<1>1. /\ refcnt' = [refcnt EXCEPT ![i] = @ - 1]
      /\ lru' = IF refcnt[i] = 1 THEN ToFront(i) ELSE lru
      /\ want' = [want EXCEPT ![p] = None] /\ cur' = [cur EXCEPT ![p] = 1]
      /\ write' = [write EXCEPT ![p] = FALSE] /\ pc' = [pc EXCEPT ![p] = "idle"]
      /\ UNCHANGED <<blockno, valid, data, own, locked, queueVars, devVars, irq, intr>>
  BY <1>p DEF Brelse, Goto
<1>2. /\ pc'[p] = "idle" /\ pc' \in [Proc -> States]
      /\ \A q \in Proc : q # p => /\ pc'[q] = pc[q] /\ cur'[q] = cur[q]
                                  /\ want'[q] = want[q] /\ write'[q] = write[q]
  BY <1>0, <1>1 DEF States
<1>a. ~Holding(p)' /\ ~Transfer(p) /\ ~Transfer(p)' /\ ~Asking(p) /\ ~Asking(p)'
  BY <1>0, <1>2 DEF Holding, Asking, Transfer
<1>b. \A q \in Proc : q # p => /\ (Holding(q)' <=> Holding(q)) /\ (Transfer(q)' <=> Transfer(q))
                               /\ (Asking(q)' <=> Asking(q))
  BY <1>2 DEF Holding, Asking, Transfer
<1>3. /\ Cardinality(Users(i)) \in Nat \ {0} /\ Users(i)' = Users(i) \ {p}
      /\ Cardinality(Users(i)') = Cardinality(Users(i)) - 1
      /\ \A j \in Buf : j # i => Users(j)' = Users(j)
  <2>1. p \in Users(i)
    BY <1>0, <1>p DEF Users
  <2>2. Users(i)' = Users(i) \ {p}
    BY <1>2 DEF Users
  <2>3. IsFiniteSet(Users(i)) /\ Users(i) # {}
    BY <2>1, UsersFinite
  <2>4. Cardinality(Users(i)) \in Nat /\ Cardinality(Users(i)) # 0
    BY <2>3, FS_CardinalityType, FS_EmptySet
  <2>5. Cardinality(Users(i) \ {p}) = Cardinality(Users(i)) - 1
    BY <2>1, <2>3, FS_RemoveElement
  <2>6. ASSUME NEW j \in Buf, j # i PROVE Users(j)' = Users(j)
    BY <1>2, <1>p, <2>6 DEF Users
  <2> QED BY <2>2, <2>4, <2>5, <2>6
<1>4. BuffersOK' /\ ProcsOK' /\ QueuesOK' /\ ListOK'
  <2>1. refcnt[i] \in Nat \ {0}
    BY <1>3 DEF IInv, CacheInv
  <2>2. refcnt' \in [Buf -> Nat]
    BY <1>0, <1>1, <2>1
  <2>3. want' \in [Proc -> Block \cup {None}] /\ cur' \in [Proc -> Buf] /\ write' \in [Proc -> BOOLEAN]
    BY <1>0, <1>1
  <2>4. ListOK'
    BY <1>1, ToFrontKeeps DEF IInv, ListOK
  <2> QED BY <1>1, <1>2, <2>2, <2>3, <2>4 DEF queueVars, devVars, IInv, BuffersOK, ProcsOK, QueuesOK
<1>5. CacheInv'
  <2>1. refcnt'[i] = refcnt[i] - 1 /\ \A j \in Buf : j # i => refcnt'[j] = refcnt[j]
    BY <1>0, <1>1
  <2>2. \A j \in Buf : refcnt'[j] = Cardinality(Users(j)')
    BY <1>3, <2>1 DEF IInv, CacheInv
  <2>3. \A q \in Proc : pc'[q] # "idle" => blockno'[cur'[q]] = want'[q] /\ want'[q] \in Block
    BY <1>1, <1>2 DEF IInv, CacheInv
  <2>4. \A j, k \in Buf : blockno'[j] = blockno'[k] /\ blockno'[j] # None => j = k
    BY <1>1 DEF IInv, CacheInv
  <2> QED BY <2>2, <2>3, <2>4 DEF CacheInv
<1>6. LockInv'
  BY <1>1, <1>2, <1>a, <1>b DEF IInv, LockInv
<1>7. RequestInv'
  BY <1>1, <1>2, <1>a, <1>b, RequestFrame DEF IInv, queueVars
<1>8. OwnInv'
  BY <1>1, <1>2, OwnFrame DEF IInv, queueVars, devVars
<1>9. RingInv'
  BY <1>1, RingFrame DEF IInv, devVars
<1>10. DataInv'
  <2>1. UNCHANGED <<valid, data, platter, info, avail, taken>>
    BY <1>1 DEF queueVars, devVars
  <2>2. Heads' = Heads /\ Coming' = Coming
    BY <2>1 DEF Heads, Coming
  <2>3. ASSUME NEW b \in Block, ~platter'[b]
        PROVE  \E q \in Proc : Pending(q)' /\ want'[q] = b
    <3>1. PICK q \in Proc : Pending(q) /\ want[q] = b
      BY <2>1, <2>3 DEF IInv, DataInv
    <3>2. q # p
      BY <1>a, <3>1 DEF Pending
    <3> QED BY <1>2, <1>b, <2>1, <2>2, <3>1, <3>2 DEF Pending
  <2>4. \A q \in Proc : pc'[q] = "have" => valid'[cur'[q]]
    BY <1>2, <2>1 DEF IInv, DataInv
  <2>5. \A q \in Proc : (Asking(q)' \/ Transfer(q)') /\ write'[q] => valid'[cur'[q]]
    BY <1>2, <1>a, <1>b, <2>1 DEF IInv, DataInv
  <2> QED BY <2>1, <2>2, <2>3, <2>4, <2>5 DEF IInv, DataInv
<1>11. DescriptorsAccounted'
  BY <1>1, <1>2, DescFrame DEF IInv, queueVars
<1> QED BY <1>4, <1>5, <1>6, <1>7, <1>8, <1>9, <1>10, <1>11 DEF IInv

\* What bget() leaves: p uses buffer i, which holds block b; a buffer that nobody used was recycled.
Got(p, b, i) ==
  /\ pc[p] = "idle" /\ i \in Buf
  /\ want' = [want EXCEPT ![p] = b] /\ cur' = [cur EXCEPT ![p] = i]
  /\ pc' = [pc EXCEPT ![p] = "lock"]
  /\ \/ blockno[i] = b /\ refcnt' = [refcnt EXCEPT ![i] = @ + 1] /\ UNCHANGED <<blockno, valid, data>>
     \/ /\ Cached(b) = {} /\ refcnt[i] = 0
        /\ blockno' = [blockno EXCEPT ![i] = b] /\ refcnt' = [refcnt EXCEPT ![i] = 1]
        /\ valid' = [valid EXCEPT ![i] = FALSE] /\ data' = [data EXCEPT ![i] = FALSE]
  /\ UNCHANGED <<lru, own, locked, write, queueVars, devVars, irq, intr>>

\* bget() that does not panic leaves p with a buffer, whichever loop found it.
LEMMA BgetGot ==
  ASSUME IInv, NEW p \in Proc, NEW b \in Block, Bget(p, b), ~panicked'
  PROVE  \E i \in Buf : Got(p, b, i)
<1>0. ListOK /\ lru \in [1..NBUF -> Buf]
  BY DEF IInv, ListOK
<1>1. CASE Cached(b) # {}
  <2> DEFINE K == {k \in 1..NBUF : blockno[lru[k]] = b}
  <2>1. K \in SUBSET (1..NBUF) /\ K # {}
    <3>1. PICK j \in Buf : blockno[j] = b
      BY <1>1 DEF Cached
    <3>2. PICK k \in 1..NBUF : lru[k] = j
      BY <1>0 DEF ListOK
    <3> QED BY <3>1, <3>2
  <2>2. Min(K) \in K
    <3> HIDE DEF K
    <3> QED BY <2>1, Extremes
  <2>3. PICK i \in Buf : i = lru[Min(K)] /\ blockno[i] = b
    BY <1>0, <2>2
  <2>4. Got(p, b, i)
    BY <1>1, <2>3 DEF Bget, Got, Goto
  <2> QED BY <2>4
<1>2. CASE Cached(b) = {} /\ Unused # {}
  <2>1. Unused \in SUBSET (1..NBUF)
    BY DEF Unused
  <2>2. Max(Unused) \in Unused
    BY <1>2, <2>1, Extremes
  <2>3. PICK i \in Buf : i = lru[Max(Unused)] /\ refcnt[i] = 0
    BY <1>0, <2>2 DEF Unused
  <2>4. Got(p, b, i)
    BY <1>2, <2>3 DEF Bget, Got, Goto, Invalid
  <2> QED BY <2>4
<1> QED BY <1>1, <1>2 DEF Bget

\* A buffer for the block is found, or one that nobody uses is taken for it, or bget() panics.
LEMMA BgetStep ==
  ASSUME IInv, NEW p \in Proc, NEW b \in Block, Bget(p, b)
  PROVE  IInv'
<1>p. CASE panicked'
  <2>1. /\ want' = [want EXCEPT ![p] = b] /\ pc[p] = "idle" /\ ~panicked
        /\ UNCHANGED <<lru, own, locked, write, queueVars, devVars, irq, intr>>
        /\ UNCHANGED <<blockno, valid, refcnt, data, cur, pc>>
    BY <1>p DEF Bget
  <2>2. want' \in [Proc -> Block \cup {None}] /\ \A q \in Proc : q # p => want'[q] = want[q]
    BY <2>1 DEF IInv, ProcsOK
  <2>3. \A q \in Proc : SamePlace(q)
    BY <2>1 DEF SamePlace, Locking, Asking, Transfer
  <2>4. \A q \in Proc : pc[q] # "idle" => want'[q] = want[q]
    BY <2>1, <2>2
  <2>5. BuffersOK' /\ ProcsOK' /\ QueuesOK' /\ ListOK'
    BY <2>1, <2>2 DEF queueVars, devVars, IInv, BuffersOK, ProcsOK, QueuesOK, ListOK
  <2>6. CacheInv'
    <3>1. \A i \in Buf : Users(i)' = Users(i)
      BY <2>1 DEF Users
    <3> QED BY <2>1, <2>4, <3>1 DEF IInv, CacheInv
  <2>7. LockInv'
    BY <2>1, <2>3, LockFrame DEF IInv, SamePlace, Holding
  <2>8. RequestInv'
    <3>1. \A q \in Proc : Transfer(q) => pc[q] # "idle"
      BY DEF Transfer
    <3> QED BY <2>1, <2>3, <2>4, <3>1, RequestFrame DEF IInv, queueVars, SamePlace
  <2>9. OwnInv' /\ RingInv'
    BY <2>1, OwnFrame, RingFrame DEF IInv, queueVars, devVars
  <2>10. DataInv'
    <3>1. \A q \in Proc : pc[q] = "have" \/ Asking(q) \/ Transfer(q) => want'[q] = want[q]
      BY <2>4 DEF Asking, Transfer
    <3> QED BY <2>1, <2>3, <3>1, DataFrame DEF IInv, queueVars, devVars
  <2>11. DescriptorsAccounted'
    BY <2>1, DescFrame DEF IInv, queueVars
  <2> QED BY <2>5, <2>6, <2>7, <2>8, <2>9, <2>10, <2>11 DEF IInv
<1>q. CASE ~panicked'
  <2>p. PICK i \in Buf : Got(p, b, i)
    BY <1>q, BgetGot
  <2>0. /\ TypeOK /\ pc \in [Proc -> States] /\ pc[p] = "idle"
        /\ want \in [Proc -> Block \cup {None}] /\ cur \in [Proc -> Buf]
        /\ refcnt \in [Buf -> Nat] /\ blockno \in [Buf -> Block \cup {None}]
        /\ valid \in [Buf -> BOOLEAN] /\ data \in [Buf -> BOOLEAN]
    BY <2>p DEF Got, IInv, TypeOK, ProcsOK, BuffersOK
  <2>1. /\ want' = [want EXCEPT ![p] = b] /\ cur' = [cur EXCEPT ![p] = i]
        /\ pc' = [pc EXCEPT ![p] = "lock"]
        /\ UNCHANGED <<lru, own, locked, write, queueVars, devVars, irq, intr>>
    BY <2>p DEF Got
  <2>2. /\ pc'[p] = "lock" /\ pc' \in [Proc -> States] /\ cur'[p] = i /\ want'[p] = b
        /\ \A q \in Proc : q # p => /\ pc'[q] = pc[q] /\ cur'[q] = cur[q] /\ want'[q] = want[q]
        /\ cur' \in [Proc -> Buf] /\ want' \in [Proc -> Block \cup {None}]
    BY <2>0, <2>1 DEF States
  <2>a. ~Holding(p) /\ ~Holding(p)' /\ ~Transfer(p) /\ ~Transfer(p)' /\ ~Asking(p) /\ ~Asking(p)'
    BY <2>0, <2>2 DEF Holding, Asking, Transfer
  <2>b. \A q \in Proc : q # p => /\ (Holding(q)' <=> Holding(q)) /\ (Transfer(q)' <=> Transfer(q))
                                 /\ (Asking(q)' <=> Asking(q))
    BY <2>2 DEF Holding, Asking, Transfer
  <2>3. /\ \A j \in Buf : j # i => /\ blockno'[j] = blockno[j] /\ valid'[j] = valid[j]
                                   /\ data'[j] = data[j] /\ refcnt'[j] = refcnt[j]
        /\ blockno'[i] = b /\ refcnt'[i] = refcnt[i] + 1 /\ (valid'[i] => data'[i])
        /\ blockno[i] # b => Cached(b) = {} /\ refcnt[i] = 0
        /\ blockno[i] = b => valid'[i] = valid[i] /\ data'[i] = data[i]
    <3>0. valid[i] => data[i]
      BY DEF IInv, DataInv
    <3>1. CASE blockno[i] = b /\ refcnt' = [refcnt EXCEPT ![i] = @ + 1] /\ UNCHANGED <<blockno, valid, data>>
      <4>1. refcnt'[i] = refcnt[i] + 1 /\ \A j \in Buf : j # i => refcnt'[j] = refcnt[j]
        BY <2>0, <3>1
      <4>2. blockno' = blockno /\ valid' = valid /\ data' = data /\ blockno[i] = b
        BY <3>1
      <4> QED BY <3>0, <4>1, <4>2, Zenon
    <3>2. CASE /\ Cached(b) = {} /\ refcnt[i] = 0
               /\ blockno' = [blockno EXCEPT ![i] = b] /\ refcnt' = [refcnt EXCEPT ![i] = 1]
               /\ valid' = [valid EXCEPT ![i] = FALSE] /\ data' = [data EXCEPT ![i] = FALSE]
      <4>1. blockno[i] # b
        BY <3>2 DEF Cached
      <4>2. refcnt'[i] = refcnt[i] + 1 /\ \A j \in Buf : j # i => refcnt'[j] = refcnt[j]
        BY <2>0, <3>2
      <4>3. blockno'[i] = b /\ \A j \in Buf : j # i => blockno'[j] = blockno[j]
        BY <2>0, <3>2
      <4>4. ~valid'[i] /\ \A j \in Buf : j # i => valid'[j] = valid[j]
        BY <2>0, <3>2
      <4>5. \A j \in Buf : j # i => data'[j] = data[j]
        BY <2>0, <3>2
      <4>6. Cached(b) = {} /\ refcnt[i] = 0
        BY <3>2
      <4> QED BY <4>1, <4>2, <4>3, <4>4, <4>5, <4>6
    <3> QED BY <2>p, <3>1, <3>2 DEF Got
  <2>4. /\ refcnt' \in [Buf -> Nat] /\ blockno' \in [Buf -> Block \cup {None}]
        /\ valid' \in [Buf -> BOOLEAN] /\ data' \in [Buf -> BOOLEAN]
    <3>1. CASE refcnt' = [refcnt EXCEPT ![i] = @ + 1] /\ UNCHANGED <<blockno, valid, data>>
      <4>1. refcnt' \in [Buf -> Nat]
        BY <2>0, <3>1
      <4> QED BY <2>0, <3>1, <4>1
    <3>2. CASE /\ blockno' = [blockno EXCEPT ![i] = b] /\ refcnt' = [refcnt EXCEPT ![i] = 1]
               /\ valid' = [valid EXCEPT ![i] = FALSE] /\ data' = [data EXCEPT ![i] = FALSE]
      <4>1. refcnt' \in [Buf -> Nat]
        BY <2>0, <3>2
      <4>2. blockno' \in [Buf -> Block \cup {None}]
        BY <2>0, <3>2
      <4>3. valid' \in [Buf -> BOOLEAN] /\ data' \in [Buf -> BOOLEAN]
        BY <2>0, <3>2
      <4> QED BY <4>1, <4>2, <4>3
    <3> QED BY <2>p, <3>1, <3>2 DEF Got
  <2>5. \A q \in Proc : pc[q] # "idle" /\ cur[q] = i => blockno[i] = b
    <3> SUFFICES ASSUME NEW q \in Proc, pc[q] # "idle", cur[q] = i, blockno[i] # b PROVE FALSE
      OBVIOUS
    <3>1. Users(i) # {} /\ IsFiniteSet(Users(i)) /\ Cardinality(Users(i)) = 0
      <4>1. q \in Users(i)
        BY DEF Users
      <4>2. Cardinality(Users(i)) = refcnt[i] /\ refcnt[i] = 0
        BY <2>3 DEF IInv, CacheInv
      <4> QED BY <4>1, <4>2, UsersFinite
    <3> QED BY <3>1, FS_EmptySet
  <2>6. BuffersOK' /\ ProcsOK' /\ QueuesOK' /\ ListOK'
    BY <2>1, <2>2, <2>4 DEF queueVars, devVars, IInv, BuffersOK, ProcsOK, QueuesOK, ListOK
  <2>7. CacheInv'
    <3>1. Users(i)' = Users(i) \cup {p} /\ p \notin Users(i)
      BY <2>0, <2>2 DEF Users
    <3>2. Cardinality(Users(i)') = Cardinality(Users(i)) + 1
      BY <3>1, UsersFinite, FS_AddElement
    <3>3. \A j \in Buf : j # i => Users(j)' = Users(j)
      BY <2>0, <2>2 DEF Users
    <3>4. \A j \in Buf : refcnt'[j] = Cardinality(Users(j)')
      BY <2>3, <3>2, <3>3 DEF IInv, CacheInv
    <3>5. ASSUME NEW q \in Proc, pc'[q] # "idle"
          PROVE  blockno'[cur'[q]] = want'[q] /\ want'[q] \in Block
      <4>1. CASE q = p
        BY <2>2, <2>3, <4>1
      <4>2. CASE q # p
        <5>1. /\ pc[q] # "idle" /\ cur'[q] = cur[q] /\ want'[q] = want[q] /\ cur[q] \in Buf
              /\ blockno[cur[q]] = want[q] /\ want[q] \in Block
          BY <2>0, <2>2, <3>5, <4>2 DEF IInv, CacheInv
        <5> QED BY <2>3, <2>5, <5>1
      <4> QED BY <4>1, <4>2
    <3>6. ASSUME NEW j \in Buf, NEW k \in Buf, blockno'[j] = blockno'[k], blockno'[j] # None
          PROVE  j = k
      <4>1. CASE blockno[i] = b
        <5>1. blockno'[j] = blockno[j] /\ blockno'[k] = blockno[k]
          BY <2>3, <4>1
        <5> QED BY <3>6, <5>1 DEF IInv, CacheInv
      <4>2. CASE blockno[i] # b
        <5>1. \A m \in Buf : m # i => blockno'[m] # b
          BY <2>3, <4>2 DEF Cached
        <5> QED BY <2>3, <3>6, <5>1 DEF IInv, CacheInv
      <4> QED BY <4>1, <4>2
    <3> QED BY <3>4, <3>5, <3>6 DEF CacheInv
  <2>8. LockInv'
    BY <2>1, <2>2, <2>a, <2>b DEF IInv, LockInv
  <2>9. RequestInv'
    BY <2>1, <2>2, <2>a, <2>b, RequestFrame DEF IInv, queueVars
  <2>10. OwnInv'
    BY <2>1, <2>2, OwnFrame DEF IInv, queueVars, devVars
  <2>11. RingInv'
    BY <2>1, RingFrame DEF IInv, devVars
  <2>12. DataInv'
    <3>1. UNCHANGED <<platter, info, avail, taken, write>>
      BY <2>1 DEF queueVars, devVars
    <3>2. Heads' = Heads /\ Coming' = Coming
      BY <3>1 DEF Heads, Coming
    <3>3. \A q \in Proc : pc[q] # "idle" => /\ cur[q] \in Buf /\ valid'[cur[q]] = valid[cur[q]]
                                            /\ data'[cur[q]] = data[cur[q]]
      BY <2>0, <2>3, <2>5
    <3>4. ASSUME NEW c \in Block, ~platter'[c]
          PROVE  \E q \in Proc : Pending(q)' /\ want'[q] = c
      <4>1. PICK q \in Proc : Pending(q) /\ want[q] = c
        BY <3>1, <3>4 DEF IInv, DataInv
      <4>2. q # p
        BY <2>a, <4>1 DEF Pending
      <4> QED BY <2>2, <2>b, <3>1, <3>2, <4>1, <4>2 DEF Pending
    <3>5. \A q \in Proc : pc'[q] = "have" => valid'[cur'[q]]
      BY <2>2, <3>3 DEF IInv, DataInv
    <3>6. \A q \in Proc : (Asking(q)' \/ Transfer(q)') /\ write'[q] => valid'[cur'[q]]
      <4> SUFFICES ASSUME NEW q \in Proc, Asking(q)' \/ Transfer(q)', write'[q]
                   PROVE  valid'[cur'[q]]
        OBVIOUS
      <4>1. q # p /\ (Asking(q) \/ Transfer(q)) /\ pc[q] # "idle"
        BY <2>a, <2>b DEF Asking, Transfer
      <4> QED BY <2>2, <3>1, <3>3, <4>1 DEF IInv, DataInv
    <3>7. ASSUME NEW d \in Heads, d \notin Coming PROVE data'[info'[d].b]
      <4>1. PICK q \in Proc : Transfer(q) /\ cur[q] = info[d].b
        BY DEF IInv, RequestInv, Serves
      <4>2. pc[q] # "idle"
        BY <4>1 DEF Transfer
      <4> QED BY <3>1, <3>3, <3>7, <4>1, <4>2 DEF IInv, DataInv
    <3>8. \A j \in Buf : valid'[j] => data'[j]
      BY <2>3 DEF IInv, DataInv
    <3> QED BY <3>2, <3>4, <3>5, <3>6, <3>7, <3>8 DEF DataInv
  <2>13. DescriptorsAccounted'
    BY <2>1, <2>2, DescFrame DEF IInv, queueVars
  <2> QED BY <2>6, <2>7, <2>8, <2>9, <2>10, <2>11, <2>12, <2>13 DEF IInv
<1> QED BY <1>p, <1>q

----------------------------------------------------------------------------
(* The driver. *)

\* Three different elements make three.
LEMMA TripleSize ==
  ASSUME NEW x, NEW y, NEW z, x # y, x # z, y # z
  PROVE  IsFiniteSet({x, y, z}) /\ Cardinality({x, y, z}) = 3
<1>1. IsFiniteSet({x, y}) /\ Cardinality({x, y}) = 2 /\ z \notin {x, y}
  BY PairSize
<1>2. IsFiniteSet({x, y} \cup {z}) /\ Cardinality({x, y} \cup {z}) = 2 + 1
  BY <1>1, FS_AddElement
<1>3. {x, y} \cup {z} = {x, y, z} /\ 2 + 1 = 3
  OBVIOUS
<1> QED BY <1>2, <1>3, Zenon

\* The sets of descriptors are finite.
LEMMA DescFinite ==
  ASSUME TypeOK
  PROVE  /\ IsFiniteSet(free) /\ Cardinality(free) \in Nat
         /\ IsFiniteSet(Heads) /\ Cardinality(Heads) \in Nat
<1>1. IsFiniteSet(Desc)
  BY FS_Interval, ConstAssumption DEF Desc
<1>2. free \in SUBSET Desc /\ Heads \in SUBSET Desc
  BY DEF TypeOK, QueuesOK, Heads
<1> QED BY <1>1, <1>2, FS_Subset, FS_CardinalityType

\* The descriptors of a request are not free.
LEMMA ChainUsed ==
  ASSUME TypeOK, DescriptorsAccounted, NEW d \in Heads
  PROVE  /\ d \in Desc /\ next[d] \in Desc /\ next[next[d]] \in Desc
         /\ d \notin free /\ next[d] \notin free /\ next[next[d]] \notin free
<1>1. d \in Desc /\ next[d] \in Desc /\ next[next[d]] \in Desc
  BY DEF Heads, TypeOK, QueuesOK
<1>2. Chain(d) \cap free = {}
  BY DEF DescriptorsAccounted, Heads
<1> QED BY <1>1, <1>2 DEF Chain

\* What virtio_disk_rw() leaves when it found the descriptors x, y and z.
Submitted(p, x, y, z) ==
  /\ pc[p] = "rw" /\ Cardinality(free) >= 3
  /\ x \in free /\ y \in free /\ z \in free /\ x # y /\ x # z /\ y # z
  /\ free' = free \ {x, y, z}
  /\ next' = [next EXCEPT ![x] = y, ![y] = z, ![z] = 0]
  /\ info' = [info EXCEPT ![x] = [b |-> cur[p], write |-> write[p], sector |-> blockno[cur[p]]]]
  /\ own' = [own EXCEPT ![cur[p]] = TRUE]
  /\ avail' = Append(avail, x)
  /\ pc' = [pc EXCEPT ![p] = "ioSleep"]
  /\ UNCHANGED <<cacheVars, data, locked, want, cur, write, used, taken, platter, irq, intr>>

\* The descriptors are there, so they are named once and for all.
LEMMA SubmitChain ==
  ASSUME IInv, NEW p \in Proc, Submit(p)
  PROVE  \E x, y, z \in Desc : Submitted(p, x, y, z)
<1>1. free \subseteq Desc /\ Cardinality(free) >= 3
  BY DEF Submit, IInv, QueuesOK
<1>2. PICK x \in Desc : x = Nth(1)
  BY <1>1, NthFacts
<1>3. PICK y \in Desc : y = Nth(2)
  BY <1>1, NthFacts
<1>4. PICK z \in Desc : z = Nth(3)
  BY <1>1, NthFacts
<1>5. x \in free /\ y \in free /\ z \in free /\ x # y /\ x # z /\ y # z
  BY <1>1, <1>2, <1>3, <1>4, NthFacts
<1>6. /\ free' = free \ {x, y, z} /\ next' = [next EXCEPT ![x] = y, ![y] = z, ![z] = 0]
      /\ info' = [info EXCEPT ![x] = [b |-> cur[p], write |-> write[p], sector |-> blockno[cur[p]]]]
      /\ avail' = Append(avail, x)
  BY <1>2, <1>3, <1>4 DEF Submit
<1>7. Submitted(p, x, y, z)
  BY <1>1, <1>5, <1>6 DEF Submitted, Submit, Goto
<1> QED BY <1>7

\* The request of p is one more, and the device has it.
LEMMA SubmitStep ==
  ASSUME IInv, NEW p \in Proc, Submit(p)
  PROVE  IInv'
<1>p. PICK x \in Desc, y \in Desc, z \in Desc : Submitted(p, x, y, z)
  BY SubmitChain
<1>0. /\ TypeOK /\ pc \in [Proc -> States] /\ pc[p] = "rw" /\ cur[p] \in Buf
      /\ own \in [Buf -> BOOLEAN] /\ info \in [Desc -> Request \cup {None}]
      /\ next \in [Desc -> Desc] /\ free \subseteq Desc /\ avail \in Seq(Desc)
      /\ want[p] \in Block /\ blockno[cur[p]] = want[p] /\ write[p] \in BOOLEAN /\ 0 \in Desc
  <2>1. pc[p] = "rw"
    BY <1>p DEF Submitted
  <2>2. /\ TypeOK /\ pc \in [Proc -> States] /\ cur[p] \in Buf
        /\ own \in [Buf -> BOOLEAN] /\ write[p] \in BOOLEAN
    BY DEF IInv, TypeOK, ProcsOK, BuffersOK
  <2>3. /\ info \in [Desc -> Request \cup {None}] /\ next \in [Desc -> Desc]
        /\ free \subseteq Desc /\ avail \in Seq(Desc)
    BY DEF IInv, QueuesOK
  <2>4. want[p] \in Block /\ blockno[cur[p]] = want[p]
    BY <2>1 DEF IInv, CacheInv
  <2>5. 0 \in Desc
    BY ConstAssumption DEF Desc
  <2> QED BY <2>1, <2>2, <2>3, <2>4, <2>5
<1> DEFINE req == [b |-> cur[p], write |-> write[p], sector |-> want[p]]
<1>1. /\ free' = free \ {x, y, z} /\ next' = [next EXCEPT ![x] = y, ![y] = z, ![z] = 0]
      /\ info' = [info EXCEPT ![x] = req] /\ own' = [own EXCEPT ![cur[p]] = TRUE]
      /\ avail' = Append(avail, x) /\ pc' = [pc EXCEPT ![p] = "ioSleep"]
      /\ UNCHANGED <<cacheVars, data, locked, want, cur, write, used, taken, platter, irq, intr>>
      /\ Cardinality(free) >= 3
      /\ x \in free /\ y \in free /\ z \in free /\ x # y /\ x # z /\ y # z
  BY <1>0, <1>p DEF Submitted
<1>r. /\ req \in Request /\ req # None
      /\ req.b = cur[p] /\ req.write = write[p] /\ req.sector = want[p]
  BY <1>0, ConstAssumption DEF Request
<1> HIDE DEF req
<1>2. /\ pc'[p] = "ioSleep" /\ pc' \in [Proc -> States]
      /\ \A q \in Proc : q # p => pc'[q] = pc[q]
      /\ info'[x] = req /\ \A d \in Desc : d # x => info'[d] = info[d]
      /\ own'[cur[p]] /\ \A i \in Buf : i # cur[p] => own'[i] = own[i]
  <2>1. pc'[p] = "ioSleep" /\ pc' \in [Proc -> States] /\ \A q \in Proc : q # p => pc'[q] = pc[q]
    BY <1>0, <1>1 DEF States
  <2>2. info'[x] = req /\ \A d \in Desc : d # x => info'[d] = info[d]
    BY <1>0, <1>1
  <2>3. own'[cur[p]] /\ \A i \in Buf : i # cur[p] => own'[i] = own[i]
    BY <1>0, <1>1
  <2> QED BY <2>1, <2>2, <2>3
<1>3. x \notin Heads /\ Heads' = Heads \cup {x}
  <2>1. x \notin Heads
    BY <1>0, <1>1, ChainUsed DEF IInv
  <2>2. \A d \in Desc : info'[d] # None <=> info[d] # None \/ d = x
    BY <1>2, <1>r
  <2> QED BY <2>1, <2>2 DEF Heads
<1>4. \A d \in Heads : d \in Desc /\ d # x /\ info'[d] = info[d] /\ info[d].b # cur[p]
  <2> TAKE d \in Heads
  <2>1. d \in Desc /\ d # x /\ info'[d] = info[d]
    BY <1>2, <1>3 DEF Heads
  <2>2. info[d].b # cur[p]
    <3> SUFFICES ASSUME info[d].b = cur[p] PROVE FALSE
      OBVIOUS
    <3>1. Holding(p)
      BY <1>0 DEF Holding, Asking
    <3>2. Serves(d, p)
      BY <3>1, Served DEF IInv
    <3> QED BY <1>0, <3>2 DEF Serves, Transfer
  <2> QED BY <2>1, <2>2
<1>5. Coming' = Coming \cup {x} /\ InFlight' = InFlight \cup {x} /\ x \notin InFlight
  <2>1. ToSet(avail') = ToSet(avail) \cup {x}
    BY <1>0, <1>1, RingAppend
  <2>2. UNCHANGED <<used, taken>>
    BY <1>1
  <2>3. Coming' = Coming \cup {x}
    BY <2>1, <2>2 DEF Coming
  <2>4. InFlight' = InFlight \cup {x}
    BY <2>2, <2>3 DEF InFlight
  <2> QED BY <1>3, <2>3, <2>4 DEF IInv, OwnInv
<1>a. \A q \in Proc : q # p => SamePlace(q)
  BY <1>2 DEF SamePlace, Locking, Asking, Transfer
<1>b. /\ Holding(p) /\ Asking(p) /\ ~Transfer(p) /\ ~Asking(p)' /\ Transfer(p)'
      /\ pc'[p] # "have" /\ pc'[p] # "idle" /\ pc[p] # "idle"
  BY <1>0, <1>2 DEF Holding, Asking, Transfer
<1>6. BuffersOK' /\ ProcsOK' /\ QueuesOK' /\ ListOK'
  <2>1. own' \in [Buf -> BOOLEAN]
    BY <1>0, <1>1
  <2>2. info' \in [Desc -> Request \cup {None}]
    BY <1>0, <1>1, <1>r
  <2>3. next' \in [Desc -> Desc]
    BY <1>0, <1>1
  <2>4. free' \subseteq Desc
    BY <1>0, <1>1
  <2>5. avail' \in Seq(Desc)
    BY <1>0, <1>1, RingAppend
  <2>6. BuffersOK'
    BY <1>1, <2>1 DEF cacheVars, IInv, BuffersOK
  <2>7. ProcsOK'
    BY <1>1, <1>2 DEF IInv, ProcsOK
  <2>8. QueuesOK'
    BY <1>1, <2>2, <2>3, <2>4, <2>5 DEF IInv, QueuesOK
  <2>9. ListOK'
    BY <1>1 DEF cacheVars, IInv, ListOK
  <2> QED BY <2>6, <2>7, <2>8, <2>9
<1>7. CacheInv'
  <2>1. \A q \in Proc : pc'[q] = "idle" <=> pc[q] = "idle"
    BY <1>a, <1>b DEF SamePlace
  <2> QED BY <1>1, <2>1, CacheFrame DEF IInv, cacheVars
<1>8. LockInv'
  <2>1. \A q \in Proc : Holding(q)' => Holding(q)
    BY <1>a, <1>b DEF SamePlace, Holding
  <2> QED BY <1>1, <2>1, LockFrame DEF IInv
<1>9. RequestInv'
  <2>0. UNCHANGED <<cur, want, write>>
    BY <1>1
  <2>1. ASSUME NEW d \in Heads' PROVE \E q \in Proc : Serves(d, q)'
    <3>1. CASE d = x
      <4>1. Serves(d, p)'
        BY <1>2, <1>b, <1>r, <2>0, <3>1 DEF Serves
      <4> QED BY <4>1
    <3>2. CASE d \in Heads
      <4>1. PICK q \in Proc : Serves(d, q)
        BY <3>2 DEF IInv, RequestInv
      <4>2. q # p
        BY <1>b, <4>1 DEF Serves
      <4>3. Serves(d, q)'
        BY <1>4, <1>a, <2>0, <3>2, <4>1, <4>2 DEF Serves, SamePlace
      <4> QED BY <4>3
    <3> QED BY <1>3, <3>1, <3>2
  <2>2. ASSUME NEW d \in Heads', NEW e \in Heads', info'[d].b = info'[e].b PROVE d = e
    <3>1. \A c \in Heads : info'[c].b # info'[x].b
      BY <1>2, <1>4, <1>r
    <3>2. CASE d \in Heads /\ e \in Heads
      BY <1>4, <2>2, <3>2 DEF IInv, RequestInv
    <3> QED BY <1>3, <2>2, <3>1, <3>2
  <2>3. ASSUME NEW q \in Proc, Transfer(q)' PROVE \E d \in Heads' : info'[d].b = cur'[q]
    <3>1. CASE q = p
      BY <1>2, <1>3, <1>r, <2>0, <3>1
    <3>2. CASE q # p
      <4>1. PICK d \in Heads : info[d].b = cur[q]
        BY <1>a, <2>3, <3>2 DEF IInv, RequestInv, SamePlace
      <4> QED BY <1>3, <1>4, <2>0, <4>1
    <3> QED BY <3>1, <3>2
  <2> QED BY <2>1, <2>2, <2>3 DEF RequestInv
<1>10. OwnInv'
  <2>1. ASSUME NEW d \in Heads' PROVE own'[info'[d].b] <=> d \in InFlight'
    <3>1. CASE d = x
      BY <1>2, <1>5, <1>r, <3>1
    <3>2. CASE d \in Heads
      <4>1. info[d].b \in Buf
        BY <1>0, <3>2, HeadType
      <4>2. own'[info'[d].b] = own[info[d].b]
        BY <1>2, <1>4, <3>2, <4>1
      <4>3. d \in InFlight' <=> d \in InFlight
        BY <1>4, <1>5, <3>2
      <4>4. own[info[d].b] <=> d \in InFlight
        BY <3>2 DEF IInv, OwnInv
      <4> QED BY <4>2, <4>3, <4>4
    <3> QED BY <1>3, <3>1, <3>2
  <2>2. ASSUME NEW q \in Proc, pc'[q] = "ioSleep" PROVE own'[cur'[q]]
    <3>1. cur'[q] = cur[q] /\ cur[q] \in Buf
      BY <1>1 DEF IInv, ProcsOK
    <3>2. CASE cur[q] = cur[p]
      BY <1>2, <3>1, <3>2
    <3>3. CASE cur[q] # cur[p]
      <4>1. own[cur[q]]
        BY <1>2, <2>2, <3>3 DEF IInv, OwnInv
      <4> QED BY <1>2, <3>1, <3>3, <4>1
    <3> QED BY <3>2, <3>3
  <2> QED BY <1>3, <1>5, <2>1, <2>2 DEF IInv, OwnInv
<1>11. RingInv'
  <2>1. /\ Distinct(avail') /\ ToSet(avail') = ToSet(avail) \cup {x}
    <3>1. Distinct(avail) /\ x \notin ToSet(avail)
      BY <1>5 DEF IInv, RingInv, InFlight, Coming
    <3> QED BY <1>0, <1>1, <3>1, RingAppend
  <2>2. x \notin taken /\ x \notin ToSet(used)
    BY <1>5 DEF InFlight, Coming
  <2>3. UNCHANGED <<used, taken, irq, intr>>
    BY <1>1
  <2>4. /\ Distinct(used) /\ ToSet(avail) \cap taken = {} /\ Coming \cap ToSet(used) = {}
        /\ used # <<>> => irq \/ intr = "loop"
    BY DEF IInv, RingInv
  <2>5. ToSet(avail') \cap taken' = {} /\ Coming' \cap ToSet(used') = {}
    BY <1>5, <2>1, <2>2, <2>3, <2>4
  <2> QED BY <2>1, <2>3, <2>4, <2>5 DEF RingInv
<1>12. DataInv'
  <2>0. UNCHANGED <<valid, data, platter, cur, want, write>>
    BY <1>1 DEF cacheVars
  <2>1. ASSUME NEW c \in Block, ~platter'[c]
        PROVE  \E q \in Proc : Pending(q)' /\ want'[q] = c
    <3>1. PICK q \in Proc : Pending(q) /\ want[q] = c
      BY <2>0, <2>1 DEF IInv, DataInv
    <3>2. CASE q = p
      <4>1. x \in Heads' /\ info'[x].b = cur'[p] /\ x \in Coming'
        BY <1>2, <1>3, <1>5, <1>r, <2>0
      <4>2. Pending(p)'
        BY <1>b, <2>0, <3>1, <3>2, <4>1 DEF Pending
      <4> QED BY <2>0, <3>1, <3>2, <4>2
    <3>3. CASE q # p
      <4>1. \A d \in Heads : d \in Coming => d \in Heads' /\ d \in Coming' /\ info'[d] = info[d]
        BY <1>3, <1>4, <1>5
      <4>2. Pending(q)'
        BY <1>a, <2>0, <3>1, <3>3, <4>1 DEF Pending, SamePlace
      <4> QED BY <2>0, <3>1, <4>2
    <3> QED BY <3>2, <3>3
  <2>2. \A q \in Proc : pc'[q] = "have" => valid'[cur'[q]]
    BY <1>2, <1>b, <2>0 DEF IInv, DataInv
  <2>3. \A q \in Proc : (Asking(q)' \/ Transfer(q)') /\ write'[q] => valid'[cur'[q]]
    BY <1>a, <1>b, <2>0 DEF IInv, DataInv, SamePlace
  <2>4. ASSUME NEW d \in Heads', d \notin Coming' PROVE data'[info'[d].b]
    <3>1. d \in Heads /\ d \notin Coming
      BY <1>3, <1>5, <2>4
    <3> QED BY <1>4, <2>0, <3>1 DEF IInv, DataInv
  <2>5. \A i \in Buf : valid'[i] => data'[i]
    BY <2>0 DEF IInv, DataInv
  <2> QED BY <2>1, <2>2, <2>3, <2>4, <2>5 DEF DataInv
<1>13. DescriptorsAccounted'
  <2>1. ASSUME NEW d \in Heads PROVE Chain(d)' = Chain(d) /\ Chain(d) \cap free = {} /\ Cardinality(Chain(d)) = 3
    <3>1. /\ d \in Desc /\ next[d] \in Desc
          /\ d \notin {x, y, z} /\ next[d] \notin {x, y, z}
      BY <1>0, <1>1, ChainUsed DEF IInv
    <3>2. next'[d] = next[d] /\ next'[next[d]] = next[next[d]]
      BY <1>0, <1>1, <3>1
    <3> QED BY <3>2 DEF Chain, IInv, DescriptorsAccounted, Heads
  <2>2. Chain(x)' = {x, y, z}
    <3>1. next'[x] = y
      BY <1>0, <1>1
    <3>2. next'[y] = z
      BY <1>0, <1>1
    <3> QED BY <3>1, <3>2 DEF Chain
  <2>3. Cardinality({x, y, z}) = 3 /\ IsFiniteSet({x, y, z})
    BY <1>1, TripleSize
  <2>4. Cardinality(free') = Cardinality(free) - 3 /\ Cardinality(free) \in Nat
    <3>1. Cardinality(free \ {x, y, z}) = Cardinality(free) - Cardinality(free \cap {x, y, z})
      BY <1>0, DescFinite, FS_Difference
    <3>2. free \cap {x, y, z} = {x, y, z}
      BY <1>1
    <3> QED BY <1>0, <1>1, <2>3, <3>1, <3>2, DescFinite
  <2>5. Cardinality(Heads') = Cardinality(Heads) + 1 /\ Cardinality(Heads) \in Nat
    BY <1>0, <1>3, DescFinite, FS_AddElement
  <2>6. NUM = Cardinality(free') + 3 * Cardinality(Heads')
    <3>1. NUM = Cardinality(free) + 3 * Cardinality(Heads)
      BY DEF IInv, DescriptorsAccounted, Heads
    <3> QED BY <2>4, <2>5, <3>1
  <2>7. \A d \in Heads' : Cardinality(Chain(d)') = 3 /\ Chain(d)' \cap free' = {}
    <3>1. {x, y, z} \cap free' = {}
      BY <1>1
    <3>2. free' \subseteq free
      BY <1>1
    <3>3. \A d \in Heads : Cardinality(Chain(d)') = 3 /\ Chain(d)' \cap free' = {}
      BY <2>1, <3>2
    <3> QED BY <1>3, <2>2, <2>3, <3>1, <3>3
  <2>8. \A d, e \in Heads' : d # e => Chain(d)' \cap Chain(e)' = {}
    <3>1. \A d \in Heads : Chain(d)' \cap Chain(x)' = {}
      BY <1>1, <2>1, <2>2
    <3>2. \A d, e \in Heads : d # e => Chain(d) \cap Chain(e) = {}
      BY DEF IInv, DescriptorsAccounted, Heads
    <3>3. \A d, e \in Heads : d # e => Chain(d)' \cap Chain(e)' = {}
      BY <2>1, <3>2
    <3> QED BY <1>3, <3>1, <3>3
  <2>9. \A q \in Proc : pc'[q] # "descSleep"
    <3>1. \A q \in Proc : pc[q] # "descSleep"
      BY <1>1, <2>4 DEF IInv, DescriptorsAccounted
    <3> QED BY <1>2, <3>1
  <2> QED BY <2>6, <2>7, <2>8, <2>9 DEF DescriptorsAccounted, Heads
<1> QED BY <1>6, <1>7, <1>8, <1>9, <1>10, <1>11, <1>12, <1>13 DEF IInv

\* The transfer goes on, or it is done and its chain is freed.
LEMMA AwaitIoStep ==
  ASSUME IInv, NEW p \in Proc, AwaitIo(p)
  PROVE  IInv'
<1>p. PICK i \in Buf : i = cur[p]
  BY DEF IInv, ProcsOK
<1>0. /\ TypeOK /\ pc \in [Proc -> States] /\ pc[p] = "io"
  BY DEF AwaitIo, IInv, TypeOK, ProcsOK
<1>t. Transfer(p) /\ ~Asking(p) /\ Holding(p) /\ pc[p] # "have"
  BY <1>0 DEF Transfer, Asking, Holding
<1>1. CASE own[i]
  <2>1. /\ pc' = [pc EXCEPT ![p] = "ioSleep"] /\ UNCHANGED <<valid, free, next, info>>
        /\ UNCHANGED <<lru, blockno, refcnt, data, own, locked, want, cur, write, devVars, irq, intr>>
    BY <1>p, <1>1 DEF AwaitIo, Goto
  <2>2. pc'[p] = "ioSleep" /\ (\A q \in Proc : q # p => pc'[q] = pc[q]) /\ pc' \in [Proc -> States]
    BY <1>0, <2>1 DEF States
  <2>3. \A q \in Proc : SamePlace(q)
    BY <1>0, <2>2 DEF SamePlace, Locking, Asking, Transfer
  <2>4. \A q \in Proc : /\ pc'[q] = "ioSleep" => own[cur[q]]
                        /\ pc'[q] = "descSleep" => pc[q] = "descSleep"
    BY <1>p, <1>1, <2>2 DEF IInv, OwnInv
  <2> QED BY <2>1, <2>2, <2>3, <2>4, QuietStep DEF Quiet, cacheVars, queueVars
<1>2. CASE ~own[i]
  <2>p. PICK h \in Heads : h = HeadOf(i) /\ info[h].b = i
    BY <1>p, <1>t, MyHead DEF IInv
  <2>1. /\ info' = [info EXCEPT ![h] = None]
        /\ free' = free \cup Chain(h)
        /\ next' = [d \in Desc |-> IF d \in Chain(h) THEN 0 ELSE next[d]]
        /\ valid' = [valid EXCEPT ![i] = TRUE]
        /\ pc' = [q \in Proc |-> IF [pc EXCEPT ![p] = "have"][q] = "descSleep"
                                 THEN "rw" ELSE [pc EXCEPT ![p] = "have"][q]]
        /\ UNCHANGED <<lru, blockno, refcnt, data, own, locked, want, cur, write, devVars, irq, intr>>
    BY <1>p, <1>2, <2>p DEF AwaitIo, Wake, Freed
  <2>2. /\ pc'[p] = "have" /\ pc' \in [Proc -> States]
        /\ \A q \in Proc : q # p => pc'[q] = pc[q] \/ (pc[q] = "descSleep" /\ pc'[q] = "rw")
        /\ \A q \in Proc : pc'[q] # "descSleep"
    BY <1>0, <2>1 DEF States
  <2>a. \A q \in Proc : q # p => SamePlace(q)
    BY <2>2 DEF SamePlace, Locking, Asking, Transfer
  <2>b. ~Transfer(p)' /\ ~Asking(p)'
    BY <2>2 DEF Transfer, Asking
  <2>3. h \in Desc /\ Serves(h, p) /\ h \notin InFlight /\ h \notin Coming
    BY <1>p, <1>2, <1>t, <2>p, Served DEF IInv, OwnInv, InFlight, Heads
  <2>4. /\ Heads' = Heads \ {h} /\ \A d \in Heads' : info'[d] = info[d] /\ info[d].b # i
        /\ Coming' = Coming /\ InFlight' = InFlight
    <3>1. info'[h] = None /\ \A d \in Desc : d # h => info'[d] = info[d]
      BY <1>0, <2>1, <2>3 DEF TypeOK, QueuesOK
    <3>2. Heads' = Heads \ {h}
      BY <3>1 DEF Heads
    <3>3. \A d \in Heads' : info'[d] = info[d] /\ info[d].b # i
      BY <2>p, <3>1, <3>2 DEF Heads, IInv, RequestInv
    <3>4. Coming' = Coming /\ InFlight' = InFlight
      BY <2>1 DEF Coming, InFlight, devVars
    <3> QED BY <3>2, <3>3, <3>4
  <2>5. valid'[i] /\ \A j \in Buf : j # i => valid'[j] = valid[j]
    BY <2>1 DEF IInv, BuffersOK
  <2>6. BuffersOK' /\ ProcsOK' /\ QueuesOK' /\ ListOK'
    <3>1. valid' \in [Buf -> BOOLEAN]
      BY <2>1 DEF IInv, BuffersOK
    <3>2. info' \in [Desc -> Request \cup {None}]
      <4>1. info \in [Desc -> Request \cup {None}]
        BY DEF IInv, QueuesOK
      <4> QED BY <2>1, <4>1
    <3>3. 0 \in Desc /\ next \in [Desc -> Desc] /\ free \subseteq Desc
      <4>1. 0 \in Desc
        BY ConstAssumption DEF Desc
      <4> QED BY <4>1 DEF IInv, QueuesOK
    <3>4. next' \in [Desc -> Desc]
      BY <2>1, <3>3
    <3>5. free' \subseteq Desc
      BY <2>1, <2>3, <3>3 DEF Chain
    <3>6. BuffersOK' /\ ProcsOK' /\ ListOK'
      BY <2>1, <2>2, <3>1 DEF devVars, IInv, BuffersOK, ProcsOK, ListOK
    <3>7. QueuesOK'
      BY <2>1, <3>2, <3>4, <3>5 DEF devVars, IInv, QueuesOK
    <3> QED BY <3>6, <3>7
  <2>7. CacheInv'
    <3>1. \A q \in Proc : pc'[q] = "idle" <=> pc[q] = "idle"
      BY <1>0, <2>2, <2>a DEF SamePlace
    <3> QED BY <2>1, <3>1, CacheFrame DEF IInv
  <2>8. LockInv'
    <3>1. \A q \in Proc : Holding(q)' => Holding(q)
      BY <1>t, <2>a DEF SamePlace, Holding
    <3> QED BY <2>1, <3>1, LockFrame DEF IInv
  <2>9. RequestInv'
    <3>0. UNCHANGED <<cur, want, write>>
      BY <2>1
    <3>1. ASSUME NEW d \in Heads' PROVE \E q \in Proc : Serves(d, q)'
      <4>1. PICK q \in Proc : Serves(d, q)
        BY <2>4, <3>1 DEF IInv, RequestInv
      <4>2. q # p
        BY <1>p, <2>4, <3>1, <4>1 DEF Serves
      <4>3. Serves(d, q)'
        BY <2>4, <2>a, <3>0, <3>1, <4>1, <4>2 DEF Serves, SamePlace
      <4> QED BY <4>3
    <3>2. \A d, e \in Heads' : info'[d].b = info'[e].b => d = e
      BY <2>4 DEF IInv, RequestInv
    <3>3. ASSUME NEW q \in Proc, Transfer(q)' PROVE \E d \in Heads' : info'[d].b = cur'[q]
      <4>1. q # p /\ Transfer(q) /\ Holding(q)
        BY <2>a, <2>b, <3>3 DEF SamePlace, Holding
      <4>2. PICK d \in Heads : info[d].b = cur[q]
        BY <4>1 DEF IInv, RequestInv
      <4>3. cur[q] # cur[p]
        BY <1>t, <4>1, OneHolder DEF IInv
      <4> QED BY <1>p, <2>p, <2>4, <3>0, <4>2, <4>3
    <3> QED BY <3>1, <3>2, <3>3 DEF RequestInv
  <2>10. OwnInv'
    <3>1. \A q \in Proc : pc'[q] = "ioSleep" => own'[cur'[q]]
      BY <2>1, <2>2 DEF IInv, OwnInv
    <3>2. InFlight' \subseteq Heads'
      BY <2>3, <2>4 DEF IInv, OwnInv
    <3>3. \A d \in Heads' : own'[info'[d].b] <=> d \in InFlight'
      BY <2>1, <2>4 DEF IInv, OwnInv
    <3> QED BY <3>1, <3>2, <3>3 DEF OwnInv
  <2>11. RingInv'
    BY <2>1, RingFrame DEF IInv, devVars
  <2>12. DataInv'
    <3>0. UNCHANGED <<data, platter, cur, want, write>>
      BY <2>1 DEF devVars
    <3>1. ASSUME NEW c \in Block, ~platter'[c]
          PROVE  \E q \in Proc : Pending(q)' /\ want'[q] = c
      <4>1. PICK q \in Proc : Pending(q) /\ want[q] = c
        BY <3>0, <3>1 DEF IInv, DataInv
      <4>2. ASSUME NEW d \in Heads, d \in Coming PROVE d \in Heads' /\ d \in Coming' /\ info'[d] = info[d] /\ info[d].b # i
        BY <2>3, <2>4, <4>2
      <4>3. q # p
        BY <1>p, <1>t, <4>1, <4>2 DEF Pending
      <4>4. Pending(q)'
        BY <2>a, <3>0, <4>1, <4>2, <4>3 DEF Pending, SamePlace
      <4> QED BY <3>0, <4>1, <4>4
    <3>2. \A q \in Proc : valid[cur[q]] => valid'[cur[q]]
      BY <2>5 DEF IInv, ProcsOK
    <3>3. \A q \in Proc : pc'[q] = "have" => valid'[cur'[q]]
      <4> SUFFICES ASSUME NEW q \in Proc, pc'[q] = "have" PROVE valid'[cur[q]]
        BY <3>0
      <4>1. CASE q = p
        BY <1>p, <2>5, <4>1
      <4>2. CASE q # p
        BY <2>2, <3>2, <4>2 DEF IInv, DataInv
      <4> QED BY <4>1, <4>2
    <3>4. \A q \in Proc : (Asking(q)' \/ Transfer(q)') /\ write'[q] => valid'[cur'[q]]
      BY <2>a, <2>b, <3>0, <3>2 DEF IInv, DataInv, SamePlace
    <3>5. \A d \in Heads' : d \notin Coming' => data'[info'[d].b]
      BY <2>4, <3>0 DEF IInv, DataInv
    <3>6. data[i]
      BY <2>p, <2>3 DEF IInv, DataInv
    <3>7. \A j \in Buf : valid'[j] => data'[j]
      BY <2>5, <3>0, <3>6 DEF IInv, DataInv
    <3> QED BY <3>1, <3>3, <3>4, <3>5, <3>7 DEF DataInv
  <2>13. DescriptorsAccounted'
    <3>1. /\ Chain(h) \cap free = {} /\ Cardinality(Chain(h)) = 3 /\ Chain(h) \subseteq Desc
          /\ \A d \in Heads' : Chain(d) \cap Chain(h) = {} /\ d \in Heads
      <4>1. Chain(h) \cap free = {} /\ Cardinality(Chain(h)) = 3
        BY DEF IInv, DescriptorsAccounted, Heads
      <4>2. Chain(h) \subseteq Desc
        BY <1>0, ChainUsed DEF IInv, Chain
      <4>3. \A d \in Heads : d # h => Chain(d) \cap Chain(h) = {}
        BY DEF IInv, DescriptorsAccounted, Heads
      <4> QED BY <2>4, <4>1, <4>2, <4>3
    <3>2. ASSUME NEW d \in Heads' PROVE Chain(d)' = Chain(d)
      <4>1. /\ d \in Desc /\ next[d] \in Desc /\ d \notin Chain(h) /\ next[d] \notin Chain(h)
        <5>1. d \in Desc /\ next[d] \in Desc
          BY <1>0, <3>1, ChainUsed DEF IInv
        <5>2. d \in Chain(d) /\ next[d] \in Chain(d)
          BY DEF Chain
        <5> QED BY <3>1, <5>1, <5>2
      <4>2. next'[d] = next[d] /\ next'[next[d]] = next[next[d]]
        BY <2>1, <4>1
      <4> QED BY <4>2 DEF Chain
    <3>3. Cardinality(free') = Cardinality(free) + 3 /\ Cardinality(free) \in Nat
      <4>1. IsFiniteSet(Chain(h))
        <5>1. IsFiniteSet(Desc) /\ Chain(h) \in SUBSET Desc
          BY <3>1, FS_Interval, ConstAssumption DEF Desc
        <5> QED BY <5>1, FS_Subset
      <4>2. Cardinality(free \cup Chain(h))
              = Cardinality(free) + Cardinality(Chain(h)) - Cardinality(free \cap Chain(h))
        BY <1>0, <4>1, DescFinite, FS_Union
      <4>3. free \cap Chain(h) = {} /\ Cardinality({}) = 0
        BY <3>1, FS_EmptySet
      <4>4. Cardinality(free) \in Nat
        BY <1>0, DescFinite
      <4>5. Cardinality(free \cup Chain(h)) = Cardinality(free) + 3 - 0
        BY <3>1, <4>2, <4>3
      <4>6. Cardinality(free) + 3 - 0 = Cardinality(free) + 3
        BY <4>4
      <4> QED BY <2>1, <4>4, <4>5, <4>6, Zenon
    <3>4. Cardinality(Heads') = Cardinality(Heads) - 1 /\ Cardinality(Heads) \in Nat
      BY <1>0, <2>p, <2>4, DescFinite, FS_RemoveElement
    <3>5. NUM = Cardinality(free') + 3 * Cardinality(Heads')
      <4>1. NUM = Cardinality(free) + 3 * Cardinality(Heads)
        BY DEF IInv, DescriptorsAccounted, Heads
      <4> QED BY <3>3, <3>4, <4>1
    <3>6. \A d \in Heads' : Cardinality(Chain(d)') = 3 /\ Chain(d)' \cap free' = {}
      <4>1. \A d \in Heads' : Cardinality(Chain(d)) = 3 /\ Chain(d) \cap free = {}
        BY <3>1 DEF IInv, DescriptorsAccounted, Heads
      <4> QED BY <2>1, <3>1, <3>2, <4>1
    <3>7. \A d, e \in Heads' : d # e => Chain(d)' \cap Chain(e)' = {}
      <4>1. \A d, e \in Heads : d # e => Chain(d) \cap Chain(e) = {}
        BY DEF IInv, DescriptorsAccounted, Heads
      <4> QED BY <3>1, <3>2, <4>1
    <3> QED BY <2>2, <3>5, <3>6, <3>7 DEF DescriptorsAccounted, Heads
  <2> QED BY <2>6, <2>7, <2>8, <2>9, <2>10, <2>11, <2>12, <2>13 DEF IInv
<1> QED BY <1>1, <1>2

----------------------------------------------------------------------------
(* The interrupt handler. *)

\* The interrupt is acknowledged: the handler will look at the used ring.
LEMMA IntrAckStep ==
  ASSUME IInv, IntrAck
  PROVE  IInv'
<1>1. /\ irq' = FALSE /\ intr' = "loop"
      /\ UNCHANGED <<cacheVars, data, own, locked, pc, want, cur, write, queueVars, devVars>>
  BY DEF IntrAck
<1>2. BuffersOK' /\ ProcsOK' /\ QueuesOK' /\ ListOK'
  BY <1>1 DEF cacheVars, queueVars, devVars, IInv, BuffersOK, ProcsOK, QueuesOK, ListOK
<1>3. \A q \in Proc : SamePlace(q)
  BY <1>1 DEF SamePlace, Locking, Asking, Transfer
<1>4. CacheInv' /\ LockInv'
  BY <1>1, <1>3, CacheFrame, LockFrame DEF IInv, cacheVars, SamePlace, Holding
<1>5. RequestInv' /\ OwnInv'
  BY <1>1, <1>3, RequestFrame, OwnFrame DEF IInv, queueVars, devVars, SamePlace
<1>6. RingInv'
  BY <1>1 DEF IInv, RingInv, devVars, Coming, Distinct
<1>7. DataInv'
  BY <1>1, <1>3, DataFrame DEF IInv, cacheVars, queueVars, devVars
<1>8. DescriptorsAccounted'
  BY <1>1, DescFrame DEF IInv, queueVars
<1> QED BY <1>2, <1>4, <1>5, <1>6, <1>7, <1>8 DEF IInv

\* A completion is taken off the used ring and its sleeper wakes up, or the handler is done.
LEMMA IntrLoopStep ==
  ASSUME IInv, IntrLoop
  PROVE  IInv'
<1>0. TypeOK /\ pc \in [Proc -> States] /\ own \in [Buf -> BOOLEAN] /\ used \in Seq(Desc)
  BY DEF IInv, TypeOK, ProcsOK, BuffersOK, QueuesOK
<1>1. CASE used = <<>>
  <2>1. /\ intr' = "off" /\ UNCHANGED <<own, pc, used, irq>>
        /\ UNCHANGED <<cacheVars, data, locked, want, cur, write, queueVars, avail, taken, platter>>
    BY <1>1 DEF IntrLoop
  <2>2. BuffersOK' /\ ProcsOK' /\ QueuesOK' /\ ListOK'
    BY <2>1 DEF cacheVars, queueVars, IInv, BuffersOK, ProcsOK, QueuesOK, ListOK
  <2>3. \A q \in Proc : SamePlace(q)
    BY <2>1 DEF SamePlace, Locking, Asking, Transfer
  <2>4. CacheInv' /\ LockInv'
    BY <2>1, <2>3, CacheFrame, LockFrame DEF IInv, cacheVars, SamePlace, Holding
  <2>5. RequestInv' /\ OwnInv'
    BY <2>1, <2>3, RequestFrame, OwnFrame DEF IInv, queueVars, SamePlace
  <2>6. RingInv'
    BY <1>1, <2>1 DEF IInv, RingInv, Coming, Distinct
  <2>7. DataInv'
    BY <2>1, <2>3, DataFrame DEF IInv, cacheVars, queueVars
  <2>8. DescriptorsAccounted'
    BY <2>1, DescFrame DEF IInv, queueVars
  <2> QED BY <2>2, <2>4, <2>5, <2>6, <2>7, <2>8 DEF IInv
<1>2. CASE used # <<>>
  <2>0. /\ Tail(used) \in Seq(Desc) /\ Head(used) \in ToSet(used)
        /\ ToSet(Tail(used)) = ToSet(used) \ {Head(used)} /\ Distinct(Tail(used))
    BY <1>0, <1>2, RingTail DEF IInv, RingInv
  <2>p. PICK h \in Heads : h = Head(used)
    BY <2>0 DEF IInv, OwnInv, InFlight
  <2>q. PICK i \in Buf : i = info[h].b
    BY <1>0, HeadType
  <2>1. /\ own' = [own EXCEPT ![i] = FALSE]
        /\ pc' = [q \in Proc |-> IF pc[q] = "ioSleep" /\ cur[q] = i THEN "io" ELSE pc[q]]
        /\ used' = Tail(used) /\ UNCHANGED <<irq, intr>> /\ intr = "loop"
        /\ UNCHANGED <<cacheVars, data, locked, want, cur, write, queueVars, avail, taken, platter>>
    BY <1>2, <2>p, <2>q DEF IntrLoop, Wake, LookAgain
  <2>2. /\ ~own'[i] /\ \A j \in Buf : j # i => own'[j] = own[j]
        /\ \A q \in Proc : pc'[q] = "ioSleep" => pc[q] = "ioSleep" /\ cur[q] # i
        /\ \A q \in Proc : pc'[q] = pc[q] \/ (pc[q] = "ioSleep" /\ pc'[q] = "io")
        /\ pc' \in [Proc -> States]
    <3>1. ~own'[i] /\ \A j \in Buf : j # i => own'[j] = own[j]
      BY <1>0, <2>1
    <3>2. /\ \A q \in Proc : pc'[q] = "ioSleep" => pc[q] = "ioSleep" /\ cur[q] # i
          /\ \A q \in Proc : pc'[q] = pc[q] \/ (pc[q] = "ioSleep" /\ pc'[q] = "io")
      BY <2>1
    <3>3. pc' \in [Proc -> States]
      BY <1>0, <2>1 DEF States
    <3> QED BY <3>1, <3>2, <3>3
  <2>3. \A q \in Proc : SamePlace(q)
    BY <2>2 DEF SamePlace, Locking, Asking, Transfer
  <2>4. BuffersOK' /\ ProcsOK' /\ QueuesOK' /\ ListOK'
    <3>1. own' \in [Buf -> BOOLEAN]
      BY <1>0, <2>1
    <3>2. used' \in Seq(Desc)
      BY <2>0, <2>1
    <3> QED BY <2>1, <2>2, <3>1, <3>2 DEF cacheVars, queueVars, IInv, BuffersOK, ProcsOK, QueuesOK, ListOK
  <2>5. CacheInv' /\ LockInv'
    BY <2>1, <2>3, CacheFrame, LockFrame DEF IInv, cacheVars, SamePlace, Holding
  <2>6. RequestInv'
    BY <2>1, <2>3, RequestFrame DEF IInv, queueVars, SamePlace
  <2>7. Heads' = Heads /\ Coming' = Coming /\ InFlight' = InFlight \ {h} /\ UNCHANGED <<info, cur>>
    <3>1. UNCHANGED <<info, cur, avail, taken>>
      BY <2>1 DEF queueVars
    <3>2. Heads' = Heads /\ Coming' = Coming
      BY <3>1 DEF Heads, Coming
    <3>3. Coming \cap ToSet(used) = {} /\ h \in ToSet(used) /\ ToSet(used') = ToSet(used) \ {h}
      BY <2>0, <2>p, <2>1 DEF IInv, RingInv
    <3> QED BY <3>1, <3>2, <3>3 DEF InFlight
  <2>8. OwnInv'
    <3>1. InFlight' \subseteq Heads'
      BY <2>7 DEF IInv, OwnInv
    <3>2. ASSUME NEW d \in Heads PROVE own'[info[d].b] <=> d \in InFlight'
      <4>1. CASE d = h
        BY <2>q, <2>2, <2>7, <4>1
      <4>2. CASE d # h
        <5>1. info[d].b # i /\ info[d].b \in Buf
          BY <1>0, <2>q, <4>2, HeadType DEF IInv, RequestInv
        <5>2. own[info[d].b] <=> d \in InFlight
          BY DEF IInv, OwnInv
        <5> QED BY <2>2, <2>7, <4>2, <5>1, <5>2
      <4> QED BY <4>1, <4>2
    <3>3. ASSUME NEW q \in Proc, pc'[q] = "ioSleep" PROVE own'[cur[q]]
      <4>1. pc[q] = "ioSleep" /\ cur[q] # i /\ cur[q] \in Buf
        BY <2>2, <3>3 DEF IInv, ProcsOK
      <4> QED BY <2>2, <4>1 DEF IInv, OwnInv
    <3> QED BY <2>7, <3>1, <3>2, <3>3 DEF OwnInv
  <2>9. RingInv'
    <3>1. UNCHANGED <<avail, taken, irq, intr>> /\ used' = Tail(used) /\ intr = "loop"
      BY <2>1
    <3>2. ToSet(used') \subseteq ToSet(used) /\ Distinct(used')
      BY <2>0, <3>1
    <3> QED BY <2>7, <3>1, <3>2 DEF IInv, RingInv
  <2>10. DataInv'
    BY <2>1, <2>3, DataFrame DEF IInv, cacheVars, queueVars
  <2>11. DescriptorsAccounted'
    BY <2>1, <2>2, DescFrame DEF IInv, queueVars
  <2> QED BY <2>4, <2>5, <2>6, <2>8, <2>9, <2>10, <2>11 DEF IInv
<1> QED BY <1>1, <1>2

----------------------------------------------------------------------------
(* The device. *)

\* The device takes the next request from the ring.
LEMMA DevTakeStep ==
  ASSUME IInv, DevTake
  PROVE  IInv'
<1>0. TypeOK /\ avail \in Seq(Desc) /\ avail # <<>> /\ taken \subseteq Desc
  BY DEF DevTake, IInv, TypeOK, QueuesOK
<1>1. /\ taken' = taken \cup {Head(avail)} /\ avail' = Tail(avail)
      /\ UNCHANGED <<cacheVars, data, own, locked, pc, want, cur, write, queueVars, used, platter, irq, intr>>
  BY DEF DevTake
<1>2. /\ Tail(avail) \in Seq(Desc) /\ Head(avail) \in ToSet(avail) /\ Head(avail) \in Desc
      /\ ToSet(Tail(avail)) = ToSet(avail) \ {Head(avail)} /\ Distinct(Tail(avail))
  BY <1>0, RingTail DEF IInv, RingInv
<1>3. PICK h \in Desc : h = Head(avail)
  BY <1>2
<1>4. /\ taken' = taken \cup {h} /\ h \in ToSet(avail) /\ ToSet(avail') = ToSet(avail) \ {h}
      /\ avail' \in Seq(Desc) /\ Distinct(avail')
  BY <1>1, <1>2, <1>3
<1>5. Heads' = Heads /\ Coming' = Coming /\ InFlight' = InFlight
  <2>1. Heads' = Heads
    BY <1>1 DEF Heads, queueVars
  <2>2. Coming' = Coming
    BY <1>4 DEF Coming
  <2> QED BY <1>1, <2>1, <2>2 DEF InFlight
<1>6. BuffersOK' /\ ProcsOK' /\ QueuesOK' /\ ListOK'
  <2>1. taken' \subseteq Desc
    BY <1>0, <1>4
  <2> QED BY <1>1, <1>4, <2>1 DEF cacheVars, queueVars, IInv, BuffersOK, ProcsOK, QueuesOK, ListOK
<1>7. \A q \in Proc : SamePlace(q)
  BY <1>1 DEF SamePlace, Locking, Asking, Transfer
<1>8. CacheInv' /\ LockInv'
  BY <1>1, <1>7, CacheFrame, LockFrame DEF IInv, cacheVars, SamePlace, Holding
<1>9. RequestInv'
  BY <1>1, <1>7, RequestFrame DEF IInv, queueVars, SamePlace
<1>10. OwnInv'
  BY <1>1, <1>5 DEF IInv, OwnInv, queueVars
<1>11. RingInv'
  <2>1. ToSet(avail') \cap taken' = {}
    BY <1>4 DEF IInv, RingInv
  <2> QED BY <1>1, <1>4, <1>5, <2>1 DEF IInv, RingInv
<1>12. DataInv'
  <2>1. UNCHANGED <<valid, data, platter, info, pc, cur, want, write>>
    BY <1>1 DEF cacheVars, queueVars
  <2>2. \A q \in Proc : Pending(q)' <=> Pending(q)
    BY <1>5, <2>1 DEF Pending, Asking, Transfer
  <2> QED BY <1>5, <2>1, <2>2 DEF IInv, DataInv, Asking, Transfer
<1>13. DescriptorsAccounted'
  BY <1>1, DescFrame DEF IInv, queueVars
<1> QED BY <1>6, <1>8, <1>9, <1>10, <1>11, <1>12, <1>13 DEF IInv

\* What the device leaves: the buffer and the disk agree on the block.
DoneWith(d) ==
  /\ data'[info[d].b] /\ platter'[info[d].sector]
  /\ \A i \in Buf : i # info[d].b => data'[i] = data[i]
  /\ \A c \in Block : c # info[d].sector => platter'[c] = platter[c]
  /\ data' \in [Buf -> BOOLEAN] /\ platter' \in [Block -> BOOLEAN]

\* A write had the newest data, and a read finds a disk that is not behind: the holder of the
\* buffer, the only one who could have written, is reading.
LEMMA DevDoneAgrees ==
  ASSUME IInv, NEW d \in Desc, d \in Heads, NEW p \in Proc, Serves(d, p), DevDone(d)
  PROVE  DoneWith(d)
<1>p. PICK i \in Buf : i = info[d].b
  BY HeadType DEF IInv, TypeOK
<1>q. PICK c \in Block : c = info[d].sector
  BY HeadType DEF IInv, TypeOK
<1>0. /\ data \in [Buf -> BOOLEAN] /\ platter \in [Block -> BOOLEAN] /\ info[d].write \in BOOLEAN
      /\ pc[p] # "idle" /\ Holding(p) /\ Transfer(p) /\ cur[p] = i /\ want[p] = c
      /\ write[p] = info[d].write
  BY <1>p, <1>q, HeadType DEF IInv, TypeOK, BuffersOK, Serves, Transfer, Holding
<1>1. blockno[i] = c
  BY <1>0 DEF IInv, CacheInv
<1>2. CASE info[d].write
  <2>1. platter' = [platter EXCEPT ![c] = TRUE /\ data[i]] /\ data' = data
    BY <1>p, <1>q, <1>1, <1>2 DEF DevDone
  <2>2. data[i]
    BY <1>0, <1>2 DEF IInv, DataInv
  <2>3. platter'[c] /\ (\A b \in Block : b # c => platter'[b] = platter[b]) /\ platter' \in [Block -> BOOLEAN]
    BY <1>0, <2>1, <2>2
  <2> QED BY <1>p, <1>q, <1>0, <2>1, <2>2, <2>3 DEF DoneWith
<1>3. CASE ~info[d].write
  <2>1. data' = [data EXCEPT ![i] = TRUE /\ platter[c]] /\ platter' = platter
    BY <1>p, <1>q, <1>1, <1>3 DEF DevDone
  <2>2. platter[c]
    <3> SUFFICES ASSUME ~platter[c] PROVE FALSE
      OBVIOUS
    <3>1. PICK q \in Proc : Pending(q) /\ want[q] = c
      BY DEF IInv, DataInv
    <3>2. Holding(q) /\ pc[q] # "idle" /\ write[q]
      BY <3>1 DEF Pending, Holding, Asking, Transfer
    <3>3. cur[q] = cur[p]
      BY <1>0, <3>1, <3>2, SameBuffer DEF IInv
    <3>4. q = p
      BY <1>0, <3>2, <3>3, OneHolder DEF IInv
    <3> QED BY <1>0, <1>3, <3>2, <3>4
  <2>3. data'[i] /\ (\A j \in Buf : j # i => data'[j] = data[j]) /\ data' \in [Buf -> BOOLEAN]
    BY <1>0, <2>1, <2>2
  <2> QED BY <1>p, <1>q, <1>0, <2>1, <2>2, <2>3 DEF DoneWith
<1> QED BY <1>2, <1>3

\* A finished request is reported and an interrupt raised.
LEMMA DevDoneStep ==
  ASSUME IInv, NEW d \in Desc, DevDone(d)
  PROVE  IInv'
<1>0. TypeOK /\ used \in Seq(Desc) /\ taken \subseteq Desc /\ d \in taken
  BY DEF DevDone, IInv, TypeOK, QueuesOK
<1>1. /\ used' = Append(used, d) /\ taken' = taken \ {d} /\ irq' = TRUE
      /\ UNCHANGED <<cacheVars, own, locked, pc, want, cur, write, queueVars, avail, intr>>
  BY DEF DevDone
<1>2. d \in Heads /\ d \in Coming
  BY <1>0 DEF IInv, OwnInv, InFlight, Coming
<1>p. PICK p \in Proc : Serves(d, p)
  BY <1>2 DEF IInv, RequestInv
<1>q. DoneWith(d)
  BY <1>2, <1>p, DevDoneAgrees
<1>t. PICK i \in Buf, c \in Block : i = info[d].b /\ c = info[d].sector
  BY <1>0, <1>2, HeadType
<1>3. /\ data'[i] /\ platter'[c]
      /\ \A j \in Buf : j # i => data'[j] = data[j]
      /\ \A b \in Block : b # c => platter'[b] = platter[b]
      /\ data' \in [Buf -> BOOLEAN] /\ platter' \in [Block -> BOOLEAN]
  BY <1>q, <1>t DEF DoneWith
<1>4. d \notin ToSet(avail) /\ d \notin ToSet(used)
  BY <1>0, <1>2 DEF IInv, RingInv
<1>5. /\ used' \in Seq(Desc) /\ Distinct(used') /\ ToSet(used') = ToSet(used) \cup {d}
  <2>1. Distinct(used)
    BY DEF IInv, RingInv
  <2> QED BY <1>0, <1>1, <1>4, <2>1, RingAppend
<1>6. Heads' = Heads /\ Coming' = Coming \ {d} /\ InFlight' = InFlight
  <2>1. Heads' = Heads
    BY <1>1 DEF Heads, queueVars
  <2>2. Coming' = Coming \ {d}
    BY <1>1, <1>4 DEF Coming
  <2> QED BY <1>2, <1>5, <2>1, <2>2 DEF InFlight
<1>7. BuffersOK' /\ ProcsOK' /\ QueuesOK' /\ ListOK'
  <2>1. taken' \subseteq Desc
    BY <1>0, <1>1
  <2> QED BY <1>1, <1>3, <1>5, <2>1 DEF cacheVars, queueVars, IInv, BuffersOK, ProcsOK, QueuesOK, ListOK
<1>8. \A q \in Proc : SamePlace(q)
  BY <1>1 DEF SamePlace, Locking, Asking, Transfer
<1>9. CacheInv' /\ LockInv'
  BY <1>1, <1>8, CacheFrame, LockFrame DEF IInv, cacheVars, SamePlace, Holding
<1>10. RequestInv'
  BY <1>1, <1>8, RequestFrame DEF IInv, queueVars, SamePlace
<1>11. OwnInv'
  BY <1>1, <1>6 DEF IInv, OwnInv, queueVars
<1>12. RingInv'
  <2>1. ToSet(avail') \cap taken' = {} /\ Coming' \cap ToSet(used') = {}
    BY <1>1, <1>5, <1>6 DEF IInv, RingInv
  <2>2. Distinct(avail')
    BY <1>1 DEF IInv, RingInv
  <2> QED BY <1>1, <1>5, <2>1, <2>2 DEF RingInv
<1>13. DataInv'
  <2>0. UNCHANGED <<valid, info, pc, cur, want, write>>
    BY <1>1 DEF cacheVars, queueVars
  <2>1. \A j \in Buf : data[j] => data'[j]
    BY <1>3
  <2>2. ASSUME NEW b \in Block, ~platter'[b]
        PROVE  \E q \in Proc : Pending(q)' /\ want'[q] = b
    <3>1. b # c /\ ~platter[b]
      BY <1>3, <2>2
    <3>2. PICK q \in Proc : Pending(q) /\ want[q] = b
      BY <3>1 DEF IInv, DataInv
    <3>3. cur[q] # i
      <4> SUFFICES ASSUME cur[q] = i PROVE FALSE
        OBVIOUS
      <4>1. Holding(q) /\ Holding(p) /\ cur[p] = i /\ want[p] = c
        BY <1>p, <1>t, <3>2 DEF Pending, Serves, Holding, Asking, Transfer
      <4>2. q = p
        BY <4>1, OneHolder DEF IInv
      <4> QED BY <3>1, <3>2, <4>1, <4>2
    <3>4. Pending(q)'
      <4>1. \A e \in Heads : info[e].b = cur[q] /\ e \in Coming => e \in Coming' /\ e \in Heads'
        BY <1>6, <1>t, <3>3
      <4> QED BY <2>0, <3>2, <4>1 DEF Pending, Asking, Transfer
    <3> QED BY <2>0, <3>2, <3>4
  <2>3. ASSUME NEW e \in Heads, e \notin Coming' PROVE data'[info[e].b]
    <3>1. CASE e = d
      BY <1>3, <1>t, <3>1
    <3>2. CASE e # d
      <4>1. data[info[e].b] /\ info[e].b \in Buf
        BY <1>0, <1>6, <2>3, <3>2, HeadType DEF IInv, DataInv
      <4> QED BY <2>1, <4>1
    <3> QED BY <3>1, <3>2
  <2>4. \A j \in Buf : valid'[j] => data'[j]
    BY <2>0, <2>1 DEF IInv, DataInv
  <2>5. \A q \in Proc : pc'[q] = "have" => valid'[cur'[q]]
    BY <2>0 DEF IInv, DataInv
  <2>6. \A q \in Proc : (Asking(q)' \/ Transfer(q)') /\ write'[q] => valid'[cur'[q]]
    BY <2>0 DEF IInv, DataInv, Asking, Transfer
  <2> QED BY <1>6, <2>0, <2>2, <2>3, <2>4, <2>5, <2>6 DEF DataInv
<1>14. DescriptorsAccounted'
  BY <1>1, DescFrame DEF IInv, queueVars
<1> QED BY <1>7, <1>9, <1>10, <1>11, <1>12, <1>13, <1>14 DEF IInv

----------------------------------------------------------------------------
(* The theorems. *)

\* Every action keeps the inductive invariant.
LEMMA StepInv ==
  ASSUME IInv, [Next]_vars
  PROVE  IInv'
<1>1. CASE Next
  <2>1. ASSUME NEW p \in Proc, NEW b \in Block, Bget(p, b) PROVE IInv'
    BY <2>1, BgetStep
  <2>2. ASSUME NEW p \in Proc, Step(p) PROVE IInv'
    BY <2>2, AcquireSleepStep, BrelseStep, SubmitStep, NoDescStep, AwaitIoStep DEF Step
  <2>3. ASSUME NEW p \in Proc, Bwrite(p) \/ ReleaseSleep(p) \/ Kill(p) PROVE IInv'
    BY <2>3, BwriteStep, ReleaseSleepStep, KillStep
  <2>4. CASE IntrAck \/ IntrLoop
    BY <2>4, IntrAckStep, IntrLoopStep
  <2>5. CASE Device
    BY <2>5, DevTakeStep, DevDoneStep DEF Device
  <2> QED BY <1>1, <2>1, <2>2, <2>3, <2>4, <2>5 DEF Next
<1>2. CASE UNCHANGED vars
  <2>1. \A q \in Proc : SamePlace(q)
    BY <1>2 DEF vars, SamePlace, Locking, Asking, Transfer
  <2>2. Quiet
    BY <1>2, <2>1 DEF vars, Quiet, IInv, OwnInv, ProcsOK
  <2> QED BY <2>2, QuietStep
<1> QED BY <1>1, <1>2

\* The inductive invariant holds in every reachable state.
LEMMA Always == Spec => []IInv
<1>1. Init => IInv
  BY InitInv
<1>2. IInv /\ [Next]_vars => IInv'
  BY StepInv
<1> QED BY <1>1, <1>2, PTL DEF Spec

\* What a process has is what was last written to the block it asked for, and it has it alone.
LEMMA CoherentFollows ==
  ASSUME IInv
  PROVE  Coherent
<1> SUFFICES ASSUME NEW p \in Proc, pc[p] = "have"
             PROVE  /\ blockno[cur[p]] = want[p]
                    /\ Cached(want[p]) = {cur[p]}
                    /\ data[cur[p]]
                    /\ \A q \in Proc \ {p} : pc[q] = "have" => cur[q] # cur[p]
  BY DEF Coherent
<1>1. cur[p] \in Buf /\ blockno[cur[p]] = want[p] /\ want[p] \in Block /\ want[p] # None
  BY ConstAssumption DEF IInv, ProcsOK, CacheInv
<1>2. Cached(want[p]) = {cur[p]}
  BY <1>1 DEF Cached, IInv, CacheInv
<1>3. data[cur[p]]
  BY <1>1 DEF IInv, DataInv
<1>4. ASSUME NEW q \in Proc \ {p}, pc[q] = "have" PROVE cur[q] # cur[p]
  BY <1>4, OneHolder DEF Holding, IInv
<1> QED BY <1>1, <1>2, <1>3, <1>4

\* Who waits for a transfer has a request that is with the device, or reported, or done.
LEMMA NoLostCompletionFollows ==
  ASSUME IInv
  PROVE  NoLostCompletion
<1>1. ASSUME NEW p \in Proc, pc[p] \in {"ioSleep", "io"}
      PROVE  \/ ~own[cur[p]] /\ pc[p] = "io"
             \/ own[cur[p]] /\ HeadOf(cur[p]) \in ToSet(avail) \cup taken \cup ToSet(used)
  <2>1. CASE own[cur[p]]
    <3>1. Transfer(p)
      BY <1>1 DEF Transfer
    <3>2. HeadOf(cur[p]) \in Heads /\ info[HeadOf(cur[p])].b = cur[p]
      BY <3>1, MyHead DEF IInv
    <3>3. HeadOf(cur[p]) \in InFlight
      BY <2>1, <3>2 DEF IInv, OwnInv
    <3> QED BY <2>1, <3>3 DEF InFlight, Coming
  <2>2. CASE ~own[cur[p]]
    BY <1>1, <2>2 DEF IInv, OwnInv
  <2> QED BY <2>1, <2>2
<1>2. used # <<>> => irq \/ intr = "loop"
  BY DEF IInv, RingInv
<1> QED BY <1>1, <1>2 DEF NoLostCompletion

\* Counts, owners, places and rings keep their types: no reference count goes below zero
\* (bio.c:114-131), no ring entry is no descriptor.
THEOREM TypeCorrect == Spec => []TypeOK
<1>1. IInv => TypeOK
  BY DEF IInv, TypeOK
<1> QED BY <1>1, Always, PTL

\* Whoever holds a buffer holds it alone, it is the only one of its block, and its data is what was
\* last written to the block, with any number of buffers, processes and blocks (bio.c:58-102).
THEOREM BuffersCoherent == Spec => []Coherent
<1>1. IInv => Coherent
  BY CoherentFollows
<1> QED BY <1>1, Always, PTL

\* Every descriptor is free or in the chain of one request, and nobody sleeps for descriptors that
\* are there (virtio_disk.c:155-205).
THEOREM DescriptorsNeverLost == Spec => []DescriptorsAccounted
<1>1. IInv => DescriptorsAccounted
  BY DEF IInv
<1> QED BY <1>1, Always, PTL

\* No completion is missed: who sleeps for a transfer has a request that the device or the used ring
\* has, and a used ring with entries has an interrupt coming or a handler at work
\* (virtio_disk.c:301-327).
THEOREM CompletionsNeverLost == Spec => []NoLostCompletion
<1>1. IInv => NoLostCompletion
  BY NoLostCompletionFollows
<1> QED BY <1>1, Always, PTL
=============================================================================
