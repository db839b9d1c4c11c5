----------------------------- MODULE PipeProofs -----------------------------
(* Proofs about Pipe for any number of processes and descriptors, any size of the ring and any width *)
(* of its counters that is a multiple of that size.                                                  *)
EXTENDS Pipe, Integers, FiniteSetTheorems, TLAPS

Uint == 0..UintSize - 1

CloserPc(e) == {Closing[e], ExitClosing[e]}
ReadPc == {"read", "read sleep"}
WritePc == {"write wake", "write", "write sleep"}
State == {"unused", "run", "exit"} \cup ReadPc \cup WritePc
           \cup CloserPc("read") \cup CloserPc("write")

TypeInv ==
  /\ fds \in [Proc -> [End -> 0..NOFILE]] /\ ref \in [End -> Nat]
  /\ open \in [End -> BOOLEAN] /\ freed \in BOOLEAN
  /\ nread \in Uint /\ nwrite \in Uint /\ data \in [0..PIPESIZE - 1 -> Uint]
  /\ lock \in Proc \cup {None} /\ pc \in [Proc -> State]
  /\ todo \in [Proc -> Nat] /\ killed \in [Proc -> BOOLEAN]

\* The descriptors for an end, numbered within each process.
Fds(e) == {d \in Proc \X (1..NOFILE) : d[2] <= fds[d[1]][e]}

\* The references of an end are counted.
RefInv == /\ \A e \in End : ref[e] = Cardinality(Fds(e))
          /\ \A p \in Proc : pc[p] = "unused" => fds[p] = NoFds

\* Who is in a call has a descriptor for its end, or has just given up the last one.
CallInv ==
  \A p \in Proc : /\ pc[p] \in ReadPc => fds[p]["read"] > 0
                  /\ pc[p] \in WritePc => fds[p]["write"] > 0

\* An end is open from pipealloc() until the one process that gave up its last reference closes it.
OpenInv ==
  /\ \A e \in End : open[e] <=> ref[e] > 0 \/ \E p \in Proc : pc[p] \in CloserPc(e)
  /\ \A e \in End, p \in Proc : pc[p] \in CloserPc(e) =>
       ref[e] = 0 /\ \A q \in Proc : pc[q] \in CloserPc(e) => q = p
  /\ freed <=> \A e \in End : ~open[e]

\* The ring holds at most PIPESIZE bytes.
RingInv == Available <= PIPESIZE /\ RingOrder

\* pipewrite() holds the lock in its loop, and nobody else does from one step to the next.
LockInv == \A p \in Proc : pc[p] = "write" <=> lock = p

IInv == TypeInv /\ RefInv /\ CallInv /\ OpenInv /\ RingInv /\ LockInv

\* A reader sleeps at a pipe that is not empty only while the writer that filled it has the lock, and
\* that writer goes on until it wakes the reader.
SleepInv ==
  \A p \in Proc :
    /\ pc[p] = "read sleep" =>
         open["write"] /\ (Empty \/ (lock # None /\ ~killed[lock] /\ open["read"]))
    /\ pc[p] = "write sleep" => Full /\ open["read"]
----------------------------------------------------------------------------
(* Arithmetic of uints *)

Sizes == /\ PIPESIZE \in Nat /\ PIPESIZE > 0 /\ UintSize \in Nat
         /\ UintSize > PIPESIZE /\ UintSize % PIPESIZE = 0

\* The sizes the constants stand for.
LEMMA CodeSizes == Sizes
BY ConstAssumption DEF Sizes

\* Quotient and remainder.
LEMMA DivMod ==
  ASSUME NEW m \in Nat, m > 0, NEW x \in Int
  PROVE  x \div m \in Int /\ x % m \in 0..m - 1 /\ x = m * (x \div m) + (x % m)
OBVIOUS

\* No multiple of m lies strictly between 0 and m.
LEMMA NoMultiple ==
  ASSUME NEW m \in Nat, m > 0, NEW d \in Int
  PROVE  m * d \notin 1..m - 1
<1>1. CASE d >= 1
  <2>1. m * d >= m
    BY <1>1
  <2> QED BY <2>1
<1>2. CASE d <= 0
  <2>1. m * d <= 0
    BY <1>2
  <2> QED BY <2>1
<1> QED BY <1>1, <1>2

\* Numbers less than m apart, up to a multiple of m, differ modulo m.
LEMMA ModDiffer ==
  ASSUME NEW m \in Nat, m > 0, NEW x \in Int, NEW y \in Int, NEW u \in Int, u % m = 0,
         x - y \in 1..m - 1 \/ x - y + u \in 1..m - 1
  PROVE  x % m # y % m
<1> SUFFICES ASSUME x % m = y % m PROVE FALSE
  OBVIOUS
<1> DEFINE a == x \div m
           b == y \div m
           c == u \div m
           s == x % m
<1>1. /\ a \in Int /\ b \in Int /\ c \in Int /\ s \in Int
      /\ x = m * a + s /\ y = m * b + s /\ u = m * c
  <2>1. x \div m \in Int /\ x % m \in Int /\ x = m * (x \div m) + (x % m)
    BY DivMod
  <2>2. y \div m \in Int /\ y = m * (y \div m) + (x % m)
    BY DivMod
  <2>3. u \div m \in Int /\ u = m * (u \div m) + 0
    BY DivMod
  <2> QED BY <2>1, <2>2, <2>3
<1> HIDE DEF a, b, c, s
<1>2. /\ m * (a - b) = m * a - m * b
      /\ m * (a - b + c) = m * a - m * b + m * c
  BY <1>1
<1>3. x - y = m * (a - b) /\ x - y + u = m * (a - b + c)
  BY <1>1, <1>2
<1>4. a - b \in Int /\ a - b + c \in Int
  BY <1>1
<1> QED BY <1>3, <1>4, NoMultiple

\* Wrapping once.
LEMMA Wraps ==
  ASSUME NEW m \in Nat, m > 0, NEW x \in Nat, x < 2 * m
  PROVE  x % m = IF x < m THEN x ELSE x - m
<1>1. CASE x \in 0..m - 1
  BY <1>1
<1>2. CASE x \in m..2 * m - 1
  BY <1>2
<1> QED BY <1>1, <1>2

\* How many bytes lie between two counters.
Between(a, b) == IF a <= b THEN b - a ELSE b - a + UintSize

\* The counter k bytes on.
Plus(a, k) == IF a + k < UintSize THEN a + k ELSE (a + k) - UintSize

\* The distance of two counters that wrap.
LEMMA BetweenIs ==
  ASSUME Sizes, NEW a \in Uint, NEW b \in Uint
  PROVE  /\ (b + UintSize - a) % UintSize = Between(a, b)
         /\ Between(a, b) \in Uint
         /\ Between(a, b) = 0 <=> a = b
         /\ \A k \in 0..UintSize - 1 :
              /\ (a + k) % UintSize \in Uint
              /\ (a + k) % UintSize = Plus(a, k)
              /\ b = (a + k) % UintSize <=> Between(a, b) = k
<1>1. UintSize \in Nat /\ UintSize > 0 /\ a \in 0..UintSize - 1 /\ b \in 0..UintSize - 1
  BY DEF Sizes, Uint
<1>2. /\ b + UintSize - a \in Nat /\ b + UintSize - a < 2 * UintSize
      /\ Between(a, b) \in 0..UintSize - 1
      /\ Between(a, b) = IF b + UintSize - a < UintSize THEN b + UintSize - a ELSE b - a
      /\ Between(a, b) = 0 <=> a = b
  BY <1>1 DEF Between
<1>3. (b + UintSize - a) % UintSize = Between(a, b)
  <2> DEFINE x == b + UintSize - a
  <2>1. x % UintSize = IF x < UintSize THEN x ELSE x - UintSize
    <3> HIDE DEF x
    <3> QED BY <1>1, <1>2, Wraps DEF x
  <2> QED BY <1>1, <1>2, <2>1
<1>4. ASSUME NEW k \in 0..UintSize - 1
      PROVE  (a + k) % UintSize = Plus(a, k)
  <2> DEFINE x == a + k
  <2>1. x \in Nat /\ x < 2 * UintSize
    BY <1>1
  <2>2. x % UintSize = IF x < UintSize THEN x ELSE x - UintSize
    <3> HIDE DEF x
    <3> QED BY <1>1, <2>1, Wraps
  <2> QED BY <2>2 DEF Plus
<1>5. ASSUME NEW k \in 0..UintSize - 1
      PROVE  (a + k) % UintSize \in Uint /\ (b = (a + k) % UintSize <=> Between(a, b) = k)
  <2> DEFINE y == (a + k) % UintSize
  <2>1. y = Plus(a, k)
    BY <1>4
  <2> HIDE DEF y
  <2>2. y \in Uint /\ (b = y <=> Between(a, b) = k)
    BY <1>1, <2>1 DEF Between, Plus, Uint
  <2> QED BY <2>2 DEF y
<1> QED BY <1>2, <1>3, <1>4, <1>5 DEF Uint

----------------------------------------------------------------------------
(* The ring *)

\* What a step may do to the ring: nothing, empty it, take some bytes, or append one.
Empties == nread' = 0 /\ nwrite' = 0
Takes == \E k \in 0..Available : nread' = (nread + k) % UintSize /\ UNCHANGED <<nwrite, data>>
Appends == /\ ~Full
           /\ data' = [data EXCEPT ![nwrite % PIPESIZE] = nwrite]
           /\ nwrite' = (nwrite + 1) % UintSize
           /\ UNCHANGED nread
RingStep == UNCHANGED <<nread, nwrite, data>> \/ Empties \/ Takes \/ Appends

\* Available, Empty and Full in terms of the counters.
LEMMA AvailableIs ==
  ASSUME TypeInv
  PROVE  /\ Available = Between(nread, nwrite) /\ Available \in Uint
         /\ Empty <=> Available = 0
         /\ Full <=> Available = PIPESIZE
<1>1. nread \in Uint /\ nwrite \in Uint /\ Sizes /\ PIPESIZE \in 0..UintSize - 1
  BY CodeSizes DEF TypeInv, Sizes
<1> QED BY <1>1, BetweenIs DEF Available, Empty, Full

\* The ring keeps the bytes in order.
LEMMA RingKept ==
  ASSUME TypeInv, TypeInv', RingInv, RingStep
  PROVE  RingInv'
<1> USE DEF RingInv, RingOrder
<1>a. /\ Sizes /\ nread \in Uint /\ nwrite \in Uint /\ nread' \in Uint /\ nwrite' \in Uint
      /\ UintSize \in Nat /\ PIPESIZE \in Nat /\ PIPESIZE > 0 /\ UintSize > PIPESIZE
      /\ data \in [0..PIPESIZE - 1 -> Uint]
  BY CodeSizes DEF TypeInv, Sizes
<1>b. Available = Between(nread, nwrite) /\ Available \in 0..PIPESIZE /\ (Full <=> Available = PIPESIZE)
  BY <1>a, AvailableIs DEF Uint
<1>c. Available' = Between(nread', nwrite')
  BY <1>a, BetweenIs DEF Available
<1>1. CASE UNCHANGED <<nread, nwrite, data>>
  BY <1>1 DEF Available
<1>2. CASE Empties
  <2>1. Available' = 0
    BY <1>2, <1>c, <1>a DEF Empties, Between
  <2> QED BY <2>1, <1>a
<1>3. CASE Takes
  <2>1. PICK k \in 0..Available : nread' = (nread + k) % UintSize /\ UNCHANGED <<nwrite, data>>
    BY <1>3 DEF Takes
  <2>2. k \in 0..UintSize - 1 /\ k \in Nat
    BY <1>a, <1>b
  <2>3. nread' = Plus(nread, k)
    BY <1>a, <2>1, <2>2, BetweenIs
  <2>4. Available' = Available - k
    <3>1. nread \in Int /\ nwrite \in Int /\ UintSize \in Int /\ Available \in Int /\ nwrite' = nwrite
      BY <1>a, <1>b, <2>1 DEF Uint
    <3>2. nwrite < UintSize /\ nread < UintSize /\ 0 <= nread /\ 0 <= nwrite /\ 0 <= k /\ k <= Available
      BY <1>a, <2>1, <2>2 DEF Uint
    <3> QED BY <1>b, <1>c, <2>2, <2>3, <3>1, <3>2 DEF Between, Plus
  <2>5. ASSUME NEW i \in 0..PIPESIZE - 1, i < Available - k
        PROVE  /\ (nread' + i) % UintSize = (nread + (k + i)) % UintSize
               /\ k + i \in 0..PIPESIZE - 1 /\ k + i < Available
    <3>1. i \in 0..UintSize - 1 /\ k + i \in 0..UintSize - 1 /\ k + i \in 0..PIPESIZE - 1 /\ k + i < Available
      BY <1>a, <1>b, <2>2, <2>5
    <3>2. (nread' + i) % UintSize = Plus(nread', i)
      BY <1>a, <3>1, BetweenIs
    <3>3. (nread + (k + i)) % UintSize = Plus(nread, k + i)
      BY <1>a, <3>1, BetweenIs
    <3>4. nread + k + i < 2 * UintSize
      BY <1>a, <3>1, <2>2 DEF Uint
    <3> QED BY <1>a, <2>2, <2>3, <3>1, <3>2, <3>3, <3>4 DEF Uint, Plus
  <2>6. data' = data
    BY <2>1
  <2>7. ASSUME NEW i \in 0..PIPESIZE - 1, i < Available'
        PROVE  data'[((nread' + i) % UintSize) % PIPESIZE] = (nread' + i) % UintSize
    <3>1. i < Available - k
      BY <2>4, <2>7
    <3>2. data[((nread + (k + i)) % UintSize) % PIPESIZE] = (nread + (k + i)) % UintSize
      BY <2>5, <3>1
    <3> QED BY <2>5, <2>6, <3>1, <3>2
  <2>8. Available' <= PIPESIZE
    BY <1>a, <1>b, <2>2, <2>4
  <2> QED BY <2>7, <2>8
<1>4. CASE Appends
  <2>1. /\ Available < PIPESIZE /\ nread' = nread /\ nwrite' = (nwrite + 1) % UintSize
        /\ data' = [data EXCEPT ![nwrite % PIPESIZE] = nwrite]
    BY <1>4, <1>a, <1>b DEF Appends
  <2>2. 1 \in 0..UintSize - 1
    BY <1>a
  <2>3. nwrite' = Plus(nwrite, 1)
    BY <1>a, <2>1, <2>2, BetweenIs
  <2>4. Available' = Available + 1
    <3>1. nread \in Int /\ nwrite \in Int /\ UintSize \in Int /\ Available \in Int /\ nread' = nread
      BY <1>a, <1>b, <2>1 DEF Uint
    <3>2. /\ nwrite < UintSize /\ nread < UintSize /\ 0 <= nread /\ 0 <= nwrite
          /\ Available < PIPESIZE /\ PIPESIZE < UintSize /\ PIPESIZE \in Int
      BY <1>a, <2>1 DEF Uint
    <3> QED BY <1>b, <1>c, <2>3, <3>1, <3>2 DEF Between, Plus
  <2>5. ASSUME NEW i \in 0..PIPESIZE - 1, i < Available'
        PROVE  data'[((nread' + i) % UintSize) % PIPESIZE] = (nread' + i) % UintSize
    <3> DEFINE c == (nread + i) % UintSize
    <3>1. i \in 0..UintSize - 1 /\ i \in Nat
      BY <1>a
    <3>2. c \in Uint /\ (nwrite = c <=> Between(nread, nwrite) = i)
      BY <1>a, <3>1, BetweenIs
    <3>3. c = Plus(nread, i)
      BY <1>a, <3>1, BetweenIs
    <3> HIDE DEF c
    <3>4. c \in Int /\ nwrite \in Int /\ c % PIPESIZE \in 0..PIPESIZE - 1 /\ nwrite % PIPESIZE \in 0..PIPESIZE - 1
      BY <1>a, <3>2, DivMod DEF Uint
    <3>5. CASE i = Available
      <4>1. nwrite = c
        BY <1>b, <3>2, <3>5
      <4> QED BY <1>a, <2>1, <3>4, <4>1 DEF c
    <3>6. CASE i < Available
      <4>1. nwrite - c \in 1..PIPESIZE - 1 \/ nwrite - c + UintSize \in 1..PIPESIZE - 1
        BY <1>a, <1>b, <2>1, <3>1, <3>3, <3>6 DEF Between, Plus, Uint
      <4>2. nwrite % PIPESIZE # c % PIPESIZE
        BY <1>a, <3>4, <4>1, ModDiffer DEF Sizes
      <4>3. data[c % PIPESIZE] = c
        BY <3>6 DEF c
      <4>4. data'[c % PIPESIZE] = c
        BY <1>a, <2>1, <3>4, <4>2, <4>3
      <4> QED BY <2>1, <4>4 DEF c
    <3> QED BY <1>a, <1>b, <2>4, <2>5, <3>1, <3>5, <3>6
  <2>6. Available' <= PIPESIZE
    BY <1>a, <1>b, <2>1, <2>4
  <2> QED BY <2>5, <2>6
<1> QED BY <1>1, <1>2, <1>3, <1>4 DEF RingStep

----------------------------------------------------------------------------
(* References *)

\* Descriptors can be counted.
LEMMA FdsFacts ==
  ASSUME TypeInv, NEW e \in End
  PROVE  /\ IsFiniteSet(Fds(e)) /\ Cardinality(Fds(e)) \in Nat
         /\ Cardinality(Fds(e)) = 0 <=> \A p \in Proc : fds[p][e] = 0
<1>1. NOFILE \in Nat /\ NOFILE > 0 /\ fds \in [Proc -> [End -> 0..NOFILE]]
  BY ConstAssumption DEF TypeInv
<1>2. IsFiniteSet(1..NOFILE)
  BY <1>1, FS_Interval
<1>3. IsFiniteSet(Proc \X (1..NOFILE))
  BY <1>2, ConstAssumption, FS_Product
<1>4. IsFiniteSet(Fds(e))
  BY <1>3, FS_Subset DEF Fds
<1>5. Fds(e) = {} <=> \A p \in Proc : fds[p][e] = 0
  <2>1. ASSUME NEW p \in Proc, fds[p][e] # 0 PROVE Fds(e) # {}
    <3>1. fds[p][e] \in 0..NOFILE
      BY <1>1
    <3>2. <<p, 1>> \in Proc \X (1..NOFILE) /\ 1 <= fds[p][e]
      BY <1>1, <2>1, <3>1
    <3>3. <<p, 1>> \in Fds(e)
      BY <3>2 DEF Fds
    <3> QED BY <3>3
  <2>2. ASSUME \A p \in Proc : fds[p][e] = 0, NEW d \in Fds(e) PROVE FALSE
    <3>1. d[1] \in Proc /\ d[2] \in 1..NOFILE /\ d[2] <= fds[d[1]][e]
      BY DEF Fds
    <3> QED BY <2>2, <3>1
  <2> QED BY <2>1, <2>2
<1>6. Cardinality(Fds(e)) = 0 <=> Fds(e) = {}
  BY <1>4, FS_EmptySet
<1> QED BY <1>4, <1>5, <1>6, FS_CardinalityType

\* An end has a reference exactly when some process has a descriptor for it.
LEMMA RefFacts ==
  ASSUME TypeInv, RefInv, NEW e \in End
  PROVE  /\ ref[e] \in Nat
         /\ ref[e] > 0 <=> \E p \in Proc : fds[p][e] > 0
<1>1. ref[e] = Cardinality(Fds(e)) /\ fds \in [Proc -> [End -> 0..NOFILE]]
  BY DEF RefInv, TypeInv
<1>2. \A p \in Proc : fds[p][e] \in Nat
  BY <1>1
<1> QED BY <1>1, <1>2, FdsFacts

\* One more descriptor.
LEMMA FdsMore ==
  ASSUME TypeInv, RefInv, NEW e \in End, NEW p \in Proc, fds[p][e] < NOFILE,
         fds'[p][e] = fds[p][e] + 1, \A q \in Proc \ {p} : fds'[q][e] = fds[q][e]
  PROVE  Cardinality(Fds(e)') = ref[e] + 1
<1> DEFINE n == fds[p][e] + 1
<1>1. NOFILE \in Nat /\ fds[p][e] \in 0..NOFILE /\ \A q \in Proc : fds[q][e] \in 0..NOFILE
  BY ConstAssumption DEF TypeInv
<1>2. n \in 1..NOFILE
  BY <1>1
<1>3. <<p, n>> \notin Fds(e)
  BY <1>1 DEF Fds
<1>4. ASSUME NEW q \in Proc, NEW k \in 1..NOFILE
      PROVE  k <= fds'[q][e] <=> k <= fds[q][e] \/ <<q, k>> = <<p, n>>
  <2>1. CASE q = p
    BY <1>1, <2>1
  <2>2. CASE q # p
    BY <2>2
  <2> QED BY <2>1, <2>2
<1>5. Fds(e)' = Fds(e) \cup {<<p, n>>}
  <2>1. Fds(e)' = {d \in Proc \X (1..NOFILE) : d[2] <= fds'[d[1]][e]}
    BY DEF Fds
  <2>2. <<p, n>> \in Proc \X (1..NOFILE)
    BY <1>2
  <2> HIDE DEF n
  <2>3. ASSUME NEW d \in Proc \X (1..NOFILE)
        PROVE  d[2] <= fds'[d[1]][e] <=> d \in Fds(e) \/ d = <<p, n>>
    <3>1. PICK q \in Proc, k \in 1..NOFILE : d = <<q, k>>
      OBVIOUS
    <3> QED BY <1>4, <3>1 DEF Fds
  <2>4. Fds(e) \subseteq Proc \X (1..NOFILE)
    BY DEF Fds
  <2> QED BY <2>1, <2>2, <2>3, <2>4
<1>6. ref[e] = Cardinality(Fds(e)) /\ IsFiniteSet(Fds(e))
  BY FdsFacts DEF RefInv
<1> HIDE DEF n
<1> QED BY <1>3, <1>5, <1>6, FS_AddElement

\* One less.
LEMMA FdsLess ==
  ASSUME TypeInv, RefInv, NEW e \in End, NEW p \in Proc, fds[p][e] > 0,
         fds'[p][e] = fds[p][e] - 1, \A q \in Proc \ {p} : fds'[q][e] = fds[q][e]
  PROVE  Cardinality(Fds(e)') = ref[e] - 1
<1> DEFINE n == fds[p][e]
<1>1. NOFILE \in Nat /\ n \in 1..NOFILE /\ \A q \in Proc : fds[q][e] \in 0..NOFILE
  BY ConstAssumption DEF TypeInv
<1>2. <<p, n>> \in Fds(e)
  BY <1>1 DEF Fds
<1>3. ASSUME NEW q \in Proc, NEW k \in 1..NOFILE
      PROVE  k <= fds'[q][e] <=> k <= fds[q][e] /\ <<q, k>> # <<p, n>>
  <2>1. CASE q = p
    BY <1>1, <2>1
  <2>2. CASE q # p
    BY <2>2
  <2> QED BY <2>1, <2>2
<1>4. Fds(e)' = Fds(e) \ {<<p, n>>}
  <2>1. Fds(e)' = {d \in Proc \X (1..NOFILE) : d[2] <= fds'[d[1]][e]}
    BY DEF Fds
  <2> HIDE DEF n
  <2>3. ASSUME NEW d \in Proc \X (1..NOFILE)
        PROVE  d[2] <= fds'[d[1]][e] <=> d \in Fds(e) /\ d # <<p, n>>
    <3>1. PICK q \in Proc, k \in 1..NOFILE : d = <<q, k>>
      OBVIOUS
    <3> QED BY <1>3, <3>1 DEF Fds
  <2>4. Fds(e) \subseteq Proc \X (1..NOFILE)
    BY DEF Fds
  <2> QED BY <2>1, <2>3, <2>4
<1>5. ref[e] = Cardinality(Fds(e)) /\ IsFiniteSet(Fds(e))
  BY FdsFacts DEF RefInv
<1> HIDE DEF n
<1> QED BY <1>2, <1>4, <1>5, FS_RemoveElement

\* A process without descriptors gets those of another.
LEMMA FdsCopied ==
  ASSUME TypeInv, RefInv, NEW e \in End, NEW p \in Proc, NEW q \in Proc, fds[q][e] = 0,
         fds'[q][e] = fds[p][e], \A r \in Proc \ {q} : fds'[r][e] = fds[r][e]
  PROVE  Cardinality(Fds(e)') = ref[e] + fds[p][e]
<1> DEFINE n == fds[p][e]
           C == {q} \X (1..n)
<1>1. NOFILE \in Nat /\ n \in 0..NOFILE /\ \A r \in Proc : fds[r][e] \in 0..NOFILE
  BY ConstAssumption DEF TypeInv
<1> HIDE DEF n
<1>2. IsFiniteSet(C) /\ Cardinality(C) = n
  <2>1. IsFiniteSet(1..n) /\ Cardinality(1..n) = n
    <3>1. n \in Int /\ 1 \in Int /\ n >= 0
      BY <1>1
    <3>2. IsFiniteSet(1..n) /\ Cardinality(1..n) = IF 1 > n THEN 0 ELSE n - 1 + 1
      BY <3>1, FS_Interval
    <3> QED BY <3>1, <3>2
  <2>2. IsFiniteSet({q}) /\ Cardinality({q}) = 1
    BY FS_Singleton
  <2>3. IsFiniteSet(C) /\ Cardinality(C) = Cardinality({q}) * Cardinality(1..n)
    BY <2>1, <2>2, FS_Product
  <2> QED BY <1>1, <2>1, <2>2, <2>3
<1>3. Fds(e) \cap C = {}
  <2>1. ASSUME NEW d \in Fds(e) \cap C PROVE FALSE
    <3>1. d[1] = q /\ d[2] \in 1..n /\ d[2] <= fds[d[1]][e]
      BY DEF Fds
    <3> QED BY <1>1, <3>1
  <2> QED BY <2>1
<1>4. Fds(e)' = Fds(e) \cup C
  <2>1. Fds(e)' = {d \in Proc \X (1..NOFILE) : d[2] <= fds'[d[1]][e]}
    BY DEF Fds
  <2>2. C \subseteq Proc \X (1..NOFILE)
    BY <1>1
  <2>3. ASSUME NEW d \in Proc \X (1..NOFILE)
        PROVE  d[2] <= fds'[d[1]][e] <=> d \in Fds(e) \/ d \in C
    <3>1. PICK r \in Proc, k \in 1..NOFILE : d = <<r, k>>
      OBVIOUS
    <3>2. d \in Fds(e) <=> k <= fds[r][e]
      BY <3>1 DEF Fds
    <3>3. d \in C <=> r = q /\ k <= n
      BY <1>1, <3>1
    <3>4. k <= fds'[r][e] <=> (k <= fds[r][e] \/ (r = q /\ k <= n))
      <4>1. CASE r = q
        <5>1. ~(k <= 0)
          OBVIOUS
        <5> QED BY <4>1, <5>1 DEF n
      <4>2. CASE r # q
        BY <4>2
      <4> QED BY <4>1, <4>2
    <3> QED BY <3>1, <3>2, <3>3, <3>4
  <2>4. Fds(e) \subseteq Proc \X (1..NOFILE)
    BY DEF Fds
  <2> HIDE DEF C
  <2> QED BY <2>1, <2>2, <2>3, <2>4
<1>5. ref[e] = Cardinality(Fds(e)) /\ IsFiniteSet(Fds(e)) /\ ref[e] \in Nat
  BY FdsFacts DEF RefInv, TypeInv
<1> HIDE DEF C
<1>6. Cardinality(Fds(e) \cup C) = Cardinality(Fds(e)) + Cardinality(C) - Cardinality(Fds(e) \cap C)
  BY <1>2, <1>5, FS_Union
<1>7. Cardinality(Fds(e) \cap C) = 0
  BY <1>3, FS_EmptySet
<1> QED BY <1>1, <1>2, <1>4, <1>5, <1>6, <1>7 DEF n

\* Descriptors that no step touches.
LEMMA SameFds ==
  ASSUME NEW e \in End, \A p \in Proc : fds'[p][e] = fds[p][e]
  PROVE  Fds(e)' = Fds(e)
BY DEF Fds

\* States of a process outside pipeclose().
OpenPc == {"unused", "run", "exit"} \cup ReadPc \cup WritePc

\* Where a process is in pipeclose().
LEMMA Closers ==
  /\ CloserPc("read") = {"close read", "exit read"} /\ CloserPc("write") = {"close write", "exit write"}
  /\ \A e \in End : OpenPc \cap CloserPc(e) = {}
  /\ \A s \in State : s \in OpenPc \/ \E e \in End : s \in CloserPc(e)
  /\ \A e \in End, f \in End : e # f => CloserPc(e) \cap CloserPc(f) = {}
BY DEF CloserPc, Closing, ExitClosing, OpenPc, ReadPc, WritePc, End, State

\* A process moves outside pipeclose(), and wakes others or not.
LEMMA ClosersKept ==
  ASSUME TypeInv, NEW p \in Proc, pc[p] \in OpenPc, NEW s \in OpenPc,
         \/ pc' = [pc EXCEPT ![p] = s]
         \/ pc' = Woken([pc EXCEPT ![p] = s], "read sleep", "read")
         \/ pc' = Woken([pc EXCEPT ![p] = s], "write sleep", "write wake")
  PROVE  \A e \in End, q \in Proc : pc'[q] \in CloserPc(e) <=> pc[q] \in CloserPc(e)
<1>1. pc \in [Proc -> State]
  BY DEF TypeInv
<1>2. ASSUME NEW q \in Proc, q # p
      PROVE  pc'[q] = pc[q] \/ (pc[q] \in OpenPc /\ pc'[q] \in OpenPc)
  BY <1>1, <1>2 DEF Woken, OpenPc, ReadPc, WritePc
<1>3. pc'[p] \in OpenPc
  BY <1>1 DEF Woken, OpenPc, ReadPc, WritePc
<1> QED BY <1>2, <1>3, Closers

\* fileclose() up to pipeclose().
LEMMA CloseFileIs ==
  ASSUME TypeInv, RefInv, NEW p \in Proc, NEW e \in End, NEW more \in {Closing, ExitClosing},
         CloseFile(p, e, more), pc[p] \in {"run", "exit"}
  PROVE  /\ fds[p][e] > 0 /\ fds'[p][e] = fds[p][e] - 1 /\ fds' \in [Proc -> [End -> 0..NOFILE]]
         /\ \A q \in Proc \ {p} : fds'[q] = fds[q]
         /\ \A f \in End \ {e} : fds'[p][f] = fds[p][f] /\ ref'[f] = ref[f]
         /\ ref[e] > 0 /\ ref'[e] = ref[e] - 1 /\ ref' \in [End -> Nat]
         /\ pc' \in [Proc -> State] /\ \A q \in Proc \ {p} : pc'[q] = pc[q]
         /\ pc'[p] = (IF ref[e] = 1 THEN more[e] ELSE pc[p]) /\ more[e] \in CloserPc(e)
<1>1. /\ fds \in [Proc -> [End -> 0..NOFILE]] /\ ref \in [End -> Nat] /\ pc \in [Proc -> State]
      /\ NOFILE \in Nat
  BY ConstAssumption DEF TypeInv
<1>2. fds[p][e] > 0 /\ fds[p][e] \in 0..NOFILE
  BY <1>1 DEF CloseFile
<1>3. ref[e] > 0
  BY <1>2, RefFacts
<1>4. fds[p][e] - 1 \in 0..NOFILE /\ ref[e] - 1 \in Nat
  BY <1>1, <1>2, <1>3
<1>5. /\ fds' = [fds EXCEPT ![p][e] = fds[p][e] - 1] /\ ref' = [ref EXCEPT ![e] = ref[e] - 1]
      /\ pc' = [pc EXCEPT ![p] = IF ref[e] = 1 THEN more[e] ELSE pc[p]]
  BY DEF CloseFile, Goto
<1>6. more[e] \in CloserPc(e) /\ more[e] \in State
  BY DEF CloserPc, Closing, ExitClosing, End, State
<1>7. /\ fds'[p][e] = fds[p][e] - 1 /\ fds' \in [Proc -> [End -> 0..NOFILE]]
      /\ \A q \in Proc \ {p} : fds'[q] = fds[q]
      /\ \A f \in End \ {e} : fds'[p][f] = fds[p][f]
  BY <1>1, <1>4, <1>5
<1>8. ref'[e] = ref[e] - 1 /\ ref' \in [End -> Nat] /\ \A f \in End \ {e} : ref'[f] = ref[f]
  BY <1>1, <1>4, <1>5
<1>9. /\ pc' \in [Proc -> State] /\ \A q \in Proc \ {p} : pc'[q] = pc[q]
      /\ pc'[p] = (IF ref[e] = 1 THEN more[e] ELSE pc[p])
  BY <1>1, <1>5, <1>6
<1> QED BY <1>2, <1>3, <1>6, <1>7, <1>8, <1>9

\* fork() and dup().
LEMMA DupIs ==
  ASSUME TypeInv, NEW p \in Proc, NEW e \in End, Dup(p, e)
  PROVE  /\ fds[p][e] > 0 /\ fds[p][e] < NOFILE /\ fds'[p][e] = fds[p][e] + 1
         /\ fds' \in [Proc -> [End -> 0..NOFILE]]
         /\ \A q \in Proc \ {p} : fds'[q] = fds[q]
         /\ \A f \in End \ {e} : fds'[p][f] = fds[p][f] /\ ref'[f] = ref[f]
         /\ ref'[e] = ref[e] + 1 /\ ref' \in [End -> Nat]
<1>1. /\ fds \in [Proc -> [End -> 0..NOFILE]] /\ ref \in [End -> Nat] /\ NOFILE \in Nat
  BY ConstAssumption DEF TypeInv
<1>2. fds[p][e] \in 1..NOFILE - 1
  BY DEF Dup
<1>3. fds[p][e] + 1 \in 0..NOFILE /\ ref[e] + 1 \in Nat /\ fds[p][e] > 0 /\ fds[p][e] < NOFILE
  BY <1>1, <1>2
<1>4. fds' = [fds EXCEPT ![p][e] = fds[p][e] + 1] /\ ref' = [ref EXCEPT ![e] = ref[e] + 1]
  BY DEF Dup
<1>5. /\ fds'[p][e] = fds[p][e] + 1 /\ fds' \in [Proc -> [End -> 0..NOFILE]]
      /\ \A q \in Proc \ {p} : fds'[q] = fds[q]
      /\ \A f \in End \ {e} : fds'[p][f] = fds[p][f]
  BY <1>1, <1>3, <1>4
<1>6. ref'[e] = ref[e] + 1 /\ ref' \in [End -> Nat] /\ \A f \in End \ {e} : ref'[f] = ref[f]
  BY <1>1, <1>3, <1>4
<1> QED BY <1>3, <1>5, <1>6

----------------------------------------------------------------------------
(* Steps *)

\* Types.
LEMMA TypeStep ==
  ASSUME IInv, [Next]_vars
  PROVE  TypeInv'
<1>1. ASSUME NEW p \in Proc, PipeAlloc(p) PROVE TypeInv'
  <2>1. fds \in [Proc -> [End -> 0..NOFILE]] /\ 1 \in 0..NOFILE /\ 0 \in Uint
    BY ConstAssumption DEF IInv, TypeInv, Uint
  <2>2. /\ fds' = [fds EXCEPT ![p] = [e \in End |-> 1]] /\ ref' = [e \in End |-> 1]
        /\ open' = [e \in End |-> TRUE] /\ freed' = FALSE /\ nread' = 0 /\ nwrite' = 0
    BY <1>1 DEF PipeAlloc
  <2>3. fds' \in [Proc -> [End -> 0..NOFILE]] /\ ref' \in [End -> Nat] /\ open' \in [End -> BOOLEAN]
    BY <2>1, <2>2
  <2> QED BY <1>1, <2>1, <2>2, <2>3 DEF PipeAlloc, IInv, TypeInv
<1>2. ASSUME NEW p \in Proc, NEW e \in End, Dup(p, e) PROVE TypeInv'
  BY <1>2, DupIs DEF Dup, pipeVars, IInv, TypeInv
<1>3. ASSUME NEW p \in Proc, NEW q \in Proc, Fork(p, q) PROVE TypeInv'
  BY <1>3 DEF Fork, InCall, Runs, Goto, pipeVars, TypeInv, IInv
<1>4. ASSUME NEW p \in Proc, NEW e \in End, Close(p, e) PROVE TypeInv'
  <2>1. CloseFile(p, e, Closing) /\ pc[p] \in {"run", "exit"}
    BY <1>4 DEF Close, InCall
  <2>2. /\ fds' \in [Proc -> [End -> 0..NOFILE]] /\ ref' \in [End -> Nat] /\ pc' \in [Proc -> State]
    BY <2>1, CloseFileIs DEF IInv
  <2> QED BY <1>4, <2>2 DEF Close, pipeVars, IInv, TypeInv
<1>5. ASSUME NEW p \in Proc, NEW e \in End, PipeClose(p, e) PROVE TypeInv'
  BY <1>5 DEF PipeClose, CloseWakes, Woken, BothClosed, TypeInv, IInv, State, CloserPc, Closing,
              ExitClosing, ReadPc, WritePc, End
<1>6. ASSUME NEW p \in Proc, Exit(p) PROVE TypeInv'
  BY <1>6 DEF Exit, Runs, Goto, pipeVars, TypeInv, IInv, State, CloserPc, Closing, ExitClosing,
              ReadPc, WritePc, End
<1>7. ASSUME NEW p \in Proc, NEW e \in End, ExitClose(p, e) PROVE TypeInv'
  <2>1. CloseFile(p, e, ExitClosing) /\ pc[p] \in {"run", "exit"}
    BY <1>7 DEF ExitClose, InCall
  <2>2. /\ fds' \in [Proc -> [End -> 0..NOFILE]] /\ ref' \in [End -> Nat] /\ pc' \in [Proc -> State]
    BY <2>1, CloseFileIs DEF IInv
  <2> QED BY <1>7, <2>2 DEF ExitClose, pipeVars, IInv, TypeInv
<1>8. ASSUME NEW p \in Proc, Exited(p) PROVE TypeInv'
  BY <1>8 DEF Exited, Runs, Goto, pipeVars, TypeInv, IInv, State, CloserPc, Closing, ExitClosing,
              ReadPc, WritePc, End
<1>9. ASSUME NEW p \in Proc, Kill(p) PROVE TypeInv'
  BY <1>9 DEF Kill, Goto, Roused, pipeVars, TypeInv, IInv, State, CloserPc, Closing, ExitClosing,
              ReadPc, WritePc, End
<1>10. ASSUME NEW p \in Proc, NEW n \in 1..MaxN, Read(p, n) PROVE TypeInv'
  <2>1. n \in Nat
    BY ConstAssumption
  <2> QED BY <1>10, <2>1 DEF Read, Goto, pipeVars, IInv, TypeInv, State, ReadPc, WritePc
<1>11. ASSUME NEW p \in Proc, PipeRead(p) PROVE TypeInv'
  <2>1. /\ nread \in Uint /\ nread \in Int /\ UintSize \in Nat /\ UintSize > 0 /\ todo \in [Proc -> Nat]
    BY CodeSizes DEF IInv, TypeInv, Uint, Sizes
  <2>2. nread' = nread \/ \E k \in Int : nread' = (nread + k) % UintSize
    <3>1. CASE Empty /\ open["write"]
      BY <1>11, <3>1 DEF PipeRead
    <3>2. CASE ~(Empty /\ open["write"])
      <4>1. PICK k \in 0..Smaller(todo[p], Available) : nread' = (nread + k) % UintSize
        BY <1>11, <3>2 DEF PipeRead
      <4>2. k \in Int
        OBVIOUS
      <4> QED BY <4>1, <4>2
    <3> QED BY <3>1, <3>2
  <2>3. nread' \in Uint
    <3>1. ASSUME NEW k \in Int PROVE (nread + k) % UintSize \in Uint
      <4>1. nread + k \in Int
        BY <2>1
      <4> QED BY <2>1, <4>1, DivMod DEF Uint
    <3> QED BY <2>1, <2>2, <3>1
  <2>7. \E k \in Nat : todo' = [todo EXCEPT ![p] = k]
    BY <1>11, <2>1 DEF PipeRead
  <2>4. /\ \/ \E s \in {"run", "read sleep"} : pc' = [pc EXCEPT ![p] = s]
           \/ pc' = Woken([pc EXCEPT ![p] = "run"], "write sleep", "write wake")
    BY <1>11 DEF PipeRead, Goto, IInv, TypeInv
  <2>5. todo' \in [Proc -> Nat]
    BY <2>1, <2>7
  <2>6. pc' \in [Proc -> State]
    BY <2>4 DEF IInv, TypeInv, Woken, State, ReadPc, WritePc
  <2> QED BY <1>11, <2>3, <2>5, <2>6 DEF PipeRead, IInv, TypeInv
<1>12. ASSUME NEW p \in Proc, NEW n \in 1..MaxN, Write(p, n) PROVE TypeInv'
  <2>1. n \in Nat
    BY ConstAssumption
  <2> QED BY <1>12, <2>1 DEF Write, Goto, pipeVars, IInv, TypeInv, State, ReadPc, WritePc
<1>13. ASSUME NEW p \in Proc, WriteLock(p) PROVE TypeInv'
  BY <1>13 DEF WriteLock, Goto, pipeVars, TypeInv, IInv, State, CloserPc, Closing, ExitClosing,
               ReadPc, WritePc, End
<1>14. ASSUME NEW p \in Proc, WriteAbandon(p) PROVE TypeInv'
  BY <1>14 DEF WriteAbandon, AtLoop, Goto, pipeVars, TypeInv, IInv, State, CloserPc, Closing,
               ExitClosing, ReadPc, WritePc, End
<1>15. ASSUME NEW p \in Proc, WriteSleep(p) PROVE TypeInv'
  BY <1>15 DEF WriteSleep, AtLoop, Woken, pipeVars, TypeInv, IInv, State, CloserPc, Closing,
               ExitClosing, ReadPc, WritePc, End
<1>16. ASSUME NEW p \in Proc, WriteByte(p) PROVE TypeInv'
  <2>1. /\ nwrite \in Uint /\ nwrite \in Int /\ UintSize \in Nat /\ UintSize > 0 /\ todo \in [Proc -> Nat]
        /\ data \in [0..PIPESIZE - 1 -> Uint]
    BY CodeSizes DEF IInv, TypeInv, Uint, Sizes
  <2>2. /\ nwrite' = (nwrite + 1) % UintSize /\ todo' = [todo EXCEPT ![p] = @ - 1] /\ todo[p] > 0
        /\ data' = [data EXCEPT ![nwrite % PIPESIZE] = nwrite]
    BY <1>16 DEF WriteByte, AtLoop
  <2>3. nwrite' \in Uint
    <3>1. nwrite + 1 \in Int
      BY <2>1
    <3> QED BY <2>1, <2>2, <3>1, DivMod DEF Uint
  <2>4. todo' \in [Proc -> Nat]
    <3>1. todo[p] - 1 \in Nat
      BY <2>1, <2>2
    <3> QED BY <2>1, <2>2, <3>1
  <2>5. data' \in [0..PIPESIZE - 1 -> Uint]
    BY <2>1, <2>2
  <2> QED BY <1>16, <2>3, <2>4, <2>5 DEF WriteByte, IInv, TypeInv
<1>17. ASSUME NEW p \in Proc, WriteReturn(p) PROVE TypeInv'
  BY <1>17 DEF WriteReturn, Woken, pipeVars, TypeInv, IInv, State, CloserPc, Closing, ExitClosing,
               ReadPc, WritePc, End
<1>18. CASE UNCHANGED vars
  BY <1>18 DEF vars, pipeVars, TypeInv, IInv
<1> QED BY <1>1, <1>2, <1>3, <1>4, <1>5, <1>6, <1>7, <1>8, <1>9, <1>10, <1>11, <1>12, <1>13,
          <1>14, <1>15, <1>16, <1>17, <1>18
       DEF Next, Call, KernelStep, WriteStep, ExitStep

\* Every step does one of these things to the ring.
LEMMA RingSteps ==
  ASSUME TypeInv, [Next]_vars
  PROVE  RingStep
<1>1. ASSUME NEW p \in Proc, PipeAlloc(p) PROVE RingStep
  BY <1>1 DEF PipeAlloc, InCall, Runs, NoFds, RingStep, Empties
<1>2. ASSUME NEW p \in Proc, NEW e \in End, Dup(p, e) PROVE RingStep
  BY <1>2 DEF Dup, InCall, Runs, pipeVars, RingStep
<1>3. ASSUME NEW p \in Proc, NEW q \in Proc, Fork(p, q) PROVE RingStep
  BY <1>3 DEF Fork, InCall, Runs, Goto, pipeVars, RingStep
<1>4. ASSUME NEW p \in Proc, NEW e \in End, Close(p, e) PROVE RingStep
  BY <1>4 DEF Close, InCall, Runs, CloseFile, Goto, pipeVars, RingStep
<1>5. ASSUME NEW p \in Proc, NEW e \in End, PipeClose(p, e) PROVE RingStep
  BY <1>5 DEF PipeClose, CloseWakes, Woken, BothClosed, RingStep
<1>6. ASSUME NEW p \in Proc, Exit(p) PROVE RingStep
  BY <1>6 DEF Exit, Runs, Goto, pipeVars, RingStep
<1>7. ASSUME NEW p \in Proc, NEW e \in End, ExitClose(p, e) PROVE RingStep
  BY <1>7 DEF ExitClose, Runs, CloseFile, Goto, pipeVars, RingStep
<1>8. ASSUME NEW p \in Proc, Exited(p) PROVE RingStep
  BY <1>8 DEF Exited, Runs, Goto, pipeVars, RingStep
<1>9. ASSUME NEW p \in Proc, Kill(p) PROVE RingStep
  BY <1>9 DEF Kill, Goto, Roused, pipeVars, RingStep
<1>10. ASSUME NEW p \in Proc, NEW n \in 1..MaxN, Read(p, n) PROVE RingStep
  BY <1>10 DEF Read, InCall, Runs, Goto, pipeVars, RingStep
<1>11. ASSUME NEW p \in Proc, PipeRead(p) PROVE RingStep
  <2>1. Available \in Nat /\ todo[p] \in Nat
    BY AvailableIs, CodeSizes DEF TypeInv, Uint, Sizes
  <2>2. 0..Smaller(todo[p], Available) \subseteq 0..Available
    BY <2>1 DEF Smaller
  <2>3. UNCHANGED <<nwrite, data>>
    BY <1>11 DEF PipeRead
  <2>4. nread' = nread \/ \E k \in 0..Smaller(todo[p], Available) : nread' = (nread + k) % UintSize
    BY <1>11 DEF PipeRead
  <2> QED BY <2>2, <2>3, <2>4 DEF RingStep, Takes
<1>12. ASSUME NEW p \in Proc, NEW n \in 1..MaxN, Write(p, n) PROVE RingStep
  BY <1>12 DEF Write, InCall, Runs, Goto, pipeVars, RingStep
<1>13. ASSUME NEW p \in Proc, WriteLock(p) PROVE RingStep
  BY <1>13 DEF WriteLock, Goto, pipeVars, RingStep
<1>14. ASSUME NEW p \in Proc, WriteAbandon(p) PROVE RingStep
  BY <1>14 DEF WriteAbandon, AtLoop, Goto, pipeVars, RingStep
<1>15. ASSUME NEW p \in Proc, WriteSleep(p) PROVE RingStep
  BY <1>15 DEF WriteSleep, AtLoop, Woken, pipeVars, RingStep
<1>16. ASSUME NEW p \in Proc, WriteByte(p) PROVE RingStep
  BY <1>16 DEF WriteByte, AtLoop, RingStep, Appends
<1>17. ASSUME NEW p \in Proc, WriteReturn(p) PROVE RingStep
  BY <1>17 DEF WriteReturn, Woken, pipeVars, RingStep
<1>18. CASE UNCHANGED vars
  BY <1>18 DEF vars, pipeVars, RingStep
<1> QED BY <1>1, <1>2, <1>3, <1>4, <1>5, <1>6, <1>7, <1>8, <1>9, <1>10, <1>11, <1>12, <1>13,
          <1>14, <1>15, <1>16, <1>17, <1>18
       DEF Next, Call, KernelStep, WriteStep, ExitStep

\* dup(), fork(), close() and exit() keep the count of the references.
LEMMA RefStep ==
  ASSUME IInv, [Next]_vars
  PROVE  RefInv'
<1>a. ASSUME UNCHANGED <<fds, ref>>, \A q \in Proc : pc'[q] = "unused" => pc[q] = "unused" \/ fds[q] = NoFds
      PROVE  RefInv'
  <2>1. \A e \in End : Fds(e)' = Fds(e)
    BY <1>a, SameFds
  <2> QED BY <1>a, <2>1 DEF IInv, RefInv
<1>1. ASSUME NEW p \in Proc, PipeAlloc(p) PROVE RefInv'
  <2>1. /\ \A e \in End : ref[e] = 0 /\ ref'[e] = 1
        /\ fds' = [fds EXCEPT ![p] = [e \in End |-> 1]] /\ pc' = pc /\ pc[p] = "run"
    BY <1>1 DEF PipeAlloc, NoFds, InCall
  <2>2. /\ NOFILE \in Nat /\ NOFILE > 0 /\ fds \in [Proc -> [End -> 0..NOFILE]]
    BY ConstAssumption DEF IInv, TypeInv
  <2>3. \A e \in End, q \in Proc : fds[q][e] = 0
    <3>1. \A e \in End : ref[e] = Cardinality(Fds(e))
      BY DEF IInv, RefInv
    <3> QED BY <2>1, <3>1, FdsFacts DEF IInv
  <2>4. \A e \in End : fds'[p][e] = fds[p][e] + 1 /\ \A q \in Proc \ {p} : fds'[q][e] = fds[q][e]
    BY <2>1, <2>2, <2>3
  <2>5. ASSUME NEW e \in End PROVE Cardinality(Fds(e)') = ref[e] + 1
    BY <2>2, <2>3, <2>4, FdsMore DEF IInv
  <2>6. \A q \in Proc \ {p} : fds'[q] = fds[q]
    BY <2>1, <2>2
  <2> QED BY <2>1, <2>5, <2>6 DEF RefInv, IInv
<1>2. ASSUME NEW p \in Proc, NEW e \in End, Dup(p, e) PROVE RefInv'
  <2>1. /\ fds[p][e] < NOFILE /\ fds'[p][e] = fds[p][e] + 1 /\ \A q \in Proc \ {p} : fds'[q] = fds[q]
        /\ \A f \in End \ {e} : fds'[p][f] = fds[p][f] /\ ref'[f] = ref[f]
        /\ ref'[e] = ref[e] + 1
    BY <1>2, DupIs DEF IInv
  <2>2. Cardinality(Fds(e)') = ref[e] + 1
    BY <2>1, FdsMore DEF IInv
  <2>3. ASSUME NEW f \in End, f # e PROVE Fds(f)' = Fds(f)
    <3>1. \A q \in Proc : fds'[q][f] = fds[q][f]
      BY <2>1, <2>3
    <3> QED BY <3>1, SameFds
  <2>4. pc' = pc /\ pc[p] = "run"
    BY <1>2 DEF Dup, InCall
  <2> QED BY <2>1, <2>2, <2>3, <2>4 DEF RefInv, IInv
<1>3. ASSUME NEW p \in Proc, NEW q \in Proc, Fork(p, q) PROVE RefInv'
  <2>1. /\ fds' = [fds EXCEPT ![q] = fds[p]] /\ pc[q] = "unused" /\ pc' = [pc EXCEPT ![q] = "run"]
        /\ \A e \in End : ref'[e] = ref[e] + fds[p][e]
    BY <1>3 DEF Fork, Goto
  <2>2. fds \in [Proc -> [End -> 0..NOFILE]] /\ pc \in [Proc -> State]
    BY DEF IInv, TypeInv
  <2>3. \A e \in End : fds[q][e] = 0
    BY <2>1 DEF IInv, RefInv, NoFds
  <2>4. fds'[q] = fds[p] /\ \A r \in Proc \ {q} : fds'[r] = fds[r]
    BY <2>1, <2>2
  <2>5. ASSUME NEW e \in End PROVE Cardinality(Fds(e)') = ref[e] + fds[p][e]
    BY <2>3, <2>4, FdsCopied DEF IInv
  <2>6. pc'[q] = "run" /\ \A r \in Proc \ {q} : pc'[r] = pc[r]
    BY <2>1, <2>2
  <2> QED BY <2>1, <2>4, <2>5, <2>6 DEF RefInv, IInv
<1>4. ASSUME NEW p \in Proc, NEW e \in End, Close(p, e) PROVE RefInv'
  <2>1. CloseFile(p, e, Closing) /\ pc[p] \in {"run", "exit"}
    BY <1>4 DEF Close, InCall
  <2>2. /\ fds[p][e] > 0 /\ fds'[p][e] = fds[p][e] - 1 /\ \A q \in Proc \ {p} : fds'[q] = fds[q]
        /\ \A f \in End \ {e} : fds'[p][f] = fds[p][f] /\ ref'[f] = ref[f]
        /\ ref'[e] = ref[e] - 1 /\ \A q \in Proc \ {p} : pc'[q] = pc[q]
        /\ pc'[p] \in CloserPc(e) \/ pc'[p] = pc[p]
    BY <2>1, CloseFileIs DEF IInv
  <2>3. Cardinality(Fds(e)') = ref[e] - 1
    BY <2>2, FdsLess DEF IInv
  <2>4. ASSUME NEW f \in End, f # e PROVE Fds(f)' = Fds(f)
    <3>1. \A q \in Proc : fds'[q][f] = fds[q][f]
      BY <2>2, <2>4
    <3> QED BY <3>1, SameFds
  <2>5. pc'[p] # "unused"
    BY <2>1, <2>2, Closers DEF OpenPc
  <2> QED BY <2>2, <2>3, <2>4, <2>5 DEF RefInv, IInv
<1>5. ASSUME NEW p \in Proc, NEW e \in End, PipeClose(p, e) PROVE RefInv'
  <2>1. UNCHANGED <<fds, ref>>
    BY <1>5 DEF PipeClose
  <2>2. \A r \in Proc : pc'[r] = "unused" => pc[r] = "unused" \/ fds[r] = NoFds
    BY <1>5 DEF PipeClose, CloseWakes, Woken, IInv, TypeInv
  <2> QED BY <1>a, <2>1, <2>2
<1>6. ASSUME NEW p \in Proc, Exit(p) PROVE RefInv'
  <2>1. UNCHANGED <<fds, ref>>
    BY <1>6 DEF Exit
  <2>2. \A r \in Proc : pc'[r] = "unused" => pc[r] = "unused" \/ fds[r] = NoFds
    BY <1>6 DEF Exit, Goto, IInv, TypeInv
  <2> QED BY <1>a, <2>1, <2>2
<1>7. ASSUME NEW p \in Proc, NEW e \in End, ExitClose(p, e) PROVE RefInv'
  <2>1. CloseFile(p, e, ExitClosing) /\ pc[p] \in {"run", "exit"}
    BY <1>7 DEF ExitClose, InCall
  <2>2. /\ fds[p][e] > 0 /\ fds'[p][e] = fds[p][e] - 1 /\ \A q \in Proc \ {p} : fds'[q] = fds[q]
        /\ \A f \in End \ {e} : fds'[p][f] = fds[p][f] /\ ref'[f] = ref[f]
        /\ ref'[e] = ref[e] - 1 /\ \A q \in Proc \ {p} : pc'[q] = pc[q]
        /\ pc'[p] \in CloserPc(e) \/ pc'[p] = pc[p]
    BY <2>1, CloseFileIs DEF IInv
  <2>3. Cardinality(Fds(e)') = ref[e] - 1
    BY <2>2, FdsLess DEF IInv
  <2>4. ASSUME NEW f \in End, f # e PROVE Fds(f)' = Fds(f)
    <3>1. \A q \in Proc : fds'[q][f] = fds[q][f]
      BY <2>2, <2>4
    <3> QED BY <3>1, SameFds
  <2>5. pc'[p] # "unused"
    BY <2>1, <2>2, Closers DEF OpenPc
  <2> QED BY <2>2, <2>3, <2>4, <2>5 DEF RefInv, IInv
<1>8. ASSUME NEW p \in Proc, Exited(p) PROVE RefInv'
  <2>1. UNCHANGED <<fds, ref>>
    BY <1>8 DEF Exited
  <2>2. \A r \in Proc : pc'[r] = "unused" => pc[r] = "unused" \/ fds[r] = NoFds
    BY <1>8 DEF Exited, Goto, IInv, TypeInv
  <2> QED BY <1>a, <2>1, <2>2
<1>9. ASSUME NEW p \in Proc, Kill(p) PROVE RefInv'
  <2>1. UNCHANGED <<fds, ref>>
    BY <1>9 DEF Kill
  <2>2. \A r \in Proc : pc'[r] = "unused" => pc[r] = "unused" \/ fds[r] = NoFds
    BY <1>9 DEF Kill, Goto, Roused, IInv, TypeInv
  <2> QED BY <1>a, <2>1, <2>2
<1>10. ASSUME NEW p \in Proc, NEW n \in 1..MaxN, Read(p, n) PROVE RefInv'
  <2>1. UNCHANGED <<fds, ref>>
    BY <1>10 DEF Read
  <2>2. \A r \in Proc : pc'[r] = "unused" => pc[r] = "unused" \/ fds[r] = NoFds
    BY <1>10 DEF Read, Goto, IInv, TypeInv
  <2> QED BY <1>a, <2>1, <2>2
<1>11. ASSUME NEW p \in Proc, PipeRead(p) PROVE RefInv'
  <2>1. UNCHANGED <<fds, ref>> /\ pc \in [Proc -> State]
    BY <1>11 DEF PipeRead, IInv, TypeInv
  <2>2. \/ \E s \in {"run", "read sleep"} : pc' = [pc EXCEPT ![p] = s]
        \/ pc' = Woken([pc EXCEPT ![p] = "run"], "write sleep", "write wake")
    BY <1>11 DEF PipeRead, Goto
  <2>3. \A r \in Proc : pc'[r] = "unused" => pc[r] = "unused"
    BY <2>1, <2>2 DEF Woken
  <2> QED BY <1>a, <2>1, <2>3
<1>12. ASSUME NEW p \in Proc, NEW n \in 1..MaxN, Write(p, n) PROVE RefInv'
  <2>1. UNCHANGED <<fds, ref>>
    BY <1>12 DEF Write
  <2>2. \A r \in Proc : pc'[r] = "unused" => pc[r] = "unused" \/ fds[r] = NoFds
    BY <1>12 DEF Write, Goto, IInv, TypeInv
  <2> QED BY <1>a, <2>1, <2>2
<1>13. ASSUME NEW p \in Proc, WriteLock(p) PROVE RefInv'
  <2>1. UNCHANGED <<fds, ref>>
    BY <1>13 DEF WriteLock
  <2>2. \A r \in Proc : pc'[r] = "unused" => pc[r] = "unused" \/ fds[r] = NoFds
    BY <1>13 DEF WriteLock, Goto, IInv, TypeInv
  <2> QED BY <1>a, <2>1, <2>2
<1>14. ASSUME NEW p \in Proc, WriteAbandon(p) PROVE RefInv'
  <2>1. UNCHANGED <<fds, ref>>
    BY <1>14 DEF WriteAbandon
  <2>2. \A r \in Proc : pc'[r] = "unused" => pc[r] = "unused" \/ fds[r] = NoFds
    BY <1>14 DEF WriteAbandon, Goto, IInv, TypeInv
  <2> QED BY <1>a, <2>1, <2>2
<1>15. ASSUME NEW p \in Proc, WriteSleep(p) PROVE RefInv'
  <2>1. UNCHANGED <<fds, ref>>
    BY <1>15 DEF WriteSleep
  <2>2. \A r \in Proc : pc'[r] = "unused" => pc[r] = "unused" \/ fds[r] = NoFds
    BY <1>15 DEF WriteSleep, Woken, IInv, TypeInv
  <2> QED BY <1>a, <2>1, <2>2
<1>16. ASSUME NEW p \in Proc, WriteByte(p) PROVE RefInv'
  <2>1. UNCHANGED <<fds, ref>>
    BY <1>16 DEF WriteByte
  <2>2. \A r \in Proc : pc'[r] = "unused" => pc[r] = "unused" \/ fds[r] = NoFds
    BY <1>16 DEF WriteByte, IInv, TypeInv
  <2> QED BY <1>a, <2>1, <2>2
<1>17. ASSUME NEW p \in Proc, WriteReturn(p) PROVE RefInv'
  <2>1. UNCHANGED <<fds, ref>>
    BY <1>17 DEF WriteReturn
  <2>2. \A r \in Proc : pc'[r] = "unused" => pc[r] = "unused" \/ fds[r] = NoFds
    BY <1>17 DEF WriteReturn, Woken, IInv, TypeInv
  <2> QED BY <1>a, <2>1, <2>2
<1>18. CASE UNCHANGED vars
  BY <1>18, <1>a DEF vars
<1> QED BY <1>1, <1>2, <1>3, <1>4, <1>5, <1>6, <1>7, <1>8, <1>9, <1>10, <1>11, <1>12, <1>13,
          <1>14, <1>15, <1>16, <1>17, <1>18
       DEF Next, Call, KernelStep, WriteStep, ExitStep

\* A process keeps the descriptor it reads or writes through.
LEMMA CallStep ==
  ASSUME IInv, [Next]_vars
  PROVE  CallInv'
<1>1. ASSUME NEW p \in Proc, PipeAlloc(p) PROVE CallInv'
  BY <1>1 DEF PipeAlloc, InCall, Runs, NoFds, CallInv, TypeInv, IInv, State, CloserPc, Closing,
              ExitClosing, ReadPc, WritePc, End
<1>2. ASSUME NEW p \in Proc, NEW e \in End, Dup(p, e) PROVE CallInv'
  BY <1>2 DEF Dup, InCall, Runs, pipeVars, CallInv, IInv
<1>3. ASSUME NEW p \in Proc, NEW q \in Proc, Fork(p, q) PROVE CallInv'
  BY <1>3 DEF Fork, InCall, Runs, Goto, pipeVars, CallInv, TypeInv, IInv
<1>4. ASSUME NEW p \in Proc, NEW e \in End, Close(p, e) PROVE CallInv'
  <2>1. CloseFile(p, e, Closing) /\ pc[p] \in {"run", "exit"}
    BY <1>4 DEF Close, InCall
  <2>2. /\ \A q \in Proc \ {p} : fds'[q] = fds[q] /\ pc'[q] = pc[q]
        /\ pc'[p] \in CloserPc(e) \/ pc'[p] = pc[p]
    BY <2>1, CloseFileIs DEF IInv
  <2>3. pc'[p] \notin ReadPc \cup WritePc
    BY <2>1, <2>2, Closers DEF OpenPc, ReadPc, WritePc
  <2> QED BY <2>2, <2>3 DEF CallInv, IInv
<1>5. ASSUME NEW p \in Proc, NEW e \in End, PipeClose(p, e) PROVE CallInv'
  BY <1>5 DEF PipeClose, CloseWakes, Woken, BothClosed, CallInv, TypeInv, IInv, State, CloserPc,
              Closing, ExitClosing, ReadPc, WritePc, End
<1>6. ASSUME NEW p \in Proc, Exit(p) PROVE CallInv'
  BY <1>6 DEF Exit, Runs, Goto, pipeVars, CallInv, TypeInv, IInv, State, CloserPc, Closing,
              ExitClosing, ReadPc, WritePc, End
<1>7. ASSUME NEW p \in Proc, NEW e \in End, ExitClose(p, e) PROVE CallInv'
  <2>1. CloseFile(p, e, ExitClosing) /\ pc[p] \in {"run", "exit"}
    BY <1>7 DEF ExitClose, InCall
  <2>2. /\ \A q \in Proc \ {p} : fds'[q] = fds[q] /\ pc'[q] = pc[q]
        /\ pc'[p] \in CloserPc(e) \/ pc'[p] = pc[p]
    BY <2>1, CloseFileIs DEF IInv
  <2>3. pc'[p] \notin ReadPc \cup WritePc
    BY <2>1, <2>2, Closers DEF OpenPc, ReadPc, WritePc
  <2> QED BY <2>2, <2>3 DEF CallInv, IInv
<1>8. ASSUME NEW p \in Proc, Exited(p) PROVE CallInv'
  BY <1>8 DEF Exited, Runs, Goto, pipeVars, CallInv, TypeInv, IInv, State, CloserPc, Closing,
              ExitClosing, ReadPc, WritePc, End
<1>9. ASSUME NEW p \in Proc, Kill(p) PROVE CallInv'
  BY <1>9 DEF Kill, Goto, Roused, pipeVars, CallInv, TypeInv, IInv, State, CloserPc, Closing,
              ExitClosing, ReadPc, WritePc, End
<1>10. ASSUME NEW p \in Proc, NEW n \in 1..MaxN, Read(p, n) PROVE CallInv'
  BY <1>10 DEF Read, InCall, Runs, Goto, pipeVars, CallInv, TypeInv, IInv, State, CloserPc, Closing,
               ExitClosing, ReadPc, WritePc, End
<1>11. ASSUME NEW p \in Proc, PipeRead(p) PROVE CallInv'
  BY <1>11, ZenonT(60) DEF PipeRead, Goto, Woken, CallInv, TypeInv, IInv, State, CloserPc, Closing, ExitClosing,
               ReadPc, WritePc, End
<1>12. ASSUME NEW p \in Proc, NEW n \in 1..MaxN, Write(p, n) PROVE CallInv'
  BY <1>12 DEF Write, InCall, Runs, Goto, pipeVars, CallInv, TypeInv, IInv, State, CloserPc,
               Closing, ExitClosing, ReadPc, WritePc, End
<1>13. ASSUME NEW p \in Proc, WriteLock(p) PROVE CallInv'
  BY <1>13 DEF WriteLock, Goto, pipeVars, CallInv, TypeInv, IInv, State, CloserPc, Closing,
               ExitClosing, ReadPc, WritePc, End
<1>14. ASSUME NEW p \in Proc, WriteAbandon(p) PROVE CallInv'
  BY <1>14 DEF WriteAbandon, AtLoop, Goto, pipeVars, CallInv, TypeInv, IInv, State, CloserPc,
               Closing, ExitClosing, ReadPc, WritePc, End
<1>15. ASSUME NEW p \in Proc, WriteSleep(p) PROVE CallInv'
  BY <1>15 DEF WriteSleep, AtLoop, Woken, pipeVars, CallInv, TypeInv, IInv, State, CloserPc,
               Closing, ExitClosing, ReadPc, WritePc, End
<1>16. ASSUME NEW p \in Proc, WriteByte(p) PROVE CallInv'
  BY <1>16 DEF WriteByte, AtLoop, CallInv, IInv
<1>17. ASSUME NEW p \in Proc, WriteReturn(p) PROVE CallInv'
  BY <1>17 DEF WriteReturn, Woken, pipeVars, CallInv, TypeInv, IInv, State, CloserPc, Closing,
               ExitClosing, ReadPc, WritePc, End
<1>18. CASE UNCHANGED vars
  BY <1>18 DEF vars, pipeVars, CallInv, IInv
<1> QED BY <1>1, <1>2, <1>3, <1>4, <1>5, <1>6, <1>7, <1>8, <1>9, <1>10, <1>11, <1>12, <1>13,
          <1>14, <1>15, <1>16, <1>17, <1>18
       DEF Next, Call, KernelStep, WriteStep, ExitStep

\* pi->lock.
LEMMA LockStep ==
  ASSUME IInv, [Next]_vars
  PROVE  LockInv'
<1>1. ASSUME NEW p \in Proc, PipeAlloc(p) PROVE LockInv'
  BY <1>1 DEF PipeAlloc, InCall, Runs, NoFds, LockInv, IInv
<1>2. ASSUME NEW p \in Proc, NEW e \in End, Dup(p, e) PROVE LockInv'
  BY <1>2 DEF Dup, InCall, Runs, pipeVars, LockInv, IInv
<1>3. ASSUME NEW p \in Proc, NEW q \in Proc, Fork(p, q) PROVE LockInv'
  BY <1>3 DEF Fork, InCall, Runs, Goto, pipeVars, LockInv, IInv
<1>4. ASSUME NEW p \in Proc, NEW e \in End, Close(p, e) PROVE LockInv'
  <2>1. CloseFile(p, e, Closing) /\ pc[p] \in {"run", "exit"} /\ lock' = lock
    BY <1>4 DEF Close, InCall
  <2>2. /\ \A q \in Proc \ {p} : pc'[q] = pc[q]
        /\ pc'[p] \in CloserPc(e) \/ pc'[p] = pc[p]
    BY <2>1, CloseFileIs DEF IInv
  <2>3. pc'[p] # "write"
    BY <2>1, <2>2, Closers DEF OpenPc, WritePc
  <2> QED BY <2>1, <2>2, <2>3 DEF LockInv, IInv
<1>5. ASSUME NEW p \in Proc, NEW e \in End, PipeClose(p, e) PROVE LockInv'
  BY <1>5, ConstAssumption DEF PipeClose, CloseWakes, Woken, BothClosed, LockInv, TypeInv, IInv,
                               State, CloserPc, Closing, ExitClosing, ReadPc, WritePc, End
<1>6. ASSUME NEW p \in Proc, Exit(p) PROVE LockInv'
  BY <1>6 DEF Exit, Runs, Goto, pipeVars, LockInv, IInv
<1>7. ASSUME NEW p \in Proc, NEW e \in End, ExitClose(p, e) PROVE LockInv'
  <2>1. CloseFile(p, e, ExitClosing) /\ pc[p] \in {"run", "exit"} /\ lock' = lock
    BY <1>7 DEF ExitClose, InCall
  <2>2. /\ \A q \in Proc \ {p} : pc'[q] = pc[q]
        /\ pc'[p] \in CloserPc(e) \/ pc'[p] = pc[p]
    BY <2>1, CloseFileIs DEF IInv
  <2>3. pc'[p] # "write"
    BY <2>1, <2>2, Closers DEF OpenPc, WritePc
  <2> QED BY <2>1, <2>2, <2>3 DEF LockInv, IInv
<1>8. ASSUME NEW p \in Proc, Exited(p) PROVE LockInv'
  BY <1>8 DEF Exited, Runs, Goto, pipeVars, LockInv, IInv
<1>9. ASSUME NEW p \in Proc, Kill(p) PROVE LockInv'
  BY <1>9 DEF Kill, Goto, Roused, pipeVars, LockInv, TypeInv, IInv
<1>10. ASSUME NEW p \in Proc, NEW n \in 1..MaxN, Read(p, n) PROVE LockInv'
  BY <1>10 DEF Read, InCall, Runs, Goto, pipeVars, LockInv, IInv
<1>11. ASSUME NEW p \in Proc, PipeRead(p) PROVE LockInv'
  BY <1>11 DEF PipeRead, Goto, Woken, LockInv, TypeInv, IInv
<1>12. ASSUME NEW p \in Proc, NEW n \in 1..MaxN, Write(p, n) PROVE LockInv'
  BY <1>12 DEF Write, InCall, Runs, Goto, pipeVars, LockInv, TypeInv, IInv
<1>13. ASSUME NEW p \in Proc, WriteLock(p) PROVE LockInv'
  BY <1>13, ConstAssumption DEF WriteLock, Goto, pipeVars, LockInv, TypeInv, IInv, State, CloserPc,
                                Closing, ExitClosing, ReadPc, WritePc, End
<1>14. ASSUME NEW p \in Proc, WriteAbandon(p) PROVE LockInv'
  BY <1>14, ConstAssumption DEF WriteAbandon, AtLoop, Goto, pipeVars, LockInv, TypeInv, IInv, State,
                                CloserPc, Closing, ExitClosing, ReadPc, WritePc, End
<1>15. ASSUME NEW p \in Proc, WriteSleep(p) PROVE LockInv'
  BY <1>15, ConstAssumption DEF WriteSleep, AtLoop, Woken, pipeVars, LockInv, TypeInv, IInv, State,
                                CloserPc, Closing, ExitClosing, ReadPc, WritePc, End
<1>16. ASSUME NEW p \in Proc, WriteByte(p) PROVE LockInv'
  BY <1>16 DEF WriteByte, AtLoop, LockInv, IInv
<1>17. ASSUME NEW p \in Proc, WriteReturn(p) PROVE LockInv'
  BY <1>17, ConstAssumption DEF WriteReturn, Woken, pipeVars, LockInv, TypeInv, IInv, State,
                                CloserPc, Closing, ExitClosing, ReadPc, WritePc, End
<1>18. CASE UNCHANGED vars
  BY <1>18 DEF vars, pipeVars, LockInv, IInv
<1> QED BY <1>1, <1>2, <1>3, <1>4, <1>5, <1>6, <1>7, <1>8, <1>9, <1>10, <1>11, <1>12, <1>13,
          <1>14, <1>15, <1>16, <1>17, <1>18
       DEF Next, Call, KernelStep, WriteStep, ExitStep

\* The process that gives up the last reference of an end closes it.
LEMMA OpenStep ==
  ASSUME IInv, [Next]_vars
  PROVE  OpenInv'
<1>a. ASSUME UNCHANGED <<open, freed>>, \A e \in End : ref'[e] > 0 <=> ref[e] > 0,
             \A e \in End : ref[e] = 0 => ref'[e] = 0,
             \A e \in End, q \in Proc : pc'[q] \in CloserPc(e) <=> pc[q] \in CloserPc(e)
      PROVE  OpenInv'
  BY <1>a DEF IInv, OpenInv
<1>1. ASSUME NEW p \in Proc, PipeAlloc(p) PROVE OpenInv'
  <2>1. /\ freed /\ freed' = FALSE /\ pc' = pc
        /\ open' = [e \in End |-> TRUE] /\ ref' = [e \in End |-> 1]
    BY <1>1 DEF PipeAlloc
  <2>2. \A e \in End, q \in Proc : pc[q] \notin CloserPc(e)
    BY <2>1 DEF IInv, OpenInv
  <2>3. \A e \in End : open'[e] /\ ref'[e] = 1
    BY <2>1
  <2>4. "read" \in End
    BY DEF End
  <2> QED BY <2>1, <2>2, <2>3, <2>4 DEF OpenInv
<1>2. ASSUME NEW p \in Proc, NEW e \in End, Dup(p, e) PROVE OpenInv'
  <2>1. UNCHANGED <<open, freed, pc>>
    BY <1>2 DEF Dup, pipeVars
  <2>2. /\ fds[p][e] > 0 /\ ref'[e] = ref[e] + 1 /\ \A f \in End \ {e} : ref'[f] = ref[f]
    BY <1>2, DupIs DEF IInv
  <2>3. ref[e] \in Nat /\ ref[e] > 0
    BY <2>2, RefFacts DEF IInv
  <2>4. \A f \in End : (ref'[f] > 0 <=> ref[f] > 0) /\ (ref[f] = 0 => ref'[f] = 0)
    BY <2>2, <2>3
  <2> QED BY <1>a, <2>1, <2>4
<1>3. ASSUME NEW p \in Proc, NEW q \in Proc, Fork(p, q) PROVE OpenInv'
  <2>1. /\ UNCHANGED <<open, freed>> /\ pc' = [pc EXCEPT ![q] = "run"] /\ pc[q] = "unused"
        /\ \A e \in End : ref'[e] = ref[e] + fds[p][e]
    BY <1>3 DEF Fork, Goto, pipeVars
  <2>2. \A e \in End : ref[e] \in Nat /\ fds[p][e] \in Nat
    BY ConstAssumption DEF IInv, TypeInv
  <2>3. \A e \in End : fds[p][e] > 0 => ref[e] > 0
    BY RefFacts DEF IInv
  <2>4. \A f \in End : (ref'[f] > 0 <=> ref[f] > 0) /\ (ref[f] = 0 => ref'[f] = 0)
    BY <2>1, <2>2, <2>3
  <2>5. \A e \in End, r \in Proc : pc'[r] \in CloserPc(e) <=> pc[r] \in CloserPc(e)
    BY <2>1, ClosersKept DEF IInv, OpenPc
  <2> QED BY <1>a, <2>1, <2>4, <2>5
<1>4. ASSUME NEW p \in Proc, NEW e \in End, Close(p, e) PROVE OpenInv'
  <2>1. /\ CloseFile(p, e, Closing) /\ pc[p] \in {"run", "exit"} /\ UNCHANGED <<open, freed>>
    BY <1>4 DEF Close, InCall, pipeVars
  <2>2. /\ ref[e] > 0 /\ ref'[e] = ref[e] - 1 /\ \A f \in End \ {e} : ref'[f] = ref[f]
        /\ \A q \in Proc \ {p} : pc'[q] = pc[q]
        /\ pc'[p] = (IF ref[e] = 1 THEN Closing[e] ELSE pc[p]) /\ Closing[e] \in CloserPc(e)
    BY <2>1, CloseFileIs DEF IInv
  <2>3. \A q \in Proc : pc[q] \notin CloserPc(e)
    BY <2>2 DEF IInv, OpenInv
  <2>4. \A f \in End : pc[p] \notin CloserPc(f)
    BY <2>1, Closers DEF OpenPc
  <2>5. CASE ref[e] = 1
    <3>1. /\ pc'[p] \in CloserPc(e) /\ \A f \in End \ {e} : pc'[p] \notin CloserPc(f)
      BY <2>2, <2>5, Closers
    <3>2. ref'[e] = 0 /\ open'[e]
      BY <2>1, <2>2, <2>5 DEF IInv, OpenInv
    <3>3. ASSUME NEW f \in End, f # e, NEW q \in Proc
          PROVE  pc'[q] \in CloserPc(f) <=> pc[q] \in CloserPc(f)
      BY <2>2, <2>4, <3>1, <3>3
    <3>4. \A q \in Proc : pc'[q] \in CloserPc(e) => q = p
      BY <2>2, <2>3
    <3> QED BY <2>1, <2>2, <3>1, <3>2, <3>3, <3>4 DEF IInv, OpenInv
  <2>6. CASE ref[e] # 1
    <3>1. \A q \in Proc : pc'[q] = pc[q]
      BY <2>2, <2>6
    <3>4. ref[e] \in Nat
      BY DEF IInv, TypeInv
    <3>2. \A f \in End : ref'[f] > 0 <=> ref[f] > 0
      BY <2>2, <2>6, <3>4
    <3>3. \A f \in End : ref[f] = 0 => ref'[f] = 0
      BY <2>2
    <3> QED BY <1>a, <2>1, <3>1, <3>2, <3>3
  <2> QED BY <2>5, <2>6
<1>5. ASSUME NEW p \in Proc, NEW e \in End, PipeClose(p, e) PROVE OpenInv'
  <2>1. /\ pc[p] \in CloserPc(e) /\ UNCHANGED ref /\ open' = [open EXCEPT ![e] = FALSE]
        /\ freed' = BothClosed(open')
        /\ \E s \in {"run", "exit"} : pc' = CloseWakes(e, [pc EXCEPT ![p] = s])
    BY <1>5 DEF PipeClose, CloserPc
  <2>2. pc \in [Proc -> State] /\ open \in [End -> BOOLEAN] /\ ref \in [End -> Nat]
    BY DEF IInv, TypeInv
  <2>3. /\ pc'[p] \in OpenPc
        /\ \A q \in Proc \ {p} : pc'[q] = pc[q] \/ (pc[q] \in OpenPc /\ pc'[q] \in OpenPc)
    BY <2>1, <2>2 DEF CloseWakes, Woken, OpenPc, ReadPc, WritePc
  <2>4. ref[e] = 0 /\ \A q \in Proc : pc[q] \in CloserPc(e) => q = p
    BY <2>1 DEF IInv, OpenInv
  <2>5. \A q \in Proc : pc'[q] \notin CloserPc(e)
    BY <2>3, <2>4, Closers
  <2>6. \A f \in End \ {e}, q \in Proc : pc'[q] \in CloserPc(f) <=> pc[q] \in CloserPc(f)
    BY <2>1, <2>3, Closers
  <2>7. ~open'[e] /\ \A f \in End \ {e} : open'[f] = open[f]
    BY <2>1, <2>2
  <2>8. freed' <=> \A f \in End : ~open'[f]
    BY <2>1 DEF BothClosed
  <2>9. ASSUME NEW f \in End
        PROVE  /\ open'[f] <=> ref'[f] > 0 \/ \E q \in Proc : pc'[q] \in CloserPc(f)
               /\ \A q \in Proc : pc'[q] \in CloserPc(f) =>
                    ref'[f] = 0 /\ \A r \in Proc : pc'[r] \in CloserPc(f) => r = q
    <3>1. CASE f = e
      <4>1. ref'[e] = 0 /\ ~(ref'[e] > 0)
        BY <2>1, <2>4
      <4> QED BY <2>5, <2>7, <3>1, <4>1, Zenon
    <3>2. CASE f # e
      BY <2>1, <2>6, <2>7, <3>2 DEF IInv, OpenInv
    <3> QED BY <3>1, <3>2
  <2> QED BY <2>8, <2>9 DEF OpenInv
<1>6. ASSUME NEW p \in Proc, Exit(p) PROVE OpenInv'
  <2>1. UNCHANGED <<open, freed, ref>> /\ pc[p] \in OpenPc
    BY <1>6 DEF Exit, pipeVars, InCall, AtLoop, OpenPc, ReadPc, WritePc
  <2>2. \E s \in OpenPc : pc' = [pc EXCEPT ![p] = s]
    BY <1>6 DEF Exit, Goto, OpenPc, ReadPc, WritePc
  <2>3. \A f \in End, r \in Proc : pc'[r] \in CloserPc(f) <=> pc[r] \in CloserPc(f)
    BY <2>1, <2>2, ClosersKept DEF IInv
  <2> QED BY <1>a, <2>1, <2>3
<1>7. ASSUME NEW p \in Proc, NEW e \in End, ExitClose(p, e) PROVE OpenInv'
  <2>1. /\ CloseFile(p, e, ExitClosing) /\ pc[p] \in {"run", "exit"} /\ UNCHANGED <<open, freed>>
    BY <1>7 DEF ExitClose, InCall, pipeVars
  <2>2. /\ ref[e] > 0 /\ ref'[e] = ref[e] - 1 /\ \A f \in End \ {e} : ref'[f] = ref[f]
        /\ \A q \in Proc \ {p} : pc'[q] = pc[q]
        /\ pc'[p] = (IF ref[e] = 1 THEN ExitClosing[e] ELSE pc[p]) /\ ExitClosing[e] \in CloserPc(e)
    BY <2>1, CloseFileIs DEF IInv
  <2>3. \A q \in Proc : pc[q] \notin CloserPc(e)
    BY <2>2 DEF IInv, OpenInv
  <2>4. \A f \in End : pc[p] \notin CloserPc(f)
    BY <2>1, Closers DEF OpenPc
  <2>5. CASE ref[e] = 1
    <3>1. /\ pc'[p] \in CloserPc(e) /\ \A f \in End \ {e} : pc'[p] \notin CloserPc(f)
      BY <2>2, <2>5, Closers
    <3>2. ref'[e] = 0 /\ open'[e]
      BY <2>1, <2>2, <2>5 DEF IInv, OpenInv
    <3>3. ASSUME NEW f \in End, f # e, NEW q \in Proc
          PROVE  pc'[q] \in CloserPc(f) <=> pc[q] \in CloserPc(f)
      BY <2>2, <2>4, <3>1, <3>3
    <3>4. \A q \in Proc : pc'[q] \in CloserPc(e) => q = p
      BY <2>2, <2>3
    <3> QED BY <2>1, <2>2, <3>1, <3>2, <3>3, <3>4 DEF IInv, OpenInv
  <2>6. CASE ref[e] # 1
    <3>1. \A q \in Proc : pc'[q] = pc[q]
      BY <2>2, <2>6
    <3>4. ref[e] \in Nat
      BY DEF IInv, TypeInv
    <3>2. \A f \in End : ref'[f] > 0 <=> ref[f] > 0
      BY <2>2, <2>6, <3>4
    <3>3. \A f \in End : ref[f] = 0 => ref'[f] = 0
      BY <2>2
    <3> QED BY <1>a, <2>1, <3>1, <3>2, <3>3
  <2> QED BY <2>5, <2>6
<1>8. ASSUME NEW p \in Proc, Exited(p) PROVE OpenInv'
  <2>1. UNCHANGED <<open, freed, ref>> /\ pc[p] \in OpenPc
    BY <1>8 DEF Exited, pipeVars, InCall, AtLoop, OpenPc, ReadPc, WritePc
  <2>2. \E s \in OpenPc : pc' = [pc EXCEPT ![p] = s]
    BY <1>8 DEF Exited, Goto, OpenPc, ReadPc, WritePc
  <2>3. \A f \in End, r \in Proc : pc'[r] \in CloserPc(f) <=> pc[r] \in CloserPc(f)
    BY <2>1, <2>2, ClosersKept DEF IInv
  <2> QED BY <1>a, <2>1, <2>3
<1>9. ASSUME NEW p \in Proc, Kill(p) PROVE OpenInv'
  <2>1. UNCHANGED <<open, freed, ref>> /\ pc' = [pc EXCEPT ![p] = Roused(pc[p])] /\ pc \in [Proc -> State]
    BY <1>9 DEF Kill, pipeVars, Goto, IInv, TypeInv
  <2>2. pc'[p] = pc[p] \/ (pc[p] \in OpenPc /\ pc'[p] \in OpenPc)
    BY <2>1 DEF Roused, OpenPc, ReadPc, WritePc
  <2>3. \A q \in Proc \ {p} : pc'[q] = pc[q]
    BY <2>1
  <2>4. \A f \in End, r \in Proc : pc'[r] \in CloserPc(f) <=> pc[r] \in CloserPc(f)
    BY <2>2, <2>3, Closers
  <2> QED BY <1>a, <2>1, <2>4
<1>10. ASSUME NEW p \in Proc, NEW n \in 1..MaxN, Read(p, n) PROVE OpenInv'
  <2>1. UNCHANGED <<open, freed, ref>> /\ pc[p] \in OpenPc
    BY <1>10 DEF Read, pipeVars, InCall, AtLoop, OpenPc, ReadPc, WritePc
  <2>2. \E s \in OpenPc : pc' = [pc EXCEPT ![p] = s]
    BY <1>10 DEF Read, Goto, OpenPc, ReadPc, WritePc
  <2>3. \A f \in End, r \in Proc : pc'[r] \in CloserPc(f) <=> pc[r] \in CloserPc(f)
    BY <2>1, <2>2, ClosersKept DEF IInv
  <2> QED BY <1>a, <2>1, <2>3
<1>11. ASSUME NEW p \in Proc, PipeRead(p) PROVE OpenInv'
  <2>1. UNCHANGED <<open, freed, ref>> /\ pc[p] \in OpenPc
    BY <1>11 DEF PipeRead, pipeVars, InCall, AtLoop, OpenPc, ReadPc, WritePc
  <2>2. \E s \in OpenPc : pc' = [pc EXCEPT ![p] = s] \/ pc' = Woken([pc EXCEPT ![p] = s], "write sleep", "write wake")
    BY <1>11 DEF PipeRead, Goto, OpenPc, ReadPc, WritePc
  <2>3. \A f \in End, r \in Proc : pc'[r] \in CloserPc(f) <=> pc[r] \in CloserPc(f)
    BY <2>1, <2>2, ClosersKept DEF IInv
  <2> QED BY <1>a, <2>1, <2>3
<1>12. ASSUME NEW p \in Proc, NEW n \in 1..MaxN, Write(p, n) PROVE OpenInv'
  <2>1. UNCHANGED <<open, freed, ref>> /\ pc[p] \in OpenPc
    BY <1>12 DEF Write, pipeVars, InCall, AtLoop, OpenPc, ReadPc, WritePc
  <2>2. \E s \in OpenPc : pc' = [pc EXCEPT ![p] = s]
    BY <1>12 DEF Write, Goto, OpenPc, ReadPc, WritePc
  <2>3. \A f \in End, r \in Proc : pc'[r] \in CloserPc(f) <=> pc[r] \in CloserPc(f)
    BY <2>1, <2>2, ClosersKept DEF IInv
  <2> QED BY <1>a, <2>1, <2>3
<1>13. ASSUME NEW p \in Proc, WriteLock(p) PROVE OpenInv'
  <2>1. UNCHANGED <<open, freed, ref>> /\ pc[p] \in OpenPc
    BY <1>13 DEF WriteLock, pipeVars, InCall, AtLoop, OpenPc, ReadPc, WritePc
  <2>2. \E s \in OpenPc : pc' = [pc EXCEPT ![p] = s]
    BY <1>13 DEF WriteLock, Goto, OpenPc, ReadPc, WritePc
  <2>3. \A f \in End, r \in Proc : pc'[r] \in CloserPc(f) <=> pc[r] \in CloserPc(f)
    BY <2>1, <2>2, ClosersKept DEF IInv
  <2> QED BY <1>a, <2>1, <2>3
<1>14. ASSUME NEW p \in Proc, WriteAbandon(p) PROVE OpenInv'
  <2>1. UNCHANGED <<open, freed, ref>> /\ pc[p] \in OpenPc
    BY <1>14 DEF WriteAbandon, pipeVars, InCall, AtLoop, OpenPc, ReadPc, WritePc
  <2>2. \E s \in OpenPc : pc' = [pc EXCEPT ![p] = s]
    BY <1>14 DEF WriteAbandon, Goto, OpenPc, ReadPc, WritePc
  <2>3. \A f \in End, r \in Proc : pc'[r] \in CloserPc(f) <=> pc[r] \in CloserPc(f)
    BY <2>1, <2>2, ClosersKept DEF IInv
  <2> QED BY <1>a, <2>1, <2>3
<1>15. ASSUME NEW p \in Proc, WriteSleep(p) PROVE OpenInv'
  <2>1. UNCHANGED <<open, freed, ref>> /\ pc[p] \in OpenPc
    BY <1>15 DEF WriteSleep, pipeVars, InCall, AtLoop, OpenPc, ReadPc, WritePc
  <2>2. \E s \in OpenPc : pc' = Woken([pc EXCEPT ![p] = s], "read sleep", "read")
    BY <1>15 DEF WriteSleep, Goto, OpenPc, ReadPc, WritePc
  <2>3. \A f \in End, r \in Proc : pc'[r] \in CloserPc(f) <=> pc[r] \in CloserPc(f)
    BY <2>1, <2>2, ClosersKept DEF IInv
  <2> QED BY <1>a, <2>1, <2>3
<1>16. ASSUME NEW p \in Proc, WriteByte(p) PROVE OpenInv'
  BY <1>16, <1>a DEF WriteByte
<1>17. ASSUME NEW p \in Proc, WriteReturn(p) PROVE OpenInv'
  <2>1. UNCHANGED <<open, freed, ref>> /\ pc[p] \in OpenPc
    BY <1>17 DEF WriteReturn, pipeVars, InCall, AtLoop, OpenPc, ReadPc, WritePc
  <2>2. \E s \in OpenPc : pc' = Woken([pc EXCEPT ![p] = s], "read sleep", "read")
    BY <1>17 DEF WriteReturn, Goto, OpenPc, ReadPc, WritePc
  <2>3. \A f \in End, r \in Proc : pc'[r] \in CloserPc(f) <=> pc[r] \in CloserPc(f)
    BY <2>1, <2>2, ClosersKept DEF IInv
  <2> QED BY <1>a, <2>1, <2>3
<1>18. CASE UNCHANGED vars
  BY <1>18, <1>a DEF vars, pipeVars
<1> QED BY <1>1, <1>2, <1>3, <1>4, <1>5, <1>6, <1>7, <1>8, <1>9, <1>10, <1>11, <1>12, <1>13,
          <1>14, <1>15, <1>16, <1>17, <1>18
       DEF Next, Call, KernelStep, WriteStep, ExitStep

\* Who changes what a process sleeps for wakes it.
LEMMA SleepStep ==
  ASSUME IInv, IInv', SleepInv, ~Smp, [Next]_vars
  PROVE  SleepInv'
<1>1. ASSUME NEW p \in Proc, PipeAlloc(p) PROVE SleepInv'
  BY <1>1 DEF PipeAlloc, InCall, Runs, NoFds, SleepInv, OpenInv, LockInv, CallInv, TypeInv, IInv,
              Empty, Full, State, CloserPc, Closing, ExitClosing, ReadPc, WritePc, End
<1>2. ASSUME NEW p \in Proc, NEW e \in End, Dup(p, e) PROVE SleepInv'
  BY <1>2 DEF Dup, InCall, Runs, pipeVars, SleepInv, IInv, Empty, Full
<1>3. ASSUME NEW p \in Proc, NEW q \in Proc, Fork(p, q) PROVE SleepInv'
  BY <1>3 DEF Fork, InCall, Runs, Goto, pipeVars, SleepInv, TypeInv, IInv, Empty, Full
<1>4. ASSUME NEW p \in Proc, NEW e \in End, Close(p, e) PROVE SleepInv'
  <2>1. /\ CloseFile(p, e, Closing) /\ pc[p] \in {"run", "exit"}
        /\ UNCHANGED <<pipeVars, lock, killed>>
    BY <1>4 DEF Close, InCall
  <2>2. /\ \A q \in Proc \ {p} : pc'[q] = pc[q]
        /\ pc'[p] \in CloserPc(e) \/ pc'[p] = pc[p]
    BY <2>1, CloseFileIs DEF IInv
  <2>3. pc'[p] \notin {"read sleep", "write sleep"}
    BY <2>1, <2>2, Closers DEF OpenPc, ReadPc, WritePc
  <2> QED BY <2>1, <2>2, <2>3 DEF SleepInv, Empty, Full, pipeVars
<1>5. ASSUME NEW p \in Proc, NEW e \in End, PipeClose(p, e) PROVE SleepInv'
  <2>1. /\ pc[p] \in CloserPc(e) /\ UNCHANGED <<nread, nwrite, lock, killed>> /\ lock = None
        /\ open' = [open EXCEPT ![e] = FALSE]
        /\ \E s \in {"run", "exit"} : pc' = CloseWakes(e, [pc EXCEPT ![p] = s])
    BY <1>5 DEF PipeClose, CloserPc
  <2>2. pc \in [Proc -> State] /\ open \in [End -> BOOLEAN]
    BY DEF IInv, TypeInv
  <2>3. ASSUME NEW q \in Proc
        PROVE  /\ pc'[q] = "read sleep" => pc[q] = "read sleep" /\ e # "write"
               /\ pc'[q] = "write sleep" => pc[q] = "write sleep" /\ e = "write"
    BY <2>1, <2>2 DEF CloseWakes, Woken
  <2>4. \A f \in End : f # e => open'[f] = open[f]
    BY <2>1, <2>2
  <2>5. "read" \in End /\ "write" \in End /\ (e = "read" \/ e = "write")
    BY DEF End
  <2> QED BY <2>1, <2>3, <2>4, <2>5 DEF SleepInv, Empty, Full
<1>6. ASSUME NEW p \in Proc, Exit(p) PROVE SleepInv'
  BY <1>6 DEF Exit, Runs, Goto, pipeVars, SleepInv, TypeInv, IInv, Empty, Full
<1>7. ASSUME NEW p \in Proc, NEW e \in End, ExitClose(p, e) PROVE SleepInv'
  <2>1. /\ CloseFile(p, e, ExitClosing) /\ pc[p] \in {"run", "exit"}
        /\ UNCHANGED <<pipeVars, lock, killed>>
    BY <1>7 DEF ExitClose, InCall
  <2>2. /\ \A q \in Proc \ {p} : pc'[q] = pc[q]
        /\ pc'[p] \in CloserPc(e) \/ pc'[p] = pc[p]
    BY <2>1, CloseFileIs DEF IInv
  <2>3. pc'[p] \notin {"read sleep", "write sleep"}
    BY <2>1, <2>2, Closers DEF OpenPc, ReadPc, WritePc
  <2> QED BY <2>1, <2>2, <2>3 DEF SleepInv, Empty, Full, pipeVars
<1>8. ASSUME NEW p \in Proc, Exited(p) PROVE SleepInv'
  BY <1>8 DEF Exited, Runs, Goto, pipeVars, SleepInv, TypeInv, IInv, Empty, Full
<1>9. ASSUME NEW p \in Proc, Kill(p) PROVE SleepInv'
  BY <1>9 DEF Kill, Goto, Roused, pipeVars, SleepInv, TypeInv, IInv, Empty, Full
<1>10. ASSUME NEW p \in Proc, NEW n \in 1..MaxN, Read(p, n) PROVE SleepInv'
  BY <1>10 DEF Read, InCall, Runs, Goto, pipeVars, SleepInv, TypeInv, IInv, Empty, Full
<1>11. ASSUME NEW p \in Proc, PipeRead(p) PROVE SleepInv'
  <2>1. pc[p] = "read" /\ UNCHANGED <<open, nwrite, lock, killed>> /\ lock = None /\ pc \in [Proc -> State]
    BY <1>11 DEF PipeRead, IInv, TypeInv
  <2>2. CASE Empty /\ open["write"]
    <3>1. UNCHANGED nread /\ \E s \in {"run", "read sleep"} : pc' = [pc EXCEPT ![p] = s]
      BY <1>11, <2>2 DEF PipeRead, Goto
    <3>2. \A q \in Proc : /\ pc'[q] = "read sleep" => pc[q] = "read sleep" \/ q = p
                          /\ pc'[q] = "write sleep" => pc[q] = "write sleep"
      BY <2>1, <3>1
    <3> QED BY <2>1, <2>2, <3>1, <3>2 DEF SleepInv, Empty, Full
  <2>3. CASE ~(Empty /\ open["write"])
    <3>1. pc' = Woken([pc EXCEPT ![p] = "run"], "write sleep", "write wake")
      BY <1>11, <2>3 DEF PipeRead
    <3>2. \A q \in Proc : pc'[q] # "write sleep" /\ (pc'[q] = "read sleep" => pc[q] = "read sleep")
      BY <2>1, <3>1 DEF Woken
    <3>3. \A q \in Proc : pc[q] # "read sleep"
      BY <2>1, <2>3 DEF SleepInv
    <3> QED BY <3>2, <3>3 DEF SleepInv
  <2> QED BY <2>2, <2>3
<1>12. ASSUME NEW p \in Proc, NEW n \in 1..MaxN, Write(p, n) PROVE SleepInv'
  BY <1>12 DEF Write, InCall, Runs, Goto, pipeVars, SleepInv, TypeInv, IInv, Empty, Full
<1>13. ASSUME NEW p \in Proc, WriteLock(p) PROVE SleepInv'
  BY <1>13 DEF WriteLock, Goto, pipeVars, SleepInv, TypeInv, IInv, Empty, Full
<1>14. ASSUME NEW p \in Proc, WriteAbandon(p) PROVE SleepInv'
  BY <1>14 DEF WriteAbandon, AtLoop, Goto, pipeVars, SleepInv, TypeInv, IInv, Empty, Full
<1>15. ASSUME NEW p \in Proc, WriteSleep(p) PROVE SleepInv'
  BY <1>15 DEF WriteSleep, AtLoop, Woken, pipeVars, SleepInv, IInv, Empty, Full
<1>16. ASSUME NEW p \in Proc, WriteByte(p) PROVE SleepInv'
  BY <1>16, ConstAssumption, ZenonT(60) DEF WriteByte, AtLoop, SleepInv, OpenInv, LockInv, CallInv, TypeInv,
                                IInv, Empty, Full, State, CloserPc, Closing, ExitClosing, ReadPc,
                                WritePc, End
<1>17. ASSUME NEW p \in Proc, WriteReturn(p) PROVE SleepInv'
  BY <1>17 DEF WriteReturn, Woken, pipeVars, SleepInv, TypeInv, IInv, Empty, Full
<1>18. CASE UNCHANGED vars
  BY <1>18 DEF vars, pipeVars, SleepInv, IInv, Empty, Full
<1> QED BY <1>1, <1>2, <1>3, <1>4, <1>5, <1>6, <1>7, <1>8, <1>9, <1>10, <1>11, <1>12, <1>13,
          <1>14, <1>15, <1>16, <1>17, <1>18
       DEF Next, Call, KernelStep, WriteStep, ExitStep

\* The ring.
LEMMA RingInvStep ==
  ASSUME IInv, [Next]_vars
  PROVE  RingInv'
<1>1. TypeInv' /\ RingStep
  BY TypeStep, RingSteps DEF IInv
<1> QED BY <1>1, RingKept DEF IInv

----------------------------------------------------------------------------
(* Theorems *)

\* The strengthening holds, on any number of CPUs.
THEOREM Invariance == Spec => []IInv
<1>1. Init => IInv
  <2> SUFFICES ASSUME Init PROVE IInv
    OBVIOUS
  <2>1. Sizes /\ 0 \in Uint /\ NOFILE \in Nat /\ First \in Proc
    BY CodeSizes, ConstAssumption DEF Sizes, Uint
  <2>2. TypeInv
    BY <2>1 DEF Init, TypeInv, NoFds, State
  <2>3. \A e \in End : ref[e] = 0 /\ \A p \in Proc : fds[p][e] = 0
    BY DEF Init, NoFds
  <2>4. RefInv
    <3>1. \A e \in End : ref[e] = Cardinality(Fds(e))
      BY <2>2, <2>3, FdsFacts
    <3> QED BY <3>1 DEF Init, RefInv
  <2>5. \A p \in Proc : pc[p] \in {"run", "unused"}
    BY DEF Init
  <2>6. CallInv
    BY <2>5 DEF CallInv, ReadPc, WritePc
  <2>7. OpenInv
    <3>1. \A e \in End, p \in Proc : pc[p] \notin CloserPc(e)
      BY <2>5, Closers DEF OpenPc
    <3>2. freed /\ \A e \in End : ~open[e]
      BY DEF Init
    <3> QED BY <2>3, <3>1, <3>2 DEF OpenInv
  <2>8. RingInv
    <3>1. Available = 0
      BY <2>2, AvailableIs DEF Init, Empty
    <3> QED BY <2>1, <3>1 DEF RingInv, RingOrder, Sizes
  <2>9. LockInv
    BY <2>5, ConstAssumption DEF Init, LockInv
  <2> QED BY <2>2, <2>4, <2>6, <2>7, <2>8, <2>9 DEF IInv
<1>2. IInv /\ [Next]_vars => IInv'
  BY TypeStep, RefStep, CallStep, OpenStep, RingInvStep, LockStep DEF IInv
<1> QED BY <1>1, <1>2, PTL DEF Spec

\* The bytes in the ring are the ones that were written and not yet read, in order, also when the
\* counters wrap: whatever PIPESIZE is, as long as it divides the range of a uint.
THEOREM RingCorrect == Spec => []RingOrder
<1>1. IInv => RingOrder
  BY DEF IInv, RingInv
<1> QED BY <1>1, Invariance, PTL

\* The page of the pipe is freed by the last process that has an end open, and not before.
LEMMA KeptState ==
  ASSUME IInv
  PROVE  PipeKept
<1>1. \A e \in End : ref[e] > 0 <=> \E p \in Proc : fds[p][e] > 0
  BY RefFacts DEF IInv
<1>2. \A e \in End : open[e] <=> ref[e] > 0 \/ \E p \in Proc : pc[p] \in CloserPc(e)
  BY DEF IInv, OpenInv
<1>3. freed <=> \A e \in End : ~open[e]
  BY DEF IInv, OpenInv
<1>4. ASSUME NEW p \in Proc, pc[p] \notin {"run", "exit", "unused"} PROVE ~freed
  <2>1. \/ pc[p] \in ReadPc \/ pc[p] \in WritePc
        \/ \E e \in End : pc[p] \in CloserPc(e)
    <3>1. pc[p] \in State
      BY DEF IInv, TypeInv
    <3> QED BY <1>4, <3>1, Closers DEF OpenPc
  <2>2. \E e \in End : open[e]
    <3>1. CASE pc[p] \in ReadPc
      BY <1>1, <1>2, <3>1 DEF IInv, CallInv, End
    <3>2. CASE pc[p] \in WritePc
      BY <1>1, <1>2, <3>2 DEF IInv, CallInv, End
    <3>3. CASE \E e \in End : pc[p] \in CloserPc(e)
      BY <1>2, <3>3
    <3> QED BY <2>1, <3>1, <3>2, <3>3
  <2> QED BY <1>3, <2>2
<1>5. ASSUME ~freed PROVE \E p \in Proc : fds[p] # NoFds \/ pc[p] \notin {"run", "exit", "unused"}
  <2>1. PICK e \in End : open[e]
    BY <1>3, <1>5
  <2>2. CASE ref[e] > 0
    <3>1. PICK p \in Proc : fds[p][e] > 0
      BY <1>1, <2>2
    <3> QED BY <3>1 DEF NoFds
  <2>3. CASE \E p \in Proc : pc[p] \in CloserPc(e)
    BY <2>3, Closers DEF OpenPc
  <2> QED BY <1>2, <2>1, <2>2, <2>3
<1> QED BY <1>1, <1>2, <1>4, <1>5 DEF PipeKept

\* No process reads, writes or closes a pipe whose page has been freed, and no page is kept that
\* nobody can reach.
THEOREM KeptCorrect == Spec => []PipeKept
BY Invariance, KeptState, PTL

\* On one CPU, as the Makefile starts the kernel, no reader and no writer sleeps once it could go on.
\* (On several a writer that is killed between two bytes leaves the readers asleep.)
THEOREM SleepersCorrect == ~Smp /\ Spec => []SleepersJustified
<1>1. Init => SleepInv
  BY DEF Init, SleepInv
<1>2. ~Smp /\ IInv /\ IInv' /\ SleepInv /\ [Next]_vars => SleepInv'
  BY SleepStep
<1>3. SleepInv => SleepersJustified
  BY DEF SleepInv, SleepersJustified
<1>4. CASE Smp
  BY <1>4, PTL
<1>5. CASE ~Smp
  <2>1. IInv /\ IInv' /\ SleepInv /\ [Next]_vars => SleepInv'
    BY <1>2, <1>5
  <2> QED BY <1>1, <1>3, <2>1, Invariance, PTL DEF Spec
<1> QED BY <1>4, <1>5
=============================================================================
