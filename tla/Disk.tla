-------------------------------- MODULE Disk --------------------------------
(* The buffer cache (bio.c), its sleep locks (sleeplock.c) and the virtio disk driver               *)
(* (virtio_disk.c) with the device. What a spin lock protects is one action; the device runs at     *)
(* any time, also between two turns of the interrupt handler's loop. kill() makes a sleeping        *)
(* process run, so every sleep may end without its event.                                           *)
EXTENDS Naturals, Sequences, FiniteSets, FiniteSetsExt, SequencesExt

CONSTANTS Proc, Block,
          NBUF,      \* buffers of the cache
          NUM,       \* descriptors of the queue
          None

Buf     == 1..NBUF
Desc    == 0..NUM - 1
Request == [b : Buf, write : BOOLEAN, sector : Block]

ASSUME ConstAssumption == /\ NBUF \in Nat \ {0} /\ NUM \in Nat /\ NUM >= 3
                          /\ IsFiniteSet(Proc)
                          /\ None \notin Proc \cup Block /\ None \notin Request

VARIABLES lru,        \* bcache.head's list of buffers, most recently used first
          blockno, valid, refcnt,
          data,       \* whether a buffer holds what was last written to its block
          own,        \* b->disk: the device owns the buffer
          locked,     \* the process that holds b->lock, or None
          pc, want, cur, write,   \* of each process: its place, block, buffer and kind of transfer
          free, next, info,       \* descriptors: free ones, chain, request of a head
          avail, used,            \* the two rings: the entries between the reader's and the writer's index
          taken, irq, \* the device: requests at work, interrupt status
          intr,       \* "off", or "loop" while virtio_disk_intr() holds vdisk_lock
          platter,    \* whether the disk holds what was last written to a block
          panicked

cacheVars == <<lru, blockno, valid, refcnt>>
queueVars == <<free, next, info>>
devVars   == <<avail, used, taken, platter>>
vars == <<cacheVars, data, own, locked, pc, want, cur, write, queueVars, devVars, irq, intr, panicked>>

Init ==
  /\ lru = [i \in 1..NBUF |-> NBUF + 1 - i]     \* binit() puts each buffer in front
  /\ blockno = [i \in Buf |-> None] /\ valid = [i \in Buf |-> FALSE]
  /\ refcnt = [i \in Buf |-> 0] /\ data = [i \in Buf |-> FALSE]
  /\ own = [i \in Buf |-> FALSE] /\ locked = [i \in Buf |-> None]
  /\ pc = [p \in Proc |-> "idle"] /\ want = [p \in Proc |-> None]
  /\ cur = [p \in Proc |-> 1] /\ write = [p \in Proc |-> FALSE]
  /\ free = Desc /\ next = [d \in Desc |-> 0] /\ info = [d \in Desc |-> None]
  /\ avail = <<>> /\ used = <<>> /\ taken = {} /\ irq = FALSE /\ intr = "off"
  /\ platter = [b \in Block |-> TRUE] /\ panicked = FALSE

Goto(p, s) == pc' = [pc EXCEPT ![p] = s]

\* wakeup() of the processes asleep in state s for which who holds; they go on in state t.
Wake(f, s, t, who(_)) == [p \in Proc |-> IF f[p] = s /\ who(p) THEN t ELSE f[p]]

\* kill() of a process that sleeps (proc.c): it runs and tests its condition again.
Awake == [lockSleep |-> "lock", descSleep |-> "rw", ioSleep |-> "io"]

Kill(p) ==
  /\ ~panicked /\ pc[p] \in DOMAIN Awake
  /\ Goto(p, Awake[pc[p]])
  /\ UNCHANGED <<cacheVars, data, own, locked, want, cur, write, queueVars, devVars, irq,
                 intr, panicked>>

----------------------------------------------------------------------------
(* Buffer cache *)

Cached(b) == {i \in Buf : blockno[i] = b}

Unused == {i \in 1..NBUF : refcnt[lru[i]] = 0}

StillValid(i) == valid                  \* slip: b->valid is not cleared
Invalid(i) == [valid EXCEPT ![i] = FALSE]

\* bget(): under bcache.lock. A recycled buffer still has the data of another block.
Bget(p, b) ==
  /\ ~panicked /\ pc[p] = "idle"
  /\ want' = [want EXCEPT ![p] = b]
  /\ IF Cached(b) # {}
       THEN LET i == lru[Min({k \in 1..NBUF : blockno[lru[k]] = b})] IN
            /\ refcnt' = [refcnt EXCEPT ![i] = @ + 1]
            /\ cur' = [cur EXCEPT ![p] = i]
            /\ Goto(p, "lock")
            /\ UNCHANGED <<blockno, valid, data, panicked>>
       ELSE IF Unused # {}
       THEN LET i == lru[Max(Unused)] IN
            /\ blockno' = [blockno EXCEPT ![i] = b]
            /\ valid' = Invalid(i)
            /\ data' = [data EXCEPT ![i] = FALSE]
            /\ refcnt' = [refcnt EXCEPT ![i] = 1]
            /\ cur' = [cur EXCEPT ![p] = i]
            /\ Goto(p, "lock")
            /\ UNCHANGED panicked
       ELSE panicked' = TRUE /\ UNCHANGED <<blockno, valid, refcnt, data, cur, pc>>
  /\ UNCHANGED <<lru, own, locked, write, queueVars, devVars, irq, intr>>

\* A turn of acquiresleep(), then the rest of bread().
AcquireSleep(p) ==
  LET i == cur[p] IN
  /\ ~panicked /\ pc[p] = "lock"
  /\ IF locked[i] # None THEN Goto(p, "lockSleep") /\ UNCHANGED <<locked, write>>
     ELSE /\ locked' = [locked EXCEPT ![i] = p]
          /\ write' = [write EXCEPT ![p] = FALSE]
          /\ Goto(p, IF valid[i] THEN "have" ELSE "rw")
  /\ UNCHANGED <<cacheVars, data, own, want, cur, queueVars, devVars, irq, intr, panicked>>

\* The holder changes the data and calls bwrite().
Bwrite(p) ==
  /\ ~panicked /\ pc[p] = "have"
  /\ data' = [i \in Buf |-> i = cur[p] \/ (data[i] /\ blockno[i] # want[p])]
  /\ platter' = [platter EXCEPT ![want[p]] = FALSE]
  /\ write' = [write EXCEPT ![p] = TRUE]
  /\ Goto(p, "rw")
  /\ UNCHANGED <<cacheVars, own, locked, want, cur, queueVars, avail, used, taken, irq, intr, panicked>>

\* brelse() up to releasesleep(): the sleepers on the lock wake up.
ReleaseSleep(p) ==
  LET on(q) == cur[q] = cur[p] IN
  /\ ~panicked /\ pc[p] = "have"
  /\ locked' = [locked EXCEPT ![cur[p]] = None]
  /\ pc' = Wake([pc EXCEPT ![p] = "release"], "lockSleep", "lock", on)
  /\ UNCHANGED <<cacheVars, data, own, want, cur, write, queueVars, devVars, irq, intr, panicked>>

ToFront(i) == Cons(i, RemoveFirst(lru, i))

\* The rest of brelse(), under bcache.lock.
Brelse(p) ==
  LET i == cur[p] IN
  /\ ~panicked /\ pc[p] = "release"
  /\ refcnt' = [refcnt EXCEPT ![i] = @ - 1]
  /\ lru' = IF refcnt[i] = 1 THEN ToFront(i) ELSE lru
  /\ want' = [want EXCEPT ![p] = None] /\ cur' = [cur EXCEPT ![p] = 1]
  /\ write' = [write EXCEPT ![p] = FALSE]
  /\ Goto(p, "idle")
  /\ UNCHANGED <<blockno, valid, data, own, locked, queueVars, devVars, irq, intr, panicked>>

----------------------------------------------------------------------------
(* virtio driver: vdisk_lock is free, so the interrupt handler is not in its loop *)

Nth(k) == CHOOSE d \in free : Cardinality({e \in free : e < d}) = k - 1

\* alloc3_desc() finds three descriptors: virtio_disk_rw() builds the chain, gives its head to the
\* device and sleeps.
Submit(p) ==
  /\ ~panicked /\ intr = "off" /\ pc[p] = "rw" /\ Cardinality(free) >= 3
  /\ free' = free \ {Nth(1), Nth(2), Nth(3)}
  /\ next' = [next EXCEPT ![Nth(1)] = Nth(2), ![Nth(2)] = Nth(3), ![Nth(3)] = 0]
  /\ info' = [info EXCEPT ![Nth(1)] = [b |-> cur[p], write |-> write[p], sector |-> blockno[cur[p]]]]
  /\ own' = [own EXCEPT ![cur[p]] = TRUE]
  /\ avail' = Append(avail, Nth(1))
  /\ Goto(p, "ioSleep")
  /\ UNCHANGED <<cacheVars, data, locked, want, cur, write, used, taken, platter, irq, intr, panicked>>

\* alloc3_desc() fails: free_desc() of the ones it took, if any, wakes the others that wait.
NoDesc(p) ==
  LET others(q) == free # {} /\ q # p IN
  /\ ~panicked /\ intr = "off" /\ pc[p] = "rw" /\ Cardinality(free) < 3
  /\ pc' = Wake([pc EXCEPT ![p] = "descSleep"], "descSleep", "rw", others)
  /\ UNCHANGED <<cacheVars, data, own, locked, want, cur, write, queueVars, devVars, irq, intr, panicked>>

HeadOf(i) == CHOOSE d \in Desc : info[d] # None /\ info[d].b = i

Chain(d) == {d, next[d], next[next[d]]}

HeadOnly(d) == {d}                      \* slip: the rest of the chain is not freed
Freed(d) == Chain(d)

\* A turn of "while(b->disk == 1) sleep", then free_chain() and the return to bread() or bwrite().
AwaitIo(p) ==
  LET i == cur[p]
      all(q) == TRUE IN
  /\ ~panicked /\ intr = "off" /\ pc[p] = "io"
  /\ IF own[i] THEN Goto(p, "ioSleep") /\ UNCHANGED <<valid, free, next, info>>
     ELSE /\ info' = [info EXCEPT ![HeadOf(i)] = None]
          /\ free' = free \cup Freed(HeadOf(i))
          /\ next' = [d \in Desc |-> IF d \in Chain(HeadOf(i)) THEN 0 ELSE next[d]]
          /\ valid' = [valid EXCEPT ![i] = TRUE]
          /\ pc' = Wake([pc EXCEPT ![p] = "have"], "descSleep", "rw", all)
  /\ UNCHANGED <<lru, blockno, refcnt, data, own, locked, want, cur, write, devVars, irq, intr, panicked>>

\* virtio_disk_intr() acknowledges the interrupt before it looks at the used ring.
IntrAck ==
  /\ ~panicked /\ intr = "off" /\ irq
  /\ irq' = FALSE /\ intr' = "loop"
  /\ UNCHANGED <<cacheVars, data, own, locked, pc, want, cur, write, queueVars, devVars, panicked>>

OneOnly == intr' = "off" /\ irq' = irq        \* slip: one completion for each interrupt
LookAgain == UNCHANGED <<irq, intr>>

\* A turn of its loop, or the end of it.
IntrLoop ==
  LET i == info[Head(used)].b
      on(q) == cur[q] = i IN
  /\ ~panicked /\ intr = "loop"
  /\ IF used = <<>> THEN intr' = "off" /\ UNCHANGED <<own, pc, used, irq>>
     ELSE /\ own' = [own EXCEPT ![i] = FALSE]
          /\ pc' = Wake(pc, "ioSleep", "io", on)
          /\ used' = Tail(used)
          /\ LookAgain
  /\ UNCHANGED <<cacheVars, data, locked, want, cur, write, queueVars, avail, taken, platter, panicked>>

----------------------------------------------------------------------------
(* The device (external): takes requests in order, finishes them in any order *)

DevTake ==
  /\ ~panicked /\ avail # <<>>
  /\ taken' = taken \cup {Head(avail)}
  /\ avail' = Tail(avail)
  /\ UNCHANGED <<cacheVars, data, own, locked, pc, want, cur, write, queueVars, used, platter, irq, intr, panicked>>

DevDone(d) ==
  LET r == info[d] IN
  /\ ~panicked /\ d \in taken
  /\ LET same == blockno[r.b] = r.sector IN
     IF r.write THEN platter' = [platter EXCEPT ![r.sector] = same /\ data[r.b]] /\ UNCHANGED data
                ELSE data' = [data EXCEPT ![r.b] = same /\ platter[r.sector]] /\ UNCHANGED platter
  /\ used' = Append(used, d)
  /\ taken' = taken \ {d}
  /\ irq' = TRUE
  /\ UNCHANGED <<cacheVars, own, locked, pc, want, cur, write, queueVars, avail, intr, panicked>>

----------------------------------------------------------------------------
\* What a process does once it has called bread(), bwrite() or brelse().
Step(p) == AcquireSleep(p) \/ Brelse(p) \/ Submit(p) \/ NoDesc(p) \/ AwaitIo(p)

Device == DevTake \/ \E d \in Desc : DevDone(d)

Next == \/ \E p \in Proc, b \in Block : Bget(p, b)
        \/ \E p \in Proc : Step(p) \/ Bwrite(p) \/ ReleaseSleep(p) \/ Kill(p)
        \/ IntrAck \/ IntrLoop
        \/ Device

Spec == Init /\ [][Next]_vars

----------------------------------------------------------------------------
(* Properties *)

\* A process that has a buffer has it alone, it is the buffer of the block it asked for, and it holds
\* what was last written to that block, however often buffers were recycled (bio.c:58-102).
Coherent ==
  \A p \in Proc : pc[p] = "have" =>
    /\ blockno[cur[p]] = want[p]
    /\ Cached(want[p]) = {cur[p]}
    /\ data[cur[p]]
    /\ \A q \in Proc \ {p} : pc[q] = "have" => cur[q] # cur[p]

\* Every descriptor is free or in the chain of one request, and a process sleeps for descriptors only
\* while there are too few: no chain is leaked or freed twice, no wakeup is lost (virtio_disk.c:155-205).
DescriptorsAccounted ==
  LET heads == {d \in Desc : info[d] # None} IN
  /\ \A d \in heads : Cardinality(Chain(d)) = 3 /\ Chain(d) \cap free = {}
  /\ \A d, e \in heads : d # e => Chain(d) \cap Chain(e) = {}
  /\ NUM = Cardinality(free) + 3 * Cardinality(heads)
  /\ (\E p \in Proc : pc[p] = "descSleep") => Cardinality(free) < 3

\* A process sleeps for a transfer only while its request is with the device or reported, and what
\* is reported has an interrupt coming: however interrupts and completions race, and in whatever order
\* the device finishes, no completion is missed (virtio_disk.c:301-327).
NoLostCompletion ==
  /\ \A p \in Proc : pc[p] \in {"ioSleep", "io"} =>
       \/ ~own[cur[p]] /\ pc[p] = "io"
       \/ /\ own[cur[p]]
          /\ HeadOf(cur[p]) \in ToSet(avail) \cup taken \cup ToSet(used)
  /\ used # <<>> => irq \/ intr = "loop"
=============================================================================
