----------------------------- MODULE LogProofs -----------------------------
(* The log implements the atomic disk, for all processes, blocks, log sizes and numbers of           *)
(* operations and crashes.                                                                           *)
EXTENDS Log, FiniteSetTheorems, TLAPS

CommitPc == {"write_log", "write_head", "install", "clear", "done"}

Active == {p \in Proc : pc[p] = "op"}

\* install_trans() has copied entry i of the log to its home.
Installed(i) == i < tail /\ \E p \in Proc : pc[p] = "install"

\* The home blocks have what the log on disk has, up to entry n.
HomeHasLog(n) == \A i \in 1..n : disk[head[i]] = logd[i]

\* The log on disk has what the cache has, from entry m up to entry n.
LogHasCache(m, n) == \A i \in m..n : logd[i] = cache[lh[i]]

Distinct(s) == \A i, j \in 1..Len(s) : s[i] = s[j] => i = j

\* A header names each block once, and fits the log.
HeaderInv == /\ Distinct(lh) /\ Len(lh) <= LOGSIZE
             /\ Distinct(head) /\ Len(head) <= LOGSIZE

\* Operations are counted.
ActiveInv == outstanding = Cardinality(Active)

\* One process commits, and not while an operation is in progress.
CountInv ==
  /\ committing => outstanding = 0
  /\ \A p \in Proc : pc[p] \in CommitPc => committing /\ \A q \in Proc : pc[q] \in CommitPc => q = p
  /\ panicked => outstanding > 0
  /\ outstanding = 0 /\ ~committing /\ boot = "up" => lh = <<>>

\* A block that is not in the log, or has been installed, is in the cache as it is on disk; the others
\* are pinned there.
BufferInv ==
  boot = "up" /\ ~panicked =>
    /\ \A b \in Block : (\A i \in 1..Len(lh) : lh[i] = b => Installed(i))
                          => cache[b] \in {NotCached, disk[b]}
    /\ \A i \in 1..Len(lh) : ~Installed(i) => cache[lh[i]] # NotCached /\ pins[lh[i]] > 0

\* How far the commit has come.
CommitInv ==
  boot = "up" =>
    /\ (\A p \in Proc : pc[p] \notin {"install", "clear"}) => head = <<>>
    /\ \A p \in Proc :
         /\ pc[p] \in {"write_log", "write_head", "install"} => lh # <<>>
         /\ pc[p] \in {"clear", "done"} => lh = <<>>
         /\ pc[p] \in {"write_log", "install"} => tail \in 1..Len(lh)
         /\ pc[p] = "write_log" => LogHasCache(1, tail - 1)
         /\ pc[p] = "write_head" => LogHasCache(1, Len(lh))
         /\ pc[p] = "install" => /\ head = lh
                                 /\ HomeHasLog(tail - 1)
                                 /\ LogHasCache(tail, Len(lh))
         /\ pc[p] = "clear" => HomeHasLog(Len(head))

\* How far recovery has come; nothing else runs.
BootInv ==
  boot # "up" =>
    /\ ~committing /\ ~panicked /\ \A p \in Proc : pc[p] = "idle"
    /\ \A b \in Block : cache[b] \in {NotCached, disk[b]}
    /\ boot = "read" => tail = 1
    /\ boot = "install" => lh = head /\ tail \in 1..Len(lh) /\ HomeHasLog(tail - 1)
    /\ boot = "clear" => lh = <<>> /\ HomeHasLog(Len(head))

IInv == TypeOK /\ HeaderInv /\ ActiveInv /\ CountInv /\ BufferInv /\ CommitInv /\ BootInv

----------------------------------------------------------------------------
(* Types and headers *)

\* The count of the operations in progress is right about none and some.
LEMMA ActiveFacts ==
  ASSUME IInv
  PROVE  /\ IsFiniteSet(Active)
         /\ outstanding \in Nat
         /\ \A p \in Proc : pc[p] = "op" => outstanding > 0
<1>1. IsFiniteSet(Active)
  BY ConstAssumption, FS_Subset DEF Active
<1>2. outstanding \in Nat /\ outstanding = Cardinality(Active)
  BY DEF IInv, TypeOK, ActiveInv
<1>3. ASSUME NEW p \in Proc, pc[p] = "op" PROVE outstanding > 0
  <2>1. Active # {}
    BY <1>3 DEF Active
  <2>2. Cardinality(Active) # 0
    BY <1>1, <2>1, FS_EmptySet
  <2> QED BY <1>2, <2>2
<1> QED BY <1>1, <1>2, <1>3

\* Types.
LEMMA TypeStep ==
  ASSUME IInv, [Next]_vars
  PROVE  TypeOK'
<1> USE ConstAssumption DEF Running, onDisk, counts
<1>a. lh \in Seq(Block) /\ tail \in 1..LOGSIZE + 1 /\ ops \in 0..MaxOps /\ op \in [Proc -> Value]
  BY DEF IInv, TypeOK
<1>b. hold \in [Proc -> Block \cup {NoBlock}] /\ wrote \in [Proc -> SUBSET Block]
  BY DEF IInv, TypeOK
<1>c. <<>> \in Seq(Block)
  OBVIOUS
<1>1. ASSUME NEW p \in Proc, BeginOp(p) PROVE TypeOK'
  <2>0. \/ ops' = ops /\ op' = op
        \/ ops < MaxOps /\ ops' = ops + 1 /\ op' = [op EXCEPT ![p] = ops + 1]
    BY <1>1 DEF BeginOp, IInv, TypeOK, Value
  <2>1. ops' \in 0..MaxOps /\ op' \in [Proc -> Value]
    BY <1>a, <2>0 DEF Value
  <2>2. /\ outstanding' \in Nat
        /\ pc' = [pc EXCEPT ![p] = "asleep"] \/ pc' = [pc EXCEPT ![p] = "op"]
    BY <1>1 DEF BeginOp, IInv, TypeOK, Value
  <2> QED BY <1>1, <2>1, <2>2 DEF BeginOp, IInv, TypeOK, Value
<1>2. ASSUME NEW p \in Proc, Brelse(p) PROVE TypeOK'
  BY <1>2 DEF Brelse, IInv, TypeOK, Value
<1>3. ASSUME NEW p \in Proc, LogWrite(p) PROVE TypeOK'
  <2>1. hold[p] \in Block /\ op[p] \in Value
    BY <1>3 DEF LogWrite, IInv, TypeOK, Value
  <2>2. cache' \in [Block -> Value \cup {Torn, NotCached}]
    BY <1>3, <2>1 DEF LogWrite, IInv, TypeOK, Value
  <2>3. lh' = lh \/ lh' = Append(lh, hold[p])
    BY <1>3 DEF LogWrite, IInv, TypeOK, Value
  <2>4. lh' \in Seq(Block)
    BY <1>a, <2>1, <2>3
  <2>5. pins' \in [Block -> Nat]
    BY <1>3, <2>1 DEF LogWrite, IInv, TypeOK, Value
  <2>6. /\ hold' = hold \/ hold' = [hold EXCEPT ![p] = NoBlock]
        /\ wrote' = wrote \/ wrote' = [wrote EXCEPT ![p] = @ \cup {hold[p]}]
    BY <1>3 DEF LogWrite, IInv, TypeOK, Value
  <2>8. hold' \in [Proc -> Block \cup {NoBlock}]
    BY <1>b, <2>6
  <2>9. wrote' \in [Proc -> SUBSET Block]
    <3>1. wrote[p] \cup {hold[p]} \in SUBSET Block
      BY <1>b, <2>1
    <3> QED BY <1>b, <2>6, <3>1
  <2>7. panicked' \in BOOLEAN
    BY <1>3 DEF LogWrite, IInv, TypeOK, Value
  <2> QED BY <1>3, <2>2, <2>4, <2>5, <2>7, <2>8, <2>9 DEF LogWrite, IInv, TypeOK, Value
<1>4. ASSUME NEW p \in Proc, EndOp(p) PROVE TypeOK'
  <2>1. outstanding' \in Nat
    BY <1>4, ActiveFacts DEF EndOp, IInv, TypeOK, Value
  <2>2. wrote' \in [Proc -> SUBSET Block] /\ op' \in [Proc -> Value]
    BY <1>4 DEF EndOp, IInv, TypeOK, Value
  <2>3. panicked' \in BOOLEAN /\ committing' \in BOOLEAN
    BY <1>4 DEF EndOp, IInv, TypeOK, Value
  <2>6. tail' = tail \/ tail' = 1
    BY <1>4 DEF EndOp, IInv, TypeOK, Value
  <2>7. tail' \in 1..LOGSIZE + 1
    BY <1>a, <2>6
  <2>4. \/ pc' = pc \/ pc' = [pc EXCEPT ![p] = CommitStart]
        \/ pc' = Woken([pc EXCEPT ![p] = "idle"])
    BY <1>4 DEF EndOp, IInv, TypeOK, Value
  <2>5. pc' \in [Proc -> {"idle", "begin", "asleep", "op", "write_log", "write_head", "install",
                          "clear", "done"}]
    BY <2>4 DEF CommitStart, Woken, IInv, TypeOK, Value
  <2> QED BY <1>4, <2>1, <2>2, <2>3, <2>5, <2>7 DEF EndOp, IInv, TypeOK, Value
<1>5. ASSUME NEW p \in Proc, WriteLog(p) PROVE TypeOK'
  BY <1>5, SMTT(30) DEF WriteLog, Go, Contents, HeaderInv, CommitInv, IInv, TypeOK, Value
<1>6. ASSUME NEW p \in Proc, WriteHead(p) PROVE TypeOK'
  BY <1>6 DEF WriteHead, Go, IInv, TypeOK, Value
<1>7. ASSUME NEW p \in Proc, InstallTrans(p) PROVE TypeOK'
  <2>1. tail \in 1..Len(lh) /\ Len(lh) <= LOGSIZE /\ lh[tail] \in Block
    BY <1>7 DEF InstallTrans, CommitInv, HeaderInv, IInv, TypeOK, Value
  <2>2. pins[lh[tail]] > 0
    BY <1>7, <2>1 DEF InstallTrans, BufferInv, Installed, IInv, TypeOK, Value
  <2>3. logd[tail] \in Value \cup {Torn}
    BY <2>1 DEF IInv, TypeOK, Value
  <2>4. /\ disk' \in [Block -> Value \cup {Torn}] /\ cache' \in [Block -> Value \cup {Torn, NotCached}]
        /\ pins' \in [Block -> Nat]
    BY <1>7, <2>1, <2>2, <2>3, SMTT(30) DEF InstallTrans, IInv, TypeOK, Value
  <2>6. (lh' = <<>> /\ tail' = 1) \/ (lh' = lh /\ tail' = tail + 1)
    BY <1>7 DEF InstallTrans, IInv, TypeOK, Value
  <2>7. tail' \in 1..LOGSIZE + 1
    BY <2>1, <2>6
  <2>8. lh' \in Seq(Block)
    BY <1>a, <1>c, <2>6, Zenon
  <2>9. pc' = pc \/ pc' = [pc EXCEPT ![p] = "clear"]
    BY <1>7 DEF InstallTrans, Go
  <2> QED BY <1>7, <2>4, <2>7, <2>8, <2>9 DEF InstallTrans, Go, IInv, TypeOK, Value
<1>8. ASSUME NEW p \in Proc, ClearHead(p) PROVE TypeOK'
  BY <1>8 DEF ClearHead, Go, IInv, TypeOK, Value
<1>9. ASSUME NEW p \in Proc, EndCommit(p) PROVE TypeOK'
  BY <1>9 DEF EndCommit, Woken, IInv, TypeOK, Value
<1>10. ASSUME NEW p \in Proc, NEW b \in Block, Bread(p, b) PROVE TypeOK'
  BY <1>10 DEF Bread, Contents, IInv, TypeOK, Value
<1>11. ASSUME NEW b \in Block, Recycle(b) PROVE TypeOK'
  BY <1>11 DEF Recycle, IInv, TypeOK, Value
<1>12. CASE ReadHead
  BY <1>12 DEF ReadHead, IInv, TypeOK, Value
<1>13. CASE RecoverBlock
  <2>1. tail \in 1..Len(lh) /\ Len(lh) <= LOGSIZE /\ lh[tail] \in Block
    BY <1>13 DEF RecoverBlock, BootInv, HeaderInv, IInv, TypeOK, Value
  <2>2. logd[tail] \in Value \cup {Torn}
    BY <2>1 DEF IInv, TypeOK, Value
  <2>3. /\ disk' \in [Block -> Value \cup {Torn}] /\ cache' \in [Block -> Value \cup {Torn, NotCached}]
    BY <1>13, <2>1, <2>2 DEF RecoverBlock, IInv, TypeOK, Value
  <2>6. (lh' = <<>> /\ tail' = 1) \/ (lh' = lh /\ tail' = tail + 1)
    BY <1>13 DEF RecoverBlock, IInv, TypeOK, Value
  <2>7. tail' \in 1..LOGSIZE + 1
    BY <2>1, <2>6
  <2>8. lh' \in Seq(Block)
    BY <1>a, <1>c, <2>6, Zenon
  <2> QED BY <1>13, <2>3, <2>7, <2>8 DEF RecoverBlock, IInv, TypeOK, Value
<1>14. CASE RecoverClear
  BY <1>14 DEF RecoverClear, IInv, TypeOK, Value
<1>15. CASE Crash
  <2>1. logd' = logd \/ logd' = [logd EXCEPT ![tail] = Torn]
    BY <1>15 DEF Crash, IInv, TypeOK, Value
  <2>2. disk' = disk \/ disk' = [disk EXCEPT ![lh[tail]] = Torn]
    BY <1>15 DEF Crash, IInv, TypeOK, Value
  <2>3. /\ logd' \in [1..LOGSIZE -> Value \cup {Torn}] /\ disk' \in [Block -> Value \cup {Torn}]
    BY <2>1, <2>2 DEF IInv, TypeOK, Value
  <2>4. /\ cache' \in [Block -> Value \cup {Torn, NotCached}] /\ pins' \in [Block -> Nat]
        /\ hold' \in [Proc -> Block \cup {NoBlock}] /\ op' \in [Proc -> Value]
        /\ wrote' \in [Proc -> SUBSET Block] /\ crashes' \in 0..MaxCrashes
    BY <1>15 DEF Crash, IInv, TypeOK, Value
  <2>5. lh' \in Seq(Block) /\ tail' \in 1..LOGSIZE + 1
    BY <1>15 DEF Crash, IInv, TypeOK, Value
  <2> QED BY <1>15, <2>3, <2>4, <2>5 DEF Crash, IInv, TypeOK, Value
<1>16. CASE UNCHANGED vars
  BY <1>16 DEF vars, IInv, TypeOK, Value
<1> QED BY <1>1, <1>2, <1>3, <1>4, <1>5, <1>6, <1>7, <1>8, <1>9, <1>10, <1>11, <1>12, <1>13, <1>14,
          <1>15, <1>16
       DEF Next, Commit, Recover

\* Every header names each of its blocks once: log_write() looks for the block first.
LEMMA HeaderStep ==
  ASSUME IInv, [Next]_vars
  PROVE  HeaderInv'
<1>a. HeaderInv /\ lh \in Seq(Block) /\ LOGSIZE \in Nat
  BY ConstAssumption DEF IInv, TypeOK
<1>b. Distinct(<<>>) /\ Len(<<>>) <= LOGSIZE
  BY <1>a DEF Distinct
<1>1. ASSUME lh' \in {lh, head, <<>>}, head' \in {head, lh, <<>>} PROVE HeaderInv'
  BY <1>1, <1>a, <1>b DEF HeaderInv
<1>2. ASSUME NEW p \in Proc, LogWrite(p) PROVE HeaderInv'
  <2>1. head' = head /\ (lh' = lh \/ (lh' = Append(lh, hold[p]) /\ ~TooBig /\ hold[p] \notin ToSet(lh)))
    BY <1>2 DEF LogWrite, onDisk
  <2>2. CASE lh' = lh
    BY <1>1, <2>1, <2>2
  <2>3. CASE lh' = Append(lh, hold[p]) /\ ~TooBig /\ hold[p] \notin ToSet(lh)
    <3>1. /\ Len(lh') = Len(lh) + 1 /\ lh'[Len(lh) + 1] = hold[p] /\ Len(lh) \in Nat
          /\ \A i \in 1..Len(lh) : lh'[i] = lh[i]
      BY <1>a, <2>3
    <3>2. \A i \in 1..Len(lh) : lh[i] # hold[p]
      BY <1>a, <2>3 DEF ToSet
    <3>3. Len(lh) < LOGSIZE
      BY <1>a, <2>3 DEF TooBig
    <3>4. Distinct(lh')
      BY <1>a, <3>1, <3>2 DEF Distinct, HeaderInv
    <3> QED BY <1>a, <2>1, <3>1, <3>3, <3>4 DEF HeaderInv
  <2> QED BY <2>1, <2>2, <2>3
<1>3. ASSUME NEW p \in Proc, BeginOp(p) \/ Brelse(p) \/ EndOp(p) \/ Commit(p) PROVE HeaderInv'
  BY <1>1, <1>3 DEF BeginOp, Brelse, EndOp, Commit, WriteLog, WriteHead, InstallTrans, ClearHead,
                    EndCommit, onDisk
<1>4. ASSUME NEW b \in Block, Recycle(b) \/ \E p \in Proc : Bread(p, b) PROVE HeaderInv'
  BY <1>1, <1>4 DEF Recycle, Bread, onDisk
<1>5. CASE Recover \/ Crash
  BY <1>1, <1>5 DEF Recover, ReadHead, RecoverBlock, RecoverClear, Crash, onDisk
<1>6. CASE UNCHANGED vars
  BY <1>1, <1>6 DEF vars
<1> QED BY <1>2, <1>3, <1>4, <1>5, <1>6 DEF Next

----------------------------------------------------------------------------
(* Operations *)

\* Where a step can leave the set of operations in progress.
LEMMA ActiveSteps ==
  ASSUME IInv, [Next]_vars
  PROVE  \/ UNCHANGED <<Active, outstanding>>
         \/ \E p \in Proc : p \notin Active /\ Active' = Active \cup {p} /\ outstanding' = outstanding + 1
         \/ \E p \in Active : Active' = Active \ {p} /\ outstanding' = outstanding - 1
         \/ Active' = {} /\ outstanding' = 0
<1>a. pc \in [Proc -> {"idle", "begin", "asleep", "op", "write_log", "write_head", "install", "clear", "done"}]
  BY DEF IInv, TypeOK
<1>b. ASSUME NEW p \in Proc, NEW s, pc[p] # "op", s # "op", pc' = [pc EXCEPT ![p] = s]
      PROVE  UNCHANGED Active
  BY <1>a, <1>b DEF Active
<1>c. ASSUME NEW p \in Proc, pc[p] \in {"op", "done"},
             pc' \in {[pc EXCEPT ![p] = CommitStart], Woken([pc EXCEPT ![p] = "idle"])}
      PROVE  Active' = Active \ {p}
  BY <1>a, <1>c DEF Active, CommitStart, Woken
<1>1. ASSUME NEW p \in Proc, BeginOp(p)
      PROVE  \/ UNCHANGED <<Active, outstanding>>
             \/ p \notin Active /\ Active' = Active \cup {p} /\ outstanding' = outstanding + 1
  <2>1. pc[p] \in {"idle", "begin"}
    BY <1>1 DEF BeginOp
  <2>2. \/ pc' = [pc EXCEPT ![p] = "asleep"] /\ outstanding' = outstanding
        \/ pc' = [pc EXCEPT ![p] = "op"] /\ outstanding' = outstanding + 1
    BY <1>1 DEF BeginOp
  <2> QED BY <1>a, <2>1, <2>2 DEF Active
<1>2. ASSUME NEW p \in Proc, EndOp(p)
      PROVE  p \in Active /\ Active' = Active \ {p} /\ outstanding' = outstanding - 1
  <2>1. pc[p] = "op" /\ outstanding' = outstanding - 1
    BY <1>2 DEF EndOp
  <2>2. ~committing
    BY <2>1, ActiveFacts DEF IInv, CountInv
  <2>3. pc' \in {[pc EXCEPT ![p] = CommitStart], Woken([pc EXCEPT ![p] = "idle"])}
    BY <1>2, <2>2 DEF EndOp
  <2> QED BY <1>c, <2>1, <2>3 DEF Active
<1>3. ASSUME NEW p \in Proc, Commit(p) PROVE UNCHANGED <<Active, outstanding>>
  <2>1. UNCHANGED outstanding
    BY <1>3 DEF Commit, WriteLog, WriteHead, InstallTrans, ClearHead, EndCommit
  <2>2. CASE EndCommit(p)
    <3>1. Active' = Active \ {p} /\ pc[p] # "op"
      BY <1>c, <2>2 DEF EndCommit
    <3> QED BY <2>1, <3>1 DEF Active
  <2>3. CASE ~EndCommit(p)
    <3>1. \/ pc' = pc
          \/ pc[p] # "op" /\ \E s \in {"write_head", "write_log", "install", "clear", "done"} :
                               pc' = [pc EXCEPT ![p] = s]
      BY <1>3, <2>3 DEF Commit, WriteLog, WriteHead, InstallTrans, ClearHead, Go
    <3> QED BY <1>b, <2>1, <3>1 DEF Active
  <2> QED BY <2>2, <2>3
<1>4. ASSUME NEW p \in Proc, Brelse(p) \/ LogWrite(p) PROVE UNCHANGED <<Active, outstanding>>
  BY <1>4 DEF Brelse, LogWrite, Active
<1>5. ASSUME NEW b \in Block, Recycle(b) \/ \E p \in Proc : Bread(p, b)
      PROVE  UNCHANGED <<Active, outstanding>>
  BY <1>5 DEF Recycle, Bread, Active
<1>6. CASE Recover
  BY <1>6 DEF Recover, ReadHead, RecoverBlock, RecoverClear, Active
<1>7. CASE Crash
  BY <1>7 DEF Crash, Active
<1>8. CASE UNCHANGED vars
  BY <1>8 DEF vars, Active
<1> QED BY <1>1, <1>2, <1>3, <1>4, <1>5, <1>6, <1>7, <1>8 DEF Next

\* begin_op() and end_op() count.
LEMMA ActiveStep ==
  ASSUME IInv, [Next]_vars
  PROVE  ActiveInv'
<1>a. IsFiniteSet(Active) /\ outstanding = Cardinality(Active)
  BY ActiveFacts DEF IInv, ActiveInv
<1>1. CASE UNCHANGED <<Active, outstanding>>
  BY <1>1, <1>a DEF ActiveInv
<1>2. ASSUME NEW p, p \notin Active, Active' = Active \cup {p}, outstanding' = outstanding + 1
      PROVE  ActiveInv'
  BY <1>2, <1>a, FS_AddElement DEF ActiveInv
<1>3. ASSUME NEW p \in Active, Active' = Active \ {p}, outstanding' = outstanding - 1
      PROVE  ActiveInv'
  BY <1>3, <1>a, FS_RemoveElement DEF ActiveInv
<1>4. CASE Active' = {} /\ outstanding' = 0
  BY <1>4, FS_EmptySet DEF ActiveInv
<1> QED BY <1>1, <1>2, <1>3, <1>4, ActiveSteps

\* While an operation is in progress nobody commits.
LEMMA Quiet ==
  ASSUME IInv, NEW p \in Proc, pc[p] = "op"
  PROVE  ~committing /\ outstanding > 0 /\ \A q \in Proc : pc[q] \notin CommitPc
BY ActiveFacts DEF IInv, CountInv

\* One process commits.
LEMMA OneCommits ==
  ASSUME IInv, NEW p \in Proc, pc[p] \in CommitPc
  PROVE  \A q \in Proc \ {p} : pc[q] \notin CommitPc
BY DEF IInv, CountInv

\* write_log() finds its blocks in the cache: they are pinned.
LEMMA CacheKept ==
  ASSUME IInv, NEW p \in Proc, WriteLog(p)
  PROVE  cache' = cache /\ Contents(lh[tail]) = cache[lh[tail]]
<1>1. tail \in 1..Len(lh) /\ lh[tail] \in Block /\ Running /\ pc[p] = "write_log"
  BY DEF WriteLog, Running, IInv, CommitInv, TypeOK
<1>2. ~Installed(tail)
  BY <1>1 DEF Installed
<1>3. cache[lh[tail]] # NotCached
  BY <1>1, <1>2 DEF IInv, BufferInv, Running
<1>4. Contents(lh[tail]) = cache[lh[tail]]
  BY <1>3 DEF Contents
<1>5. cache' = [cache EXCEPT ![lh[tail]] = cache[lh[tail]]] /\ cache \in [Block -> Value \cup {Torn, NotCached}]
  BY <1>4 DEF WriteLog, IInv, TypeOK
<1> QED BY <1>4, <1>5

\* end_op() lets one process commit, and no operation begins before it is done.
LEMMA CountStep ==
  ASSUME IInv, [Next]_vars
  PROVE  CountInv'
<1>1. ASSUME NEW p \in Proc, BeginOp(p) PROVE CountInv'
  BY <1>1 DEF BeginOp, NoSpace, Running, onDisk, CountInv, CommitPc, IInv, TypeOK
<1>2. ASSUME NEW p \in Proc, Brelse(p) PROVE CountInv'
  BY <1>2 DEF Brelse, Running, onDisk, CountInv, IInv
<1>3. ASSUME NEW p \in Proc, LogWrite(p) PROVE CountInv'
  <2>1. UNCHANGED <<pc, committing, outstanding>> /\ pc[p] = "op"
    BY <1>3 DEF LogWrite
  <2>2. outstanding > 0 /\ outstanding \in Nat
    BY <2>1, ActiveFacts
  <2> QED BY <2>1, <2>2 DEF IInv, CountInv
<1>4. ASSUME NEW p \in Proc, EndOp(p) PROVE CountInv'
  <2>1. /\ pc[p] = "op" /\ outstanding > 0 /\ outstanding \in Nat /\ ~panicked
        /\ outstanding' = outstanding - 1 /\ lh' = lh /\ boot' = boot
    BY <1>4, ActiveFacts DEF EndOp, Running
  <2>2. ~committing /\ \A q \in Proc : pc[q] \notin CommitPc
    BY <2>1 DEF IInv, CountInv
  <2>3. ~panicked'
    BY <1>4, <2>1, <2>2 DEF EndOp
  <2>4. CASE outstanding' = 0
    <3>1. committing' /\ pc' = [pc EXCEPT ![p] = CommitStart]
      BY <1>4, <2>2, <2>4 DEF EndOp
    <3>2. \A q \in Proc : pc'[q] \in CommitPc => q = p
      BY <2>2, <3>1 DEF IInv, TypeOK
    <3> QED BY <2>3, <2>4, <3>1, <3>2 DEF CountInv
  <2>5. CASE outstanding' # 0
    <3>1. ~committing' /\ pc' = Woken([pc EXCEPT ![p] = "idle"])
      BY <1>4, <2>2, <2>5 DEF EndOp
    <3>2. \A q \in Proc : pc'[q] \notin CommitPc
      BY <2>2, <3>1 DEF IInv, TypeOK, Woken, CommitPc
    <3> QED BY <2>3, <2>5, <3>1, <3>2 DEF CountInv
  <2> QED BY <2>4, <2>5
<1>5. ASSUME NEW p \in Proc, WriteLog(p) PROVE CountInv'
  BY <1>5 DEF WriteLog, Go, Contents, Running, onDisk, CountInv, CommitPc, IInv, TypeOK
<1>6. ASSUME NEW p \in Proc, WriteHead(p) PROVE CountInv'
  BY <1>6 DEF WriteHead, Go, Running, onDisk, CountInv, CommitPc, IInv, TypeOK
<1>7. ASSUME NEW p \in Proc, InstallTrans(p) PROVE CountInv'
  BY <1>7 DEF InstallTrans, Go, Running, onDisk, CountInv, CommitPc, IInv, TypeOK
<1>8. ASSUME NEW p \in Proc, ClearHead(p) PROVE CountInv'
  BY <1>8 DEF ClearHead, Go, Running, onDisk, CountInv, CommitPc, IInv, TypeOK
<1>9. ASSUME NEW p \in Proc, EndCommit(p) PROVE CountInv'
  BY <1>9 DEF EndCommit, Woken, Running, onDisk, CountInv, CommitPc, CommitInv, IInv, TypeOK
<1>10. ASSUME NEW p \in Proc, NEW b \in Block, Bread(p, b) PROVE CountInv'
  BY <1>10 DEF Bread, Contents, Running, onDisk, CountInv, IInv
<1>11. ASSUME NEW b \in Block, Recycle(b) PROVE CountInv'
  BY <1>11 DEF Recycle, Unreferenced, Running, onDisk, CountInv, IInv
<1>12. CASE ReadHead
  BY <1>12 DEF ReadHead, Running, onDisk, CountInv, IInv
<1>13. CASE RecoverBlock
  BY <1>13 DEF RecoverBlock, Running, onDisk, CountInv, IInv
<1>14. CASE RecoverClear
  BY <1>14 DEF RecoverClear, Running, onDisk, CountInv, CommitPc, BootInv, IInv, TypeOK
<1>15. CASE Crash
  BY <1>15 DEF Crash, TearsLog, TearsHome, Running, onDisk, CountInv, CommitPc, IInv, TypeOK
<1>16. CASE UNCHANGED vars
  BY <1>16 DEF vars, CountInv, IInv
<1> QED BY <1>1, <1>2, <1>3, <1>4, <1>5, <1>6, <1>7, <1>8, <1>9, <1>10, <1>11, <1>12, <1>13,
          <1>14, <1>15, <1>16
       DEF Next, Commit, Recover

\* Pinned blocks stay in the cache until they are installed; the others are there as on disk.
LEMMA BufferStep ==
  ASSUME IInv, [Next]_vars
  PROVE  BufferInv'
<1>1. ASSUME NEW p \in Proc, BeginOp(p) PROVE BufferInv'
  <2>1. /\ UNCHANGED <<disk, lh, cache, pins, tail, boot, panicked>>
        /\ pc[p] # "install" /\ \E s \in {"asleep", "op"} : pc' = [pc EXCEPT ![p] = s]
    BY <1>1 DEF BeginOp, onDisk
  <2>2. \A i : Installed(i)' <=> Installed(i)
    BY <2>1 DEF Installed, IInv, TypeOK
  <2> QED BY <2>1, <2>2 DEF BufferInv, IInv
<1>2. ASSUME NEW p \in Proc, Brelse(p) PROVE BufferInv'
  BY <1>2 DEF Brelse, Running, onDisk, BufferInv, Installed, IInv
<1>3. ASSUME NEW p \in Proc, LogWrite(p) PROVE BufferInv'
  <2> DEFINE b == hold[p]
  <2>1. /\ UNCHANGED <<disk, pc, tail, boot>> /\ Running /\ pc[p] = "op" /\ b \in Block
        /\ cache' = [cache EXCEPT ![b] = op[p]]
    BY <1>3 DEF LogWrite, onDisk, IInv, TypeOK
  <2>2. \A i : ~Installed(i) /\ ~Installed(i)'
    BY <2>1, Quiet DEF Installed, CommitPc
  <2>3. CASE panicked'
    BY <2>3 DEF BufferInv
  <2>4. CASE ~panicked'
    <3>1. /\ lh' = IF b \in ToSet(lh) THEN lh ELSE Append(lh, b)
          /\ pins' = IF b \in ToSet(lh) THEN pins ELSE [pins EXCEPT ![b] = @ + 1]
      BY <1>3, <2>4 DEF LogWrite
    <3>2. op[p] # NotCached
      BY ConstAssumption DEF IInv, TypeOK, Value
    <3>3. /\ \A c \in Block : (\A i \in 1..Len(lh) : lh[i] # c) => cache[c] \in {NotCached, disk[c]}
          /\ \A i \in 1..Len(lh) : cache[lh[i]] # NotCached /\ pins[lh[i]] > 0
      BY <2>1, <2>2 DEF BufferInv, IInv, Running
    <3>4. /\ lh \in Seq(Block) /\ cache \in [Block -> Value \cup {Torn, NotCached}]
          /\ pins \in [Block -> Nat]
      BY DEF IInv, TypeOK
    <3>5. /\ \A c \in Block : (\A i \in 1..Len(lh') : lh'[i] # c) => cache'[c] \in {NotCached, disk[c]}
          /\ \A i \in 1..Len(lh') : cache'[lh'[i]] # NotCached /\ pins'[lh'[i]] > 0
      <4>1. CASE b \in ToSet(lh)
        <5>1. lh' = lh /\ pins' = pins /\ \E i \in 1..Len(lh) : lh[i] = b
          BY <3>1, <4>1 DEF ToSet
        <5>2. \A i \in 1..Len(lh) : lh[i] \in Block
          BY <3>4
        <5> HIDE DEF b
        <5> QED BY <2>1, <3>2, <3>3, <3>4, <5>1, <5>2
      <4>2. CASE b \notin ToSet(lh)
        <5>1. lh' = Append(lh, b) /\ pins' = [pins EXCEPT ![b] = @ + 1]
          BY <3>1, <4>2
        <5>2. /\ Len(lh') = Len(lh) + 1 /\ Len(lh) \in Nat /\ lh'[Len(lh) + 1] = b
              /\ \A i \in 1..Len(lh) : lh'[i] = lh[i] /\ lh[i] \in Block
          BY <2>1, <3>4, <5>1
        <5> HIDE DEF b
        <5>3. /\ \A i \in 1..Len(lh') : i = Len(lh) + 1 \/ i \in 1..Len(lh)
              /\ 1..Len(lh) \subseteq 1..Len(lh') /\ Len(lh) + 1 \in 1..Len(lh')
          BY <5>2
        <5>4. \A c \in Block : pins[c] > 0 => pins'[c] > 0
          BY <2>1, <3>4, <5>1
        <5>5. pins'[b] > 0 /\ cache'[b] = op[p] /\ \A c \in Block \ {b} : cache'[c] = cache[c]
          BY <2>1, <3>4, <5>1
        <5>6. ASSUME NEW c \in Block, \A i \in 1..Len(lh') : lh'[i] # c
              PROVE  cache'[c] \in {NotCached, disk[c]}
          BY <3>3, <5>2, <5>3, <5>5, <5>6
        <5>7. ASSUME NEW i \in 1..Len(lh') PROVE cache'[lh'[i]] # NotCached /\ pins'[lh'[i]] > 0
          <6>1. CASE i = Len(lh) + 1
            BY <3>2, <5>2, <5>5, <6>1
          <6>2. CASE i \in 1..Len(lh)
            BY <3>2, <3>3, <5>2, <5>4, <5>5, <6>2
          <6> QED BY <5>3, <6>1, <6>2
        <5> QED BY <5>6, <5>7
      <4> QED BY <4>1, <4>2
    <3> QED BY <2>1, <2>2, <3>5 DEF BufferInv
  <2> QED BY <2>3, <2>4
<1>4. ASSUME NEW p \in Proc, EndOp(p) PROVE BufferInv'
  <2>1. /\ UNCHANGED <<disk, lh, cache, pins, boot>> /\ Running /\ pc[p] = "op"
        /\ \/ pc' = [pc EXCEPT ![p] = CommitStart] \/ pc' = Woken([pc EXCEPT ![p] = "idle"])
           \/ pc' = pc
    BY <1>4 DEF EndOp, onDisk
  <2>2. \A q \in Proc : pc[q] # "install"
    BY <2>1, Quiet DEF CommitPc
  <2>3. \A q \in Proc : pc'[q] # "install"
    BY <2>1, <2>2 DEF IInv, TypeOK, CommitStart, Woken
  <2>4. \A i : ~Installed(i) /\ ~Installed(i)'
    BY <2>2, <2>3 DEF Installed
  <2> QED BY <2>1, <2>4 DEF BufferInv, IInv, Running
<1>5. ASSUME NEW p \in Proc, WriteLog(p) PROVE BufferInv'
  <2>1. /\ UNCHANGED <<disk, lh, pins, boot, panicked>> /\ Running /\ pc[p] = "write_log"
        /\ \E s \in {"write_log", "write_head"} : pc' = [pc EXCEPT ![p] = s]
    BY <1>5 DEF WriteLog, Go, onDisk
  <2>2. \A q \in Proc : pc[q] # "install" /\ pc'[q] # "install"
    BY <2>1, OneCommits DEF IInv, TypeOK, CommitPc
  <2>3. \A i : ~Installed(i) /\ ~Installed(i)'
    BY <2>2 DEF Installed
  <2>4. cache' = cache
    BY <1>5, CacheKept
  <2> QED BY <2>1, <2>3, <2>4 DEF BufferInv, IInv, Running
<1>6. ASSUME NEW p \in Proc, WriteHead(p) PROVE BufferInv'
  BY <1>6 DEF WriteHead, Go, Running, onDisk, BufferInv, Installed, CountInv, CommitPc, IInv, TypeOK
<1>7. ASSUME NEW p \in Proc, InstallTrans(p) PROVE BufferInv'
  <2> DEFINE b == lh[tail]
  <2>1. /\ Running /\ pc[p] = "install" /\ UNCHANGED <<logd, boot, panicked>>
        /\ disk' = [disk EXCEPT ![b] = logd[tail]] /\ cache' = [cache EXCEPT ![b] = logd[tail]]
        /\ pins' = [pins EXCEPT ![b] = @ - 1]
    BY <1>7 DEF InstallTrans
  <2>2. /\ tail \in 1..Len(lh) /\ lh \in Seq(Block) /\ Len(lh) \in Nat /\ Distinct(lh)
        /\ \A i \in 1..Len(lh) : lh[i] \in Block
    BY <2>1 DEF IInv, TypeOK, CommitInv, HeaderInv, Running
  <2>3. \A i : Installed(i) <=> i < tail
    BY <2>1 DEF Installed
  <2>4. /\ disk \in [Block -> Value \cup {Torn}] /\ cache \in [Block -> Value \cup {Torn, NotCached}]
        /\ pins \in [Block -> Nat]
    BY DEF IInv, TypeOK
  <2>5. /\ \A c \in Block : (\A i \in 1..Len(lh) : lh[i] = c => i < tail) => cache[c] \in {NotCached, disk[c]}
        /\ \A i \in 1..Len(lh) : ~(i < tail) => cache[lh[i]] # NotCached /\ pins[lh[i]] > 0
    BY <2>1, <2>3 DEF BufferInv, IInv, Running
  <2>6. /\ b \in Block /\ cache'[b] = disk'[b]
        /\ \A c \in Block \ {b} : cache'[c] = cache[c] /\ disk'[c] = disk[c] /\ pins'[c] = pins[c]
    BY <2>1, <2>2, <2>4
  <2>7. \A c \in Block : (\A i \in 1..Len(lh) : lh[i] = c => i < tail + 1) => cache'[c] \in {NotCached, disk'[c]}
    BY <2>2, <2>5, <2>6
  <2>8. \A i \in 1..Len(lh) : ~(i < tail + 1) => cache'[lh[i]] # NotCached /\ pins'[lh[i]] > 0
    BY <2>2, <2>5, <2>6 DEF Distinct
  <2>9. CASE tail = Len(lh)
    <3>1. lh' = <<>>
      BY <1>7, <2>9 DEF InstallTrans
    <3> QED BY <2>2, <2>7, <2>9, <3>1 DEF BufferInv
  <2>10. CASE tail # Len(lh)
    <3>1. UNCHANGED <<lh, pc>> /\ tail' = tail + 1
      BY <1>7, <2>10 DEF InstallTrans
    <3>2. \A i : Installed(i)' <=> i < tail + 1
      BY <2>1, <3>1 DEF Installed
    <3> QED BY <2>7, <2>8, <3>1, <3>2 DEF BufferInv
  <2> QED BY <2>9, <2>10
<1>8. ASSUME NEW p \in Proc, ClearHead(p) PROVE BufferInv'
  BY <1>8 DEF ClearHead, Go, Running, onDisk, BufferInv, Installed, IInv
<1>9. ASSUME NEW p \in Proc, EndCommit(p) PROVE BufferInv'
  BY <1>9 DEF EndCommit, Woken, Running, onDisk, BufferInv, Installed, IInv
<1>10. ASSUME NEW p \in Proc, NEW b \in Block, Bread(p, b) PROVE BufferInv'
  BY <1>10 DEF Bread, Contents, Running, onDisk, BufferInv, Installed, IInv
<1>11. ASSUME NEW b \in Block, Recycle(b) PROVE BufferInv'
  BY <1>11 DEF Recycle, Unreferenced, Running, onDisk, BufferInv, Installed, IInv
<1>12. CASE ReadHead
  BY <1>12 DEF ReadHead, Running, onDisk, BufferInv, IInv
<1>13. CASE RecoverBlock
  BY <1>13 DEF RecoverBlock, Running, onDisk, BufferInv, IInv
<1>14. CASE RecoverClear
  BY <1>14 DEF RecoverClear, Running, onDisk, BufferInv, BootInv, IInv
<1>15. CASE Crash
  BY <1>15 DEF Crash, TearsLog, TearsHome, Running, onDisk, BufferInv, IInv
<1>16. CASE UNCHANGED vars
  BY <1>16 DEF vars, BufferInv, Installed, IInv
<1> QED BY <1>1, <1>2, <1>3, <1>4, <1>5, <1>6, <1>7, <1>8, <1>9, <1>10, <1>11, <1>12, <1>13,
          <1>14, <1>15, <1>16
       DEF Next, Commit, Recover

\* The commit goes through its steps in order.
LEMMA CommitStep ==
  ASSUME IInv, [Next]_vars
  PROVE  CommitInv'
<1>1. ASSUME NEW p \in Proc, BeginOp(p) PROVE CommitInv'
  BY <1>1, SMTT(30) DEF BeginOp, NoSpace, Running, onDisk, CommitInv, HomeHasLog, LogHasCache, IInv, TypeOK
<1>2. ASSUME NEW p \in Proc, Brelse(p) PROVE CommitInv'
  BY <1>2 DEF Brelse, Running, onDisk, CommitInv, HomeHasLog, LogHasCache, IInv
<1>3. ASSUME NEW p \in Proc, LogWrite(p) PROVE CommitInv'
  <2>1. UNCHANGED <<head, pc, boot>> /\ pc[p] = "op"
    BY <1>3 DEF LogWrite, onDisk
  <2>2. \A q \in Proc : pc[q] \notin CommitPc
    BY <2>1, Quiet
  <2> QED BY <2>1, <2>2 DEF CommitInv, CommitPc, IInv
<1>4. ASSUME NEW p \in Proc, EndOp(p) PROVE CommitInv'
  <2>1. UNCHANGED <<head, lh, boot>> /\ pc[p] = "op"
    BY <1>4 DEF EndOp, onDisk
  <2>2. ~committing /\ \A q \in Proc : pc[q] \notin CommitPc
    BY <2>1, Quiet
  <2>3. \/ pc' = [pc EXCEPT ![p] = CommitStart] /\ tail' = 1
        \/ pc' = Woken([pc EXCEPT ![p] = "idle"])
    BY <1>4, <2>2 DEF EndOp
  <2>4. /\ \A q \in Proc \ {p} : pc'[q] \notin CommitPc
        /\ pc'[p] \in CommitPc => pc'[p] = CommitStart /\ tail' = 1
    BY <2>2, <2>3 DEF IInv, TypeOK, Woken, CommitPc
  <2>5. lh \in Seq(Block) /\ Len(lh) \in Nat /\ (lh # <<>> => Len(lh) > 0)
    BY DEF IInv, TypeOK
  <2>6. lh # <<>> /\ tail' = 1 => tail' \in 1..Len(lh) /\ LogHasCache(1, tail - 1)'
    BY <2>5 DEF LogHasCache
  <2> QED BY <2>1, <2>2, <2>4, <2>6 DEF CommitInv, CommitPc, CommitStart, IInv
<1>5. ASSUME NEW p \in Proc, WriteLog(p) PROVE CommitInv'
  <2>1. /\ UNCHANGED <<head, lh, boot>> /\ Running /\ pc[p] = "write_log" /\ tail' = tail + 1
        /\ logd' = [logd EXCEPT ![tail] = Contents(lh[tail])]
        /\ pc' = [pc EXCEPT ![p] = IF tail = Len(lh) THEN "write_head" ELSE "write_log"]
    BY <1>5 DEF WriteLog, Go
  <2>2. /\ cache' = cache /\ Contents(lh[tail]) = cache[lh[tail]]
    BY <1>5, CacheKept
  <2>3. /\ tail \in 1..Len(lh) /\ lh # <<>> /\ Len(lh) \in Nat /\ Len(lh) <= LOGSIZE
        /\ LogHasCache(1, tail - 1) /\ LOGSIZE \in Nat /\ logd \in [1..LOGSIZE -> Value \cup {Torn}]
    BY <2>1, ConstAssumption DEF IInv, TypeOK, CommitInv, HeaderInv, Running
  <2>4. \A q \in Proc \ {p} : pc'[q] = pc[q] /\ pc[q] \notin CommitPc
    BY <2>1, OneCommits DEF IInv, TypeOK, CommitPc
  <2>5. pc'[p] = IF tail = Len(lh) THEN "write_head" ELSE "write_log"
    BY <2>1 DEF IInv, TypeOK
  <2>6. head' = <<>>
    BY <2>1, <2>4 DEF CommitInv, CommitPc, IInv, Running
  <2>7. \A i \in 1..tail : logd'[i] = cache'[lh'[i]]
    BY <2>1, <2>2, <2>3 DEF LogHasCache
  <2>8. CASE tail = Len(lh)
    <3>1. pc'[p] = "write_head" /\ LogHasCache(1, Len(lh))'
      BY <2>1, <2>5, <2>7, <2>8 DEF LogHasCache
    <3> QED BY <2>1, <2>3, <2>4, <2>6, <3>1 DEF CommitInv, CommitPc
  <2>9. CASE tail # Len(lh)
    <3>1. pc'[p] = "write_log"
      BY <2>5, <2>9
    <3>2. tail' \in 1..Len(lh') /\ LogHasCache(1, tail - 1)'
      BY <2>1, <2>3, <2>7, <2>9 DEF LogHasCache
    <3> QED BY <2>1, <2>3, <2>4, <2>6, <3>1, <3>2 DEF CommitInv, CommitPc
  <2> QED BY <2>8, <2>9
<1>6. ASSUME NEW p \in Proc, WriteHead(p) PROVE CommitInv'
  BY <1>6 DEF WriteHead, Go, Running, onDisk, CommitInv, HomeHasLog, LogHasCache, IInv, TypeOK
<1>7. ASSUME NEW p \in Proc, InstallTrans(p) PROVE CommitInv'
  <2> DEFINE b == lh[tail]
  <2>1. /\ Running /\ pc[p] = "install" /\ UNCHANGED <<logd, head, boot>>
        /\ disk' = [disk EXCEPT ![b] = logd[tail]] /\ cache' = [cache EXCEPT ![b] = logd[tail]]
    BY <1>7 DEF InstallTrans
  <2>2. /\ tail \in 1..Len(lh) /\ head = lh /\ HomeHasLog(tail - 1) /\ LogHasCache(tail, Len(lh))
    BY <2>1 DEF IInv, CommitInv, Running
  <2>3. /\ lh \in Seq(Block) /\ Len(lh) \in Nat /\ Distinct(lh) /\ lh # <<>>
        /\ \A i \in 1..Len(lh) : lh[i] \in Block
    BY <2>2 DEF IInv, TypeOK, HeaderInv
  <2>4. /\ disk \in [Block -> Value \cup {Torn}] /\ cache \in [Block -> Value \cup {Torn, NotCached}]
    BY DEF IInv, TypeOK
  <2>5. \A q \in Proc \ {p} : pc[q] \notin CommitPc
    BY <2>1, OneCommits DEF IInv, CommitPc
  <2>6. /\ b \in Block /\ disk'[b] = logd[tail]
        /\ \A c \in Block \ {b} : cache'[c] = cache[c] /\ disk'[c] = disk[c]
    BY <2>1, <2>2, <2>3, <2>4
  <2>7. \A i \in 1..tail : disk'[head'[i]] = logd'[i]
    BY <2>1, <2>2, <2>3, <2>6 DEF HomeHasLog, Distinct
  <2>8. \A i \in tail + 1..Len(lh) : logd'[i] = cache'[lh[i]]
    BY <2>1, <2>2, <2>3, <2>6 DEF LogHasCache, Distinct
  <2>9. CASE tail = Len(lh)
    <3>1. lh' = <<>> /\ pc' = [pc EXCEPT ![p] = "clear"]
      BY <1>7, <2>9 DEF InstallTrans, Go
    <3>2. pc'[p] = "clear" /\ \A q \in Proc \ {p} : pc'[q] \notin CommitPc
      BY <2>5, <3>1 DEF IInv, TypeOK
    <3>3. HomeHasLog(Len(head))'
      BY <2>1, <2>2, <2>7, <2>9 DEF HomeHasLog
    <3> QED BY <3>1, <3>2, <3>3 DEF CommitInv, CommitPc
  <2>10. CASE tail # Len(lh)
    <3>1. UNCHANGED <<lh, pc>> /\ tail' = tail + 1
      BY <1>7, <2>10 DEF InstallTrans
    <3>2. tail' \in 1..Len(lh') /\ HomeHasLog(tail - 1)' /\ LogHasCache(tail, Len(lh))'
      BY <2>2, <2>3, <2>7, <2>8, <2>10, <3>1 DEF HomeHasLog, LogHasCache
    <3> QED BY <2>1, <2>2, <2>3, <2>5, <3>1, <3>2 DEF CommitInv, CommitPc
  <2> QED BY <2>9, <2>10
<1>8. ASSUME NEW p \in Proc, ClearHead(p) PROVE CommitInv'
  BY <1>8 DEF ClearHead, Go, Running, onDisk, CommitInv, HomeHasLog, LogHasCache, IInv
<1>9. ASSUME NEW p \in Proc, EndCommit(p) PROVE CommitInv'
  BY <1>9 DEF EndCommit, Woken, Running, onDisk, CommitInv, HomeHasLog, LogHasCache, IInv
<1>10. ASSUME NEW p \in Proc, NEW b \in Block, Bread(p, b) PROVE CommitInv'
  <2>1. UNCHANGED <<onDisk, lh, tail, pc, boot>> /\ Running
    BY <1>10 DEF Bread
  <2>2. ASSUME NEW i \in 1..Len(lh), ~Installed(i) PROVE cache'[lh[i]] = cache[lh[i]]
    <3>1. cache[lh[i]] # NotCached
      BY <2>1, <2>2 DEF IInv, BufferInv, Running
    <3>2. lh[i] \in Block
      BY DEF IInv, TypeOK
    <3> QED BY <1>10, <3>1, <3>2 DEF Bread, Contents, IInv, TypeOK
  <2>3. \A q \in Proc : pc[q] \in {"write_log", "write_head"} => \A i : ~Installed(i)
    BY OneCommits DEF IInv, CommitPc, Installed
  <2>4. /\ Len(lh) \in Nat /\ tail \in Nat
        /\ \A q \in Proc : pc[q] \in {"write_log", "install"} => tail \in 1..Len(lh)
    BY <2>1, ConstAssumption DEF IInv, TypeOK, CommitInv, Running
  <2>5. ASSUME NEW q \in Proc
        PROVE  /\ pc[q] = "write_log" => LogHasCache(1, tail - 1)'
               /\ pc[q] = "write_head" => LogHasCache(1, Len(lh))'
               /\ pc[q] = "install" => LogHasCache(tail, Len(lh))'
    <3>1. CASE pc[q] = "write_log"
      <4>1. LogHasCache(1, tail - 1)
        BY <2>1, <3>1 DEF IInv, CommitInv, Running
      <4> QED BY <2>1, <2>2, <2>3, <2>4, <3>1, <4>1 DEF LogHasCache, onDisk
    <3>2. CASE pc[q] = "write_head"
      <4>1. LogHasCache(1, Len(lh))
        BY <2>1, <3>2 DEF IInv, CommitInv, Running
      <4> QED BY <2>1, <2>2, <2>3, <2>4, <3>2, <4>1 DEF LogHasCache, onDisk
    <3>3. CASE pc[q] = "install"
      <4>1. LogHasCache(tail, Len(lh))
        BY <2>1, <3>3 DEF IInv, CommitInv, Running
      <4>2. \A i \in tail..Len(lh) : i \in 1..Len(lh) /\ ~Installed(i)
        BY <2>4, <3>3 DEF Installed
      <4> QED BY <2>1, <2>2, <2>4, <3>3, <4>1, <4>2 DEF LogHasCache, onDisk
    <3> QED BY <3>1, <3>2, <3>3
  <2>6. \A n : HomeHasLog(n)' <=> HomeHasLog(n)
    BY <2>1 DEF HomeHasLog, onDisk
  <2> QED BY <2>1, <2>5, <2>6 DEF CommitInv, onDisk, IInv
<1>11. ASSUME NEW b \in Block, Recycle(b) PROVE CommitInv'
  <2>1. UNCHANGED <<onDisk, lh, tail, pc, boot>> /\ Running
    BY <1>11 DEF Recycle
  <2>2. ASSUME NEW i \in 1..Len(lh), ~Installed(i) PROVE cache'[lh[i]] = cache[lh[i]]
    <3>1. pins[lh[i]] > 0
      BY <2>1, <2>2 DEF IInv, BufferInv, Running
    <3>2. lh[i] \in Block /\ lh[i] # b
      BY <1>11, <3>1 DEF Recycle, Unreferenced, IInv, TypeOK
    <3> QED BY <1>11, <3>2 DEF Recycle, IInv, TypeOK
  <2>3. \A q \in Proc : pc[q] \in {"write_log", "write_head"} => \A i : ~Installed(i)
    BY OneCommits DEF IInv, CommitPc, Installed
  <2>4. /\ Len(lh) \in Nat /\ tail \in Nat
        /\ \A q \in Proc : pc[q] \in {"write_log", "install"} => tail \in 1..Len(lh)
    BY <2>1, ConstAssumption DEF IInv, TypeOK, CommitInv, Running
  <2>5. ASSUME NEW q \in Proc
        PROVE  /\ pc[q] = "write_log" => LogHasCache(1, tail - 1)'
               /\ pc[q] = "write_head" => LogHasCache(1, Len(lh))'
               /\ pc[q] = "install" => LogHasCache(tail, Len(lh))'
    <3>1. CASE pc[q] = "write_log"
      <4>1. LogHasCache(1, tail - 1)
        BY <2>1, <3>1 DEF IInv, CommitInv, Running
      <4> QED BY <2>1, <2>2, <2>3, <2>4, <3>1, <4>1 DEF LogHasCache, onDisk
    <3>2. CASE pc[q] = "write_head"
      <4>1. LogHasCache(1, Len(lh))
        BY <2>1, <3>2 DEF IInv, CommitInv, Running
      <4> QED BY <2>1, <2>2, <2>3, <2>4, <3>2, <4>1 DEF LogHasCache, onDisk
    <3>3. CASE pc[q] = "install"
      <4>1. LogHasCache(tail, Len(lh))
        BY <2>1, <3>3 DEF IInv, CommitInv, Running
      <4>2. \A i \in tail..Len(lh) : i \in 1..Len(lh) /\ ~Installed(i)
        BY <2>4, <3>3 DEF Installed
      <4> QED BY <2>1, <2>2, <2>4, <3>3, <4>1, <4>2 DEF LogHasCache, onDisk
    <3> QED BY <3>1, <3>2, <3>3
  <2>6. \A n : HomeHasLog(n)' <=> HomeHasLog(n)
    BY <2>1 DEF HomeHasLog, onDisk
  <2> QED BY <2>1, <2>5, <2>6 DEF CommitInv, onDisk, IInv
<1>12. CASE ReadHead
  BY <1>12 DEF ReadHead, Running, onDisk, CommitInv, IInv
<1>13. CASE RecoverBlock
  BY <1>13 DEF RecoverBlock, Running, onDisk, CommitInv, IInv
<1>14. CASE RecoverClear
  BY <1>14 DEF RecoverClear, Running, onDisk, CommitInv, BootInv, IInv
<1>15. CASE Crash
  BY <1>15 DEF Crash, TearsLog, TearsHome, Running, onDisk, CommitInv, IInv
<1>16. CASE UNCHANGED vars
  BY <1>16 DEF vars, CommitInv, HomeHasLog, LogHasCache, IInv
<1> QED BY <1>1, <1>2, <1>3, <1>4, <1>5, <1>6, <1>7, <1>8, <1>9, <1>10, <1>11, <1>12, <1>13,
          <1>14, <1>15, <1>16
       DEF Next, Commit, Recover

\* So does recovery.
LEMMA BootStep ==
  ASSUME IInv, [Next]_vars
  PROVE  BootInv'
<1>1. ASSUME NEW p \in Proc, BeginOp(p) PROVE BootInv'
  BY <1>1 DEF BeginOp, NoSpace, Running, onDisk, BootInv, IInv
<1>2. ASSUME NEW p \in Proc, Brelse(p) PROVE BootInv'
  BY <1>2 DEF Brelse, Running, onDisk, BootInv, IInv
<1>3. ASSUME NEW p \in Proc, LogWrite(p) PROVE BootInv'
  BY <1>3 DEF LogWrite, TooBig, ToSet, Running, onDisk, BootInv, IInv
<1>4. ASSUME NEW p \in Proc, EndOp(p) PROVE BootInv'
  BY <1>4 DEF EndOp, CommitStart, Woken, Running, onDisk, BootInv, IInv
<1>5. ASSUME NEW p \in Proc, WriteLog(p) PROVE BootInv'
  BY <1>5 DEF WriteLog, Go, Contents, Running, onDisk, BootInv, IInv
<1>6. ASSUME NEW p \in Proc, WriteHead(p) PROVE BootInv'
  BY <1>6 DEF WriteHead, Go, Running, onDisk, BootInv, IInv
<1>7. ASSUME NEW p \in Proc, InstallTrans(p) PROVE BootInv'
  BY <1>7 DEF InstallTrans, Go, Running, onDisk, BootInv, IInv
<1>8. ASSUME NEW p \in Proc, ClearHead(p) PROVE BootInv'
  BY <1>8 DEF ClearHead, Go, Running, onDisk, BootInv, IInv
<1>9. ASSUME NEW p \in Proc, EndCommit(p) PROVE BootInv'
  BY <1>9 DEF EndCommit, Woken, Running, onDisk, BootInv, IInv
<1>10. ASSUME NEW p \in Proc, NEW b \in Block, Bread(p, b) PROVE BootInv'
  BY <1>10 DEF Bread, Contents, Running, onDisk, BootInv, IInv
<1>11. ASSUME NEW b \in Block, Recycle(b) PROVE BootInv'
  BY <1>11 DEF Recycle, Unreferenced, Running, onDisk, BootInv, IInv
<1>12. CASE ReadHead
  BY <1>12 DEF ReadHead, Running, onDisk, BootInv, HomeHasLog, IInv
<1>13. CASE RecoverBlock
  <2> DEFINE b == lh[tail]
  <2>1. /\ boot = "install" /\ UNCHANGED <<logd, head, committing, panicked, pc>>
        /\ disk' = [disk EXCEPT ![b] = logd[tail]] /\ cache' = [cache EXCEPT ![b] = logd[tail]]
    BY <1>13 DEF RecoverBlock
  <2>2. /\ tail \in 1..Len(lh) /\ head = lh /\ HomeHasLog(tail - 1)
        /\ ~committing /\ ~panicked /\ \A p \in Proc : pc[p] = "idle"
        /\ \A c \in Block : cache[c] \in {NotCached, disk[c]}
    BY <2>1 DEF IInv, BootInv
  <2>3. /\ lh \in Seq(Block) /\ Len(lh) \in Nat /\ Distinct(lh)
        /\ \A i \in 1..Len(lh) : lh[i] \in Block
    BY <2>2 DEF IInv, TypeOK, HeaderInv
  <2>4. /\ disk \in [Block -> Value \cup {Torn}] /\ cache \in [Block -> Value \cup {Torn, NotCached}]
    BY DEF IInv, TypeOK
  <2>5. /\ b \in Block /\ disk'[b] = logd[tail] /\ cache'[b] = logd[tail]
        /\ \A c \in Block \ {b} : cache'[c] = cache[c] /\ disk'[c] = disk[c]
    BY <2>1, <2>2, <2>3, <2>4
  <2>6. \A c \in Block : cache'[c] \in {NotCached, disk'[c]}
    BY <2>2, <2>5
  <2>7. \A i \in 1..tail : disk'[head'[i]] = logd'[i]
    BY <2>1, <2>2, <2>3, <2>5 DEF HomeHasLog, Distinct
  <2>8. CASE tail = Len(lh)
    <3>1. lh' = <<>> /\ boot' = "clear"
      BY <1>13, <2>8 DEF RecoverBlock
    <3>2. HomeHasLog(Len(head))'
      BY <2>1, <2>2, <2>7, <2>8 DEF HomeHasLog
    <3> QED BY <2>1, <2>2, <2>6, <3>1, <3>2 DEF BootInv
  <2>9. CASE tail # Len(lh)
    <3>1. UNCHANGED <<lh, boot>> /\ tail' = tail + 1
      BY <1>13, <2>9 DEF RecoverBlock
    <3>2. tail' \in 1..Len(lh') /\ HomeHasLog(tail - 1)'
      BY <2>2, <2>3, <2>7, <2>9, <3>1 DEF HomeHasLog
    <3> QED BY <2>1, <2>2, <2>6, <3>1, <3>2 DEF BootInv
  <2> QED BY <2>8, <2>9
<1>14. CASE RecoverClear
  BY <1>14 DEF RecoverClear, Running, onDisk, BootInv, IInv
<1>15. CASE Crash
  BY <1>15 DEF Crash, TearsLog, TearsHome, Running, onDisk, BootInv, IInv
<1>16. CASE UNCHANGED vars
  BY <1>16 DEF vars, BootInv, HomeHasLog, IInv
<1> QED BY <1>1, <1>2, <1>3, <1>4, <1>5, <1>6, <1>7, <1>8, <1>9, <1>10, <1>11, <1>12, <1>13,
          <1>14, <1>15, <1>16
       DEF Next, Commit, Recover

\* The strengthening holds.
THEOREM Invariance == Spec => []IInv
<1>1. Init => IInv
  <2> SUFFICES ASSUME Init PROVE IInv
    OBVIOUS
  <2>1. TypeOK
    <3>1. head \in Seq(Block) /\ lh \in Seq(Block)
      BY DEF Init
    <3>2. LOGSIZE \in Nat /\ tail \in 1..LOGSIZE + 1 /\ 0 \in 0..MaxOps /\ 0 \in 0..MaxCrashes /\ 0 \in Nat
      BY ConstAssumption DEF Init
    <3> QED BY <3>1, <3>2 DEF Init, TypeOK, Value
  <2>2. Active = {} /\ Cardinality({}) = 0
    BY FS_EmptySet DEF Init, Active
  <2>3. HeaderInv /\ ActiveInv
    BY <2>2, ConstAssumption DEF Init, HeaderInv, Distinct, ActiveInv
  <2>4. CountInv /\ BufferInv /\ CommitInv /\ BootInv
    BY DEF Init, CountInv, CommitPc, BufferInv, CommitInv, BootInv
  <2> QED BY <2>1, <2>3, <2>4 DEF IInv
<1>2. IInv /\ [Next]_vars => IInv'
  BY TypeStep, HeaderStep, ActiveStep, CountStep, BufferStep, CommitStep, BootStep DEF IInv
<1> QED BY <1>1, <1>2, PTL DEF Spec

----------------------------------------------------------------------------
(* What recovery makes of a disk *)

\* Recovered, of any header, log area and home blocks.
After(h, l, d) == [b \in Block |->
                     IF \E i \in 1..Len(h) : h[i] = b
                     THEN l[CHOOSE i \in 1..Len(h) : h[i] = b] ELSE d[b]]

Image(d) == [b \in Block |-> d[b]]

\* What recovery leaves in a block: its log entry, or what was home.
LEMMA AfterIs ==
  ASSUME NEW h \in Seq(Block), NEW l, NEW d, Distinct(h)
  PROVE  /\ \A i \in 1..Len(h) : After(h, l, d)[h[i]] = l[i]
         /\ \A b \in Block : (\A i \in 1..Len(h) : h[i] # b) => After(h, l, d)[b] = d[b]
<1>1. ASSUME NEW i \in 1..Len(h) PROVE After(h, l, d)[h[i]] = l[i]
  <2>1. (CHOOSE j \in 1..Len(h) : h[j] = h[i]) = i
    BY DEF Distinct
  <2>2. h[i] \in Block
    OBVIOUS
  <2> QED BY <2>1, <2>2 DEF After
<1> QED BY <1>1 DEF After

\* Recovery overwrites the home blocks that the header names, and reads no other block of the log.
LEMMA AfterSame ==
  ASSUME NEW h \in Seq(Block), Distinct(h), NEW l, NEW d, NEW l2, NEW d2,
         \A i \in 1..Len(h) : l2[i] = l[i],
         \A b \in Block : (\A i \in 1..Len(h) : h[i] # b) => d2[b] = d[b]
  PROVE  After(h, l2, d2) = After(h, l, d)
<1>1. ASSUME NEW b \in Block PROVE After(h, l2, d2)[b] = After(h, l, d)[b]
  <2>1. CASE \E i \in 1..Len(h) : h[i] = b
    BY <2>1, AfterIs
  <2>2. CASE \A i \in 1..Len(h) : h[i] # b
    BY <2>2, AfterIs
  <2> QED BY <2>1, <2>2
<1> QED BY <1>1 DEF After

\* Recovery changes nothing where every entry is home.
LEMMA AfterInstalled ==
  ASSUME NEW h \in Seq(Block), Distinct(h), NEW l, NEW d, \A i \in 1..Len(h) : d[h[i]] = l[i]
  PROVE  After(h, l, d) = Image(d)
<1>1. ASSUME NEW b \in Block PROVE After(h, l, d)[b] = d[b]
  <2>1. CASE \E i \in 1..Len(h) : h[i] = b
    BY <2>1, AfterIs
  <2>2. CASE \A i \in 1..Len(h) : h[i] # b
    BY <2>2, AfterIs
  <2> QED BY <2>1, <2>2
<1> QED BY <1>1 DEF After, Image

\* With an empty header recovery changes nothing.
LEMMA AfterEmpty ==
  ASSUME NEW l, NEW d
  PROVE  After(<<>>, l, d) = Image(d)
BY DEF After, Image

----------------------------------------------------------------------------
(* Nothing to commit *)

\* Without an operation or a commit, the cache shows what is on disk.
LEMMA QuietState ==
  ASSUME IInv
  PROVE  QuietIsDurable
<1> SUFFICES ASSUME boot = "up", outstanding = 0, ~committing PROVE Recovered = Visible
  BY DEF QuietIsDurable
<1>1. ~panicked /\ lh = <<>> /\ \A p \in Proc : pc[p] \notin CommitPc
  BY DEF IInv, CountInv
<1>2. head = <<>>
  BY <1>1 DEF IInv, CommitInv, CommitPc
<1>3. Recovered = Image(disk)
  BY <1>2, AfterEmpty DEF Recovered, After
<1>4. \A b \in Block : cache[b] \in {NotCached, disk[b]}
  BY <1>1 DEF IInv, BufferInv
<1> QED BY <1>3, <1>4 DEF Visible, Contents, Image

\* When no operation is in progress and no commit runs, everything that was written is durable.
THEOREM QuietCorrect == Spec => []QuietIsDurable
BY Invariance, QuietState, PTL

----------------------------------------------------------------------------
(* Refinement *)

\* Initial states.
LEMMA AbsInit ==
  ASSUME Init
  PROVE  AD!Init
<1>1. Recovered = Image(disk)
  BY AfterEmpty DEF Init, Recovered, After
<1>2. Image(disk) \in [Block -> Value]
  BY ConstAssumption DEF Init, Image, Value
<1>3. Visible = Recovered /\ {p \in Proc : pc[p] = "op"} = {}
  BY DEF Init, Visible
<1> QED BY <1>1, <1>2, <1>3 DEF AD!Init

\* What the current and the durable image are made of.
LEMMA Images ==
  /\ Recovered = After(head, logd, disk) /\ Recovered' = After(head', logd', disk')
  /\ boot = "up" => Visible = [b \in Block |-> Contents(b)]
  /\ boot' = "up" => Visible' = [b \in Block |-> Contents(b)']
  /\ boot # "up" => Visible = Recovered
  /\ boot' # "up" => Visible' = Recovered'
BY DEF Recovered, After, Visible

\* A step that changes only what recovery does not read keeps what recovery makes of the disk.
LEMMA RecoveredKept ==
  ASSUME head \in Seq(Block), Distinct(head), head' = head,
         \A i \in 1..Len(head) : logd'[i] = logd[i],
         \A b \in Block : (\A i \in 1..Len(head) : head[i] # b) => disk'[b] = disk[b]
  PROVE  UNCHANGED Recovered
<1>1. ASSUME NEW l2, NEW d2, l2 = logd', d2 = disk'
      PROVE  After(head, l2, d2) = After(head, logd, disk)
  <2>1. \A i \in 1..Len(head) : l2[i] = logd[i]
    BY <1>1
  <2>2. \A b \in Block : (\A i \in 1..Len(head) : head[i] # b) => d2[b] = disk[b]
    BY <1>1
  <2> QED BY <2>1, <2>2, AfterSame
<1>2. After(head, logd', disk') = After(head, logd, disk)
  BY <1>1
<1> QED BY <1>2, Images

\* A step that keeps the disk and the cache keeps both images.
LEMMA KeepsImages ==
  ASSUME UNCHANGED <<onDisk, cache, boot>>
  PROVE  UNCHANGED <<Recovered, Visible>>
BY DEF onDisk, Recovered, Visible, Contents

\* Operations.
LEMMA AbsOps ==
  ASSUME IInv, NEW p \in Proc, BeginOp(p) \/ Brelse(p) \/ EndOp(p) \/ LogWrite(p)
  PROVE  [AD!Next]_AD!vars
<1>a. pc \in [Proc -> {"idle", "begin", "asleep", "op", "write_log", "write_head", "install", "clear", "done"}]
  BY DEF IInv, TypeOK
<1>1. CASE BeginOp(p)
  <2>1. UNCHANGED <<Recovered, Visible>>
    BY <1>1, KeepsImages DEF BeginOp
  <2>2. /\ pc[p] \in {"idle", "begin"}
        /\ pc' = [pc EXCEPT ![p] = "asleep"] \/ pc' = [pc EXCEPT ![p] = "op"]
    BY <1>1 DEF BeginOp
  <2>3. CASE pc' = [pc EXCEPT ![p] = "asleep"]
    <3>1. {q \in Proc : pc'[q] = "op"} = {q \in Proc : pc[q] = "op"}
      BY <1>a, <2>2, <2>3
    <3> QED BY <2>1, <3>1 DEF AD!vars
  <2>4. CASE pc' = [pc EXCEPT ![p] = "op"]
    <3>1. /\ {q \in Proc : pc'[q] = "op"} = {q \in Proc : pc[q] = "op"} \cup {p}
          /\ p \notin {q \in Proc : pc[q] = "op"}
      BY <1>a, <2>2, <2>4
    <3>2. AD!Begin(p)
      BY <2>1, <3>1 DEF AD!Begin
    <3> QED BY <3>2 DEF AD!Next
  <2> QED BY <2>2, <2>3, <2>4
<1>2. CASE Brelse(p)
  <2>1. UNCHANGED <<Recovered, Visible>> /\ pc' = pc
    BY <1>2, KeepsImages DEF Brelse
  <2> QED BY <2>1 DEF AD!vars
<1>3. CASE EndOp(p)
  <2>1. UNCHANGED <<Recovered, Visible>>
    BY <1>3, KeepsImages DEF EndOp
  <2>2. pc[p] = "op" /\ ~committing
    BY <1>3, Quiet DEF EndOp
  <2>3. pc' = [pc EXCEPT ![p] = CommitStart] \/ pc' = Woken([pc EXCEPT ![p] = "idle"])
    BY <1>3, <2>2 DEF EndOp
  <2>4. {q \in Proc : pc'[q] = "op"} = {q \in Proc : pc[q] = "op"} \ {p}
    BY <1>a, <2>3 DEF CommitStart, Woken
  <2>5. AD!End(p)
    BY <2>1, <2>2, <2>4 DEF AD!End
  <2> QED BY <2>5 DEF AD!Next
<1>4. CASE LogWrite(p)
  <2>0. hold[p] \in Block
    BY <1>4 DEF LogWrite, IInv, TypeOK
  <2> PICK b \in Block : b = hold[p]
    BY <2>0
  <2>1. /\ UNCHANGED <<onDisk, boot, pc>> /\ boot = "up" /\ pc[p] = "op"
        /\ cache' = [cache EXCEPT ![b] = op[p]]
    BY <1>4 DEF LogWrite, Running
  <2>2. op[p] \in Value /\ op[p] # NotCached /\ cache \in [Block -> Value \cup {Torn, NotCached}]
    BY ConstAssumption DEF IInv, TypeOK, Value
  <2>7. cache'[b] = op[p] /\ disk' = disk /\ \A c \in Block \ {b} : cache'[c] = cache[c]
    BY <2>1, <2>2 DEF onDisk
  <2>3. Contents(b)' = op[p] /\ \A c \in Block \ {b} : Contents(c)' = Contents(c)
    BY <2>2, <2>7 DEF Contents
  <2>8. /\ Visible = [c \in Block |-> Contents(c)] /\ Visible' = [c \in Block |-> Contents(c)']
    BY <2>1, Images
  <2>4. Visible' = [Visible EXCEPT ![b] = op[p]]
    BY <2>1, <2>3, <2>8
  <2>5. UNCHANGED Recovered
    BY <2>1 DEF Recovered, onDisk
  <2>6. AD!Write(p, b, op[p])
    BY <2>1, <2>4, <2>5 DEF AD!Write
  <2> QED BY <2>1, <2>2, <2>6 DEF AD!Next
<1> QED BY <1>1, <1>2, <1>3, <1>4

\* The buffer cache.
LEMMA AbsCache ==
  ASSUME IInv, NEW b \in Block, Recycle(b) \/ \E p \in Proc : Bread(p, b)
  PROVE  UNCHANGED AD!vars
<1>1. /\ UNCHANGED <<onDisk, boot, pc>> /\ boot = "up" /\ ~panicked
      /\ cache \in [Block -> Value \cup {Torn, NotCached}]
  BY DEF Recycle, Bread, Running, IInv, TypeOK
<1>2. /\ Contents(b)' = Contents(b)
      /\ \A c \in Block \ {b} : cache'[c] = cache[c]
  <2>1. CASE Recycle(b)
    <3>1. \A i \in 1..Len(lh) : lh[i] = b => Installed(i)
      <4>1. pins[b] = 0
        BY <2>1 DEF Recycle, Unreferenced
      <4>2. \A i \in 1..Len(lh) : ~Installed(i) => pins[lh[i]] > 0
        BY <1>1 DEF IInv, BufferInv
      <4> QED BY <4>1, <4>2
    <3>2. cache[b] \in {NotCached, disk[b]}
      BY <1>1, <3>1 DEF IInv, BufferInv
    <3>3. cache' = [cache EXCEPT ![b] = NotCached]
      BY <2>1 DEF Recycle
    <3> QED BY <1>1, <3>2, <3>3 DEF Contents, onDisk
  <2>2. ASSUME NEW p \in Proc, Bread(p, b)
        PROVE  /\ Contents(b)' = Contents(b)
               /\ \A c \in Block \ {b} : cache'[c] = cache[c]
    <3>1. cache' = [cache EXCEPT ![b] = Contents(b)]
      BY <2>2 DEF Bread
    <3> QED BY <1>1, <3>1 DEF Contents, onDisk
  <2> QED BY <2>1, <2>2
<1>3. \A c \in Block : Contents(c)' = Contents(c)
  BY <1>1, <1>2 DEF Contents, onDisk
<1>4. UNCHANGED Recovered
  BY <1>1 DEF Recovered, onDisk
<1>5. UNCHANGED Visible
  BY <1>1, <1>3, Images
<1> QED BY <1>1, <1>4, <1>5 DEF AD!vars

\* The commit: the write of the header is the moment at which the transaction becomes durable.
LEMMA AbsCommit ==
  ASSUME IInv, NEW p \in Proc, Commit(p)
  PROVE  [AD!Next]_AD!vars
<1>a. pc \in [Proc -> {"idle", "begin", "asleep", "op", "write_log", "write_head", "install", "clear", "done"}]
  BY DEF IInv, TypeOK
<1>b. /\ Running /\ boot' = boot /\ boot = "up" /\ ~panicked /\ pc[p] \in CommitPc
  BY DEF Commit, WriteLog, WriteHead, InstallTrans, ClearHead, EndCommit, Running, CommitPc
<1>c. \A q \in Proc \ {p} : pc[q] \notin CommitPc
  BY <1>b, OneCommits
<1>d. {q \in Proc : pc[q] = "op"} = {}
  BY <1>b, Quiet
<1>e. /\ lh \in Seq(Block) /\ head \in Seq(Block) /\ Distinct(lh) /\ Distinct(head)
      /\ \A i \in 1..Len(lh) : lh[i] \in Block
      /\ disk \in [Block -> Value \cup {Torn}] /\ cache \in [Block -> Value \cup {Torn, NotCached}]
  BY DEF IInv, TypeOK, HeaderInv
<1>f. {q \in Proc : pc'[q] = "op"} = {}
  <2>1. \/ pc' = pc \/ pc' = Woken([pc EXCEPT ![p] = "idle"])
        \/ \E s \in CommitPc : pc' = [pc EXCEPT ![p] = s]
    BY DEF Commit, WriteLog, WriteHead, InstallTrans, ClearHead, EndCommit, Go, CommitPc
  <2>2. \A q \in Proc : pc[q] # "op"
    BY <1>d
  <2>3. \A q \in Proc : pc'[q] # "op"
    BY <1>a, <2>1, <2>2 DEF Woken, CommitPc
  <2> QED BY <2>3
<1>1. CASE WriteLog(p)
  <2>1. UNCHANGED <<disk, head>> /\ cache' = cache /\ pc[p] = "write_log"
    BY <1>1, CacheKept DEF WriteLog
  <2>2. head = <<>>
    BY <1>b, <1>c, <2>1 DEF IInv, CommitInv, CommitPc
  <2>3. UNCHANGED Recovered
    BY <2>1, <2>2, Images, AfterEmpty
  <2>4. UNCHANGED Visible
    BY <1>b, <2>1, Images DEF Contents
  <2> QED BY <1>d, <1>f, <2>3, <2>4 DEF AD!vars
<1>2. CASE WriteHead(p)
  <2>1. UNCHANGED <<disk, logd, cache>> /\ head' = lh /\ pc[p] = "write_head"
    BY <1>2 DEF WriteHead
  <2>2. \A i : ~Installed(i)
    BY <1>c, <2>1 DEF Installed, CommitPc
  <2>3. LogHasCache(1, Len(lh))
    BY <1>b, <2>1 DEF IInv, CommitInv
  <2>4. /\ \A b \in Block : (\A i \in 1..Len(lh) : lh[i] # b) => cache[b] \in {NotCached, disk[b]}
        /\ \A i \in 1..Len(lh) : cache[lh[i]] # NotCached
    BY <1>b, <2>2 DEF IInv, BufferInv
  <2>5. Recovered' = After(lh, logd, disk)
    BY <2>1, Images
  <2>6. ASSUME NEW b \in Block PROVE After(lh, logd, disk)[b] = Contents(b)
    <3>1. CASE \E i \in 1..Len(lh) : lh[i] = b
      BY <1>e, <2>3, <2>4, <3>1, AfterIs DEF LogHasCache, Contents
    <3>2. CASE \A i \in 1..Len(lh) : lh[i] # b
      <4>1. After(lh, logd, disk)[b] = disk[b]
        BY <1>e, <3>2, AfterIs
      <4> QED BY <2>4, <3>2, <4>1 DEF Contents
    <3> QED BY <3>1, <3>2
  <2>7. Recovered' = Visible
    <3>1. Visible = [c \in Block |-> Contents(c)]
      BY <1>b, Images
    <3>2. After(lh, logd, disk) = [c \in Block |-> After(lh, logd, disk)[c]]
      BY DEF After
    <3> QED BY <2>5, <2>6, <3>1, <3>2
  <2>8. UNCHANGED Visible
    BY <1>b, <2>1, Images DEF Contents
  <2>9. AD!Commit
    BY <1>d, <1>f, <2>7, <2>8 DEF AD!Commit
  <2> QED BY <2>9 DEF AD!Next
<1>3. CASE InstallTrans(p)
  <2> DEFINE b == lh[tail]
  <2>1. /\ UNCHANGED <<logd, head>> /\ pc[p] = "install"
        /\ disk' = [disk EXCEPT ![b] = logd[tail]] /\ cache' = [cache EXCEPT ![b] = logd[tail]]
    BY <1>3 DEF InstallTrans
  <2>2. tail \in 1..Len(lh) /\ head = lh /\ LogHasCache(tail, Len(lh))
    BY <1>b, <2>1 DEF IInv, CommitInv
  <2>3. b \in Block /\ logd[tail] = cache[b]
    BY <1>e, <2>2 DEF LogHasCache
  <2>4. cache[b] # NotCached
    BY <1>b, <2>2, <2>3 DEF IInv, BufferInv, Installed
  <2>5. \A c \in Block : (\A i \in 1..Len(head) : head[i] # c) => disk'[c] = disk[c]
    BY <1>e, <2>1, <2>2
  <2>6. UNCHANGED Recovered
    BY <1>e, <2>1, <2>5, RecoveredKept
  <2>7. \A c \in Block : Contents(c)' = Contents(c)
    BY <1>e, <2>1, <2>3, <2>4 DEF Contents
  <2>8. UNCHANGED Visible
    BY <1>b, <2>7, Images
  <2> QED BY <1>d, <1>f, <2>6, <2>8 DEF AD!vars
<1>4. CASE ClearHead(p)
  <2>1. UNCHANGED <<disk, logd, cache>> /\ head' = lh /\ pc[p] = "clear"
    BY <1>4 DEF ClearHead
  <2>2. lh = <<>> /\ HomeHasLog(Len(head))
    BY <1>b, <2>1 DEF IInv, CommitInv
  <2>3. Recovered = Image(disk)
    BY <1>e, <2>2, AfterInstalled, Images DEF HomeHasLog
  <2>4. UNCHANGED Recovered
    BY <2>1, <2>2, <2>3, Images, AfterEmpty
  <2>5. UNCHANGED Visible
    BY <1>b, <2>1, Images DEF Contents
  <2> QED BY <1>d, <1>f, <2>4, <2>5 DEF AD!vars
<1>5. CASE EndCommit(p)
  <2>1. UNCHANGED <<Recovered, Visible>>
    BY <1>5, KeepsImages DEF EndCommit
  <2> QED BY <1>d, <1>f, <2>1 DEF AD!vars
<1> QED BY <1>1, <1>2, <1>3, <1>4, <1>5 DEF Commit

\* Recovery changes neither image, however often it starts again.
LEMMA AbsRecover ==
  ASSUME IInv, Recover
  PROVE  UNCHANGED AD!vars
<1>a. pc' = pc /\ boot # "up"
  BY DEF Recover, ReadHead, RecoverBlock, RecoverClear
<1>b. /\ lh \in Seq(Block) /\ head \in Seq(Block) /\ Distinct(head)
      /\ disk \in [Block -> Value \cup {Torn}]
  BY DEF IInv, TypeOK, HeaderInv
<1>1. CASE ReadHead
  <2>1. UNCHANGED onDisk /\ boot' # "up"
    BY <1>1 DEF ReadHead
  <2>2. UNCHANGED Recovered
    BY <2>1 DEF Recovered, onDisk
  <2> QED BY <1>a, <2>1, <2>2, Images DEF AD!vars
<1>2. CASE RecoverBlock
  <2>1. /\ UNCHANGED <<logd, head>> /\ boot = "install" /\ boot' # "up"
        /\ disk' = [disk EXCEPT ![lh[tail]] = logd[tail]]
    BY <1>2 DEF RecoverBlock
  <2>2. tail \in 1..Len(lh) /\ lh = head
    BY <2>1 DEF IInv, BootInv
  <2>3. \A c \in Block : (\A i \in 1..Len(head) : head[i] # c) => disk'[c] = disk[c]
    BY <1>b, <2>1, <2>2
  <2>4. UNCHANGED Recovered
    BY <1>b, <2>1, <2>3, RecoveredKept
  <2> QED BY <1>a, <2>1, <2>4, Images DEF AD!vars
<1>3. CASE RecoverClear
  <2>1. UNCHANGED <<disk, logd, cache>> /\ head' = lh /\ boot = "clear" /\ boot' = "up"
    BY <1>3 DEF RecoverClear
  <2>2. lh = <<>> /\ HomeHasLog(Len(head)) /\ \A b \in Block : cache[b] \in {NotCached, disk[b]}
    BY <2>1 DEF IInv, BootInv
  <2>3. Recovered = Image(disk)
    BY <1>b, <2>2, AfterInstalled, Images DEF HomeHasLog
  <2>4. UNCHANGED Recovered
    BY <2>1, <2>2, <2>3, Images, AfterEmpty
  <2>5. \A b \in Block : Contents(b)' = disk[b]
    BY <2>1, <2>2 DEF Contents
  <2>6. UNCHANGED Visible
    BY <1>a, <2>1, <2>3, <2>5, Images DEF Image
  <2> QED BY <1>a, <2>4, <2>6 DEF AD!vars
<1> QED BY <1>1, <1>2, <1>3 DEF Recover

\* A crash loses the current image: the write it tears is not one that the durable image rests on.
LEMMA AbsCrash ==
  ASSUME IInv, Crash
  PROVE  AD!Crash
<1>1. head' = head /\ boot' = "read" /\ pc' = [p \in Proc |-> "idle"]
  BY DEF Crash
<1>2. /\ head \in Seq(Block) /\ Distinct(head)
      /\ disk \in [Block -> Value \cup {Torn}] /\ logd \in [1..LOGSIZE -> Value \cup {Torn}]
  BY DEF IInv, TypeOK, HeaderInv
<1>3. \A i \in 1..Len(head) : logd'[i] = logd[i]
  <2>1. CASE TearsLog
    <3>1. PICK p \in Proc : boot = "up" /\ pc[p] = "write_log"
      BY <2>1 DEF TearsLog
    <3>2. \A q \in Proc : pc[q] \notin {"install", "clear"}
      BY <3>1, OneCommits DEF CommitPc
    <3>3. head = <<>>
      BY <3>1, <3>2 DEF IInv, CommitInv
    <3> QED BY <3>3
  <2>2. CASE ~TearsLog
    BY <2>2 DEF Crash
  <2> QED BY <2>1, <2>2
<1>4. \A b \in Block : (\A i \in 1..Len(head) : head[i] # b) => disk'[b] = disk[b]
  <2>1. CASE TearsHome
    <3>1. tail \in 1..Len(lh) /\ lh = head
      BY <2>1 DEF TearsHome, IInv, BootInv, CommitInv
    <3>2. disk' = disk \/ disk' = [disk EXCEPT ![lh[tail]] = Torn]
      BY DEF Crash
    <3> QED BY <1>2, <3>1, <3>2
  <2>2. CASE ~TearsHome
    BY <2>2 DEF Crash
  <2> QED BY <2>1, <2>2
<1>5. UNCHANGED Recovered
  BY <1>1, <1>2, <1>3, <1>4, RecoveredKept
<1>6. Visible' = Recovered
  BY <1>1, <1>5, Images
<1>7. {p \in Proc : pc'[p] = "op"} = {}
  BY <1>1
<1> QED BY <1>5, <1>6, <1>7 DEF AD!Crash

\* The log implements the atomic disk: a crash anywhere, during a commit or during recovery, with or
\* without a torn block, leaves the image after some group of complete operations.
THEOREM Refinement == Spec => CrashAtomic
<1>1. Init => AD!Init
  BY AbsInit
<1>2. IInv /\ [Next]_vars => [AD!Next]_AD!vars
  <2> SUFFICES ASSUME IInv, [Next]_vars PROVE [AD!Next]_AD!vars
    OBVIOUS
  <2>1. ASSUME NEW p \in Proc, BeginOp(p) \/ Brelse(p) \/ LogWrite(p) \/ EndOp(p)
        PROVE  [AD!Next]_AD!vars
    BY <2>1, AbsOps
  <2>2. ASSUME NEW p \in Proc, Commit(p) PROVE [AD!Next]_AD!vars
    BY <2>2, AbsCommit
  <2>3. ASSUME NEW b \in Block, Recycle(b) \/ \E p \in Proc : Bread(p, b) PROVE [AD!Next]_AD!vars
    BY <2>3, AbsCache
  <2>4. CASE Recover
    BY <2>4, AbsRecover
  <2>5. CASE Crash
    BY <2>5, AbsCrash DEF AD!Next
  <2>6. CASE UNCHANGED vars
    <3>1. UNCHANGED <<Recovered, Visible, pc>>
      BY <2>6, KeepsImages DEF vars, onDisk
    <3> QED BY <3>1 DEF AD!vars
  <2> QED BY <2>1, <2>2, <2>3, <2>4, <2>5, <2>6 DEF Next
<1> QED BY <1>1, <1>2, Invariance, PTL DEF Spec, CrashAtomic, AD!Spec
=============================================================================
