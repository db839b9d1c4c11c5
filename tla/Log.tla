-------------------------------- MODULE Log --------------------------------
(* The write-ahead log of the kernel (log.c) over the buffer cache (bio.c), with crashes.           *)
(* Every step that holds log.lock is one action; every disk transfer, during which the committing   *)
(* process sleeps, is one action. A crash may happen between any two of them and may tear the       *)
(* block being written, except the header, whose used part fits the first sector of its block.      *)
EXTENDS Naturals, Sequences, FiniteSets, SequencesExt

CONSTANTS Proc,          \* processes that make file system calls
          Block,         \* home blocks
          MAXOPBLOCKS,   \* blocks begin_op() reserves for an operation
          LOGSIZE,       \* entries of the header, and blocks of the log area with the header (sb.nlog)
          Torn,          \* contents of a block that a crash left half written
          NotCached, NoBlock,
          MaxOps,        \* bound on the operations of a behaviour
          MaxCrashes     \* bound on the crashes of a behaviour

ASSUME ConstAssumption == /\ IsFiniteSet(Proc)     \* NPROC entries in the process table
                          /\ MAXOPBLOCKS \in Nat \ {0}
                          /\ LOGSIZE \in Nat /\ LOGSIZE >= MAXOPBLOCKS
                          /\ MaxOps \in Nat /\ MaxCrashes \in Nat
                          /\ Torn \notin 0..MaxOps /\ NotCached \notin 0..MaxOps
                          /\ Torn # NotCached /\ NoBlock \notin Block

Value == 0..MaxOps        \* a block holds the number of the operation that wrote it last

VARIABLES disk,         \* home blocks on disk
          logd,         \* blocks of the log area on disk
          head,         \* header block on disk: the block numbers, n is its length
          cache,        \* buffer cache, by block
          pins,         \* references to a buffer taken by bpin()
          hold,         \* the buffer a process has locked
          lh,           \* log.lh in memory
          outstanding, committing,
          pc,           \* where each process is
          op,           \* number of the operation of a process
          wrote,        \* blocks an operation has passed to log_write()
          tail,         \* loop index of write_log() and install_trans()
          boot,         \* "up", or the step of recover_from_log()
          panicked, ops, crashes

onDisk == <<disk, logd, head>>
counts == <<ops, crashes>>
vars == <<disk, logd, head, cache, pins, hold, lh, outstanding, committing, pc, op, wrote, tail,
          boot, panicked, ops, crashes>>

Running == boot = "up" /\ ~panicked

NobodyWoken(f) == f                      \* slip: no wakeup(&log)

\* wakeup(&log): every process asleep in begin_op() tests its conditions again.
Woken(f) == [p \in Proc |-> IF f[p] = "asleep" THEN "begin" ELSE f[p]]

\* bread(): the cached data, or what the disk holds.
Contents(b) == IF cache[b] = NotCached THEN disk[b] ELSE cache[b]

Unlocked(b) == \A p \in Proc : hold[p] # b

Init ==
  /\ disk = [b \in Block |-> 0]
  /\ logd = [i \in 1..LOGSIZE |-> 0]
  /\ head = <<>>
  /\ cache = [b \in Block |-> NotCached]
  /\ pins = [b \in Block |-> 0]
  /\ hold = [p \in Proc |-> NoBlock]
  /\ lh = <<>> /\ outstanding = 0 /\ committing = FALSE
  /\ pc = [p \in Proc |-> "idle"]
  /\ op = [p \in Proc |-> 0]
  /\ wrote = [p \in Proc |-> {}]
  /\ tail = 1 /\ boot = "read" /\ panicked = FALSE
  /\ ops = 0 /\ crashes = 0

----------------------------------------------------------------------------
(* Operations *)

\* The op might exhaust log space.
NoSpace == Len(lh) + (outstanding + 1) * MAXOPBLOCKS > LOGSIZE

\* One turn of begin_op(): the first, or the one after a wakeup.
BeginOp(p) ==
  /\ Running /\ pc[p] \in {"idle", "begin"} /\ hold[p] = NoBlock
  /\ IF pc[p] = "idle"
       THEN ops < MaxOps /\ ops' = ops + 1 /\ op' = [op EXCEPT ![p] = ops + 1]
       ELSE UNCHANGED <<ops, op>>
  /\ IF committing \/ NoSpace
       THEN pc' = [pc EXCEPT ![p] = "asleep"] /\ UNCHANGED outstanding
       ELSE pc' = [pc EXCEPT ![p] = "op"] /\ outstanding' = outstanding + 1
  /\ UNCHANGED <<onDisk, cache, pins, hold, lh, committing, wrote, tail, boot, panicked, crashes>>

\* bread() by an operation, or by a read of a file, which is not inside an operation.
Bread(p, b) ==
  /\ Running /\ pc[p] \in {"idle", "op"} /\ hold[p] = NoBlock /\ Unlocked(b)
  /\ hold' = [hold EXCEPT ![p] = b]
  /\ cache' = [cache EXCEPT ![b] = Contents(b)]
  /\ UNCHANGED <<onDisk, pins, lh, outstanding, committing, pc, op, wrote, tail, boot, panicked, counts>>

\* brelse() of a buffer that was only read.
Brelse(p) ==
  /\ Running /\ pc[p] \in {"idle", "op"} /\ hold[p] # NoBlock
  /\ hold' = [hold EXCEPT ![p] = NoBlock]
  /\ UNCHANGED <<onDisk, cache, pins, lh, outstanding, committing, pc, op, wrote, tail, boot,
                 panicked, counts>>

TooBig == Len(lh) >= LOGSIZE \/ Len(lh) >= LOGSIZE - 1

\* The caller's change of the locked buffer, log_write() and brelse(). The callers write at most
\* MAXOPBLOCKS different blocks (param.h).
LogWrite(p) ==
  LET b == hold[p] IN
  /\ Running /\ pc[p] = "op" /\ b # NoBlock
  /\ Cardinality(wrote[p] \cup {b}) <= MAXOPBLOCKS
  /\ cache' = [cache EXCEPT ![b] = op[p]]
  /\ IF TooBig \/ outstanding < 1
       THEN panicked' = TRUE /\ UNCHANGED <<lh, pins, hold, wrote>>
       ELSE /\ lh' = IF b \in ToSet(lh) THEN lh ELSE Append(lh, b)
            /\ pins' = IF b \in ToSet(lh) THEN pins ELSE [pins EXCEPT ![b] = @ + 1]
            /\ hold' = [hold EXCEPT ![p] = NoBlock]
            /\ wrote' = [wrote EXCEPT ![p] = @ \cup {b}]
            /\ UNCHANGED panicked
  /\ UNCHANGED <<onDisk, outstanding, committing, pc, op, tail, boot, counts>>

Unheld(b) == Unlocked(b)                 \* slip: log_write() does not pin
Unreferenced(b) == Unlocked(b) /\ pins[b] = 0

\* bget() takes the buffer of a block nobody refers to for another block.
Recycle(b) ==
  /\ Running /\ cache[b] # NotCached /\ Unreferenced(b)
  /\ cache' = [cache EXCEPT ![b] = NotCached]
  /\ UNCHANGED <<onDisk, pins, hold, lh, outstanding, committing, pc, op, wrote, tail, boot,
                 panicked, counts>>

SmallIgnored == IF Len(lh) <= 1 THEN "done" ELSE "write_log"    \* slip: if (log.lh.n > 1)

\* commit() does nothing without modified blocks.
CommitStart == IF lh = <<>> THEN "done" ELSE "write_log"

\* end_op() up to its first release().
EndOp(p) ==
  /\ Running /\ pc[p] = "op" /\ hold[p] = NoBlock
  /\ outstanding' = outstanding - 1
  /\ wrote' = [wrote EXCEPT ![p] = {}] /\ op' = [op EXCEPT ![p] = 0]
  /\ IF committing THEN panicked' = TRUE /\ UNCHANGED <<committing, pc, tail>>
     ELSE /\ UNCHANGED panicked
          /\ IF outstanding' = 0
               THEN /\ committing' = TRUE
                    /\ pc' = [pc EXCEPT ![p] = CommitStart]
                    /\ tail' = 1
               ELSE /\ pc' = Woken([pc EXCEPT ![p] = "idle"])
                    /\ UNCHANGED <<committing, tail>>
  /\ UNCHANGED <<onDisk, cache, pins, hold, lh, boot, counts>>

----------------------------------------------------------------------------
(* commit(), by the process whose end_op() found no other operation *)

Go(p, next) == pc' = [pc EXCEPT ![p] = next]

\* One turn of write_log(): copy a modified block from the cache to the log.
WriteLog(p) ==
  /\ Running /\ pc[p] = "write_log" /\ Unlocked(lh[tail])
  /\ logd' = [logd EXCEPT ![tail] = Contents(lh[tail])]
  /\ cache' = [cache EXCEPT ![lh[tail]] = Contents(lh[tail])]
  /\ tail' = tail + 1
  /\ Go(p, IF tail = Len(lh) THEN "write_head" ELSE "write_log")
  /\ UNCHANGED <<disk, head, pins, hold, lh, outstanding, committing, op, wrote, boot, panicked, counts>>

\* write_head(): the real commit.
WriteHead(p) ==
  /\ Running /\ pc[p] = "write_head"
  /\ head' = lh
  /\ tail' = 1
  /\ Go(p, "install")
  /\ UNCHANGED <<disk, logd, cache, pins, hold, lh, outstanding, committing, op, wrote, boot,
                 panicked, counts>>

\* One turn of install_trans(0), and log.lh.n = 0 after the last.
InstallTrans(p) ==
  LET b == lh[tail] IN
  /\ Running /\ pc[p] = "install" /\ Unlocked(b)
  /\ disk' = [disk EXCEPT ![b] = logd[tail]]
  /\ cache' = [cache EXCEPT ![b] = logd[tail]]
  /\ pins' = [pins EXCEPT ![b] = @ - 1]
  /\ IF tail = Len(lh) THEN lh' = <<>> /\ tail' = 1 /\ Go(p, "clear")
                       ELSE tail' = tail + 1 /\ UNCHANGED <<lh, pc>>
  /\ UNCHANGED <<logd, head, hold, outstanding, committing, op, wrote, boot, panicked, counts>>

\* The second write_head(): erase the transaction from the log.
ClearHead(p) ==
  /\ Running /\ pc[p] = "clear"
  /\ head' = lh
  /\ Go(p, "done")
  /\ UNCHANGED <<disk, logd, cache, pins, hold, lh, outstanding, committing, op, wrote, tail, boot,
                 panicked, counts>>

\* The end of end_op().
EndCommit(p) ==
  /\ Running /\ pc[p] = "done"
  /\ committing' = FALSE
  /\ pc' = Woken([pc EXCEPT ![p] = "idle"])
  /\ UNCHANGED <<onDisk, cache, pins, hold, lh, outstanding, op, wrote, tail, boot, panicked, counts>>

----------------------------------------------------------------------------
(* Crash and recover_from_log(), which runs before any other process *)

\* The write that a crash interrupts may have reached the disk in part. External: the disk.
TearsLog == boot = "up" /\ \E p \in Proc : pc[p] = "write_log"
TearsHome == boot = "install" \/ (boot = "up" /\ \E p \in Proc : pc[p] = "install")

Crash ==
  /\ crashes < MaxCrashes
  /\ crashes' = crashes + 1
  /\ logd' \in {logd} \cup (IF TearsLog THEN {[logd EXCEPT ![tail] = Torn]} ELSE {})
  /\ disk' \in {disk} \cup (IF TearsHome THEN {[disk EXCEPT ![lh[tail]] = Torn]} ELSE {})
  /\ cache' = [b \in Block |-> NotCached]
  /\ pins' = [b \in Block |-> 0]
  /\ hold' = [p \in Proc |-> NoBlock]
  /\ lh' = <<>> /\ outstanding' = 0 /\ committing' = FALSE
  /\ pc' = [p \in Proc |-> "idle"]
  /\ op' = [p \in Proc |-> 0]
  /\ wrote' = [p \in Proc |-> {}]
  /\ tail' = 1 /\ boot' = "read" /\ panicked' = FALSE
  /\ UNCHANGED <<head, ops>>

\* read_head(), called by recover_from_log().
ReadHead ==
  /\ boot = "read"
  /\ lh' = head
  /\ boot' = IF head = <<>> THEN "clear" ELSE "install"
  /\ UNCHANGED <<onDisk, cache, pins, hold, outstanding, committing, pc, op, wrote, tail, panicked, counts>>

\* One turn of install_trans(1), which does not unpin.
RecoverBlock ==
  /\ boot = "install"
  /\ disk' = [disk EXCEPT ![lh[tail]] = logd[tail]]
  /\ cache' = [cache EXCEPT ![lh[tail]] = logd[tail]]
  /\ IF tail = Len(lh) THEN lh' = <<>> /\ tail' = 1 /\ boot' = "clear"
                       ELSE tail' = tail + 1 /\ UNCHANGED <<lh, boot>>
  /\ UNCHANGED <<logd, head, pins, hold, outstanding, committing, pc, op, wrote, panicked, counts>>

\* write_head() at the end of recover_from_log().
RecoverClear ==
  /\ boot = "clear"
  /\ head' = lh
  /\ boot' = "up"
  /\ UNCHANGED <<disk, logd, cache, pins, hold, lh, outstanding, committing, pc, op, wrote, tail,
                 panicked, counts>>

Commit(p) == WriteLog(p) \/ WriteHead(p) \/ InstallTrans(p) \/ ClearHead(p) \/ EndCommit(p)

Recover == ReadHead \/ RecoverBlock \/ RecoverClear

Next == \/ \E p \in Proc : BeginOp(p) \/ Brelse(p) \/ LogWrite(p) \/ EndOp(p) \/ Commit(p)
        \/ \E p \in Proc, b \in Block : Bread(p, b)
        \/ \E b \in Block : Recycle(b)
        \/ Recover
        \/ Crash

\* The round-robin scheduler runs every process and the disk completes its transfers; a file system
\* call releases its buffers and ends after a bounded number of them. A process woken in begin_op()
\* runs again. The committing process gets a buffer that readers release again and again (strong
\* fairness): nothing ties the moments it runs to the moments they hold the lock.
Fairness == /\ \A p \in Proc : /\ WF_vars(pc[p] = "begin" /\ BeginOp(p))
                               /\ WF_vars(Brelse(p)) /\ SF_vars(EndOp(p)) /\ SF_vars(Commit(p))
            /\ WF_vars(Recover)

Spec == Init /\ [][Next]_vars /\ Fairness

----------------------------------------------------------------------------
(* Properties *)

TypeOK ==
  /\ disk \in [Block -> Value \cup {Torn}]
  /\ logd \in [1..LOGSIZE -> Value \cup {Torn}]
  /\ head \in Seq(Block) /\ lh \in Seq(Block)
  /\ cache \in [Block -> Value \cup {Torn, NotCached}]
  /\ pins \in [Block -> Nat]
  /\ hold \in [Proc -> Block \cup {NoBlock}]
  /\ outstanding \in Nat /\ committing \in BOOLEAN
  /\ pc \in [Proc -> {"idle", "begin", "asleep", "op", "write_log", "write_head", "install", "clear", "done"}]
  /\ op \in [Proc -> Value] /\ wrote \in [Proc -> SUBSET Block]
  /\ tail \in 1..LOGSIZE + 1
  /\ boot \in {"up", "read", "install", "clear"} /\ panicked \in BOOLEAN
  /\ ops \in 0..MaxOps /\ crashes \in 0..MaxCrashes

\* What recovery makes of the disk as it is now: a block named by the header comes from the log.
Recovered == [b \in Block |->
                IF \E i \in 1..Len(head) : head[i] = b
                THEN logd[CHOOSE i \in 1..Len(head) : head[i] = b] ELSE disk[b]]

\* What the operations see. While the kernel is booting nobody looks.
Visible == IF boot = "up" THEN [b \in Block |-> Contents(b)] ELSE Recovered

AD == INSTANCE AtomicDisk WITH durable <- Recovered, current <- Visible,
                               active <- {p \in Proc : pc[p] = "op"}

\* The log implements the atomic disk: what a crash at any point leaves, torn writes and crashes
\* during recovery included, is the image after some group of complete operations (log.c:13-17).
CrashAtomic == AD!Spec

\* When no operation is in progress and no commit runs, everything that was written is durable:
\* end_op() of the last operation returns only after its commit (log.c:144-175).
QuietIsDurable == boot = "up" /\ outstanding = 0 /\ ~committing => Recovered = Visible

\* A process that waits in begin_op() for log space or for a commit gets its turn, unless the machine
\* stops: no wakeup is lost (log.c:126-142, 155-159, 171-172).
BeginOpReturns == \A p \in Proc : pc[p] \in {"asleep", "begin"} ~> (pc[p] \in {"op", "idle"} \/ panicked)
=============================================================================
