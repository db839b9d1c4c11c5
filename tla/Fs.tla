--------------------------------- MODULE Fs ---------------------------------
(* The file system above the log: inodes, the inode table, directories, path names (fs.c) and the   *)
(* system calls that change them (sysfile.c, file.c). The steps of a call are its critical sections *)
(* under an inode's sleep-lock; iput() is a step of its own because it works under itable.lock, and *)
(* two steps when it frees the inode. The disk under the log is atomic (AtomicDisk, which Log       *)
(* implements): a crash goes back to a moment when no call was inside a transaction, so it is       *)
(* enough to let it happen at such moments.                                                         *)
EXTENDS Naturals, Sequences, FiniteSets

CONSTANTS Proc,
          Inum,        \* 1..NINODES; 1 is ROOTINO
          Block,       \* data blocks; numbers, the first is the root directory's
          Name,        \* names of directory entries
          Path,        \* paths that calls are made with: <<"/", ...>> or relative
          Call,        \* system calls that are made
          MaxCalls,    \* bound on the calls made
          None

ASSUME FsAssumption == /\ IsFiniteSet(Proc) /\ None \notin Proc
                       /\ 1 \in Inum /\ Inum \subseteq Nat \ {0} /\ IsFiniteSet(Inum)
                       /\ 1 \in Block /\ Block \subseteq Nat \ {0}
                       /\ ".." \notin Name /\ "/" \notin Name /\ IsFiniteSet(Name)
                       /\ Path \subseteq Seq(Name \cup {"/", ".."}) \ {<<>>}
                       /\ Call \subseteq {"open", "create", "mkdir", "mknod", "link", "unlink",
                                          "chdir", "close", "write"}
                       /\ MaxCalls \in Nat

VARIABLES dinode,      \* inodes on disk (in the buffer cache)
          ents,        \* the content of directories; "." is left out
          used,        \* the bitmap: blocks in use
          inode, valid, ref, lock,   \* the inode table, by inode number
          cwd, file,   \* current directory and open file of a process, which has one descriptor
          pc, op, path, new,         \* a call, the rest of its path and the second path of link()
          cur, ip,     \* inodes a call holds: of namex(), then dp; and the file it works on
          puts,        \* iput()s to do: <<inode, whether it has just been freed>>
          calls

disk  == <<dinode, ents, used>>
table == <<inode, valid, ref, lock>>
held  == <<cwd, file>>
local == <<pc, op, path, new, cur, ip, puts>>
fsVars == <<disk, table, held, local, calls>>

root == 1
Entry == Name \cup {".."}
FreeInode == [type |-> "free", nlink |-> 0, addr |-> 0]
NoEnts == [n \in Entry |-> 0]

MinOf(S) == CHOOSE x \in S : \A y \in S : x <= y

\* Every process starts in the root directory.
RootRefs == [i \in Inum |-> IF i = root THEN Cardinality(Proc) ELSE 0]

\* The image mkfs makes, with an empty root directory, and the table after iinit().
FsInit ==
  /\ dinode = [i \in Inum |-> IF i = root THEN [type |-> "dir", nlink |-> 1, addr |-> 1] ELSE FreeInode]
  /\ ents = [i \in Inum |-> IF i = root THEN [NoEnts EXCEPT ![".."] = root] ELSE NoEnts]
  /\ used = {1}
  /\ inode = [i \in Inum |-> FreeInode] /\ valid = [i \in Inum |-> FALSE]
  /\ ref = RootRefs /\ lock = [i \in Inum |-> None]
  /\ cwd = [p \in Proc |-> root] /\ file = [p \in Proc |-> 0]
  /\ pc = [p \in Proc |-> "idle"] /\ op = [p \in Proc |-> None]
  /\ path = [p \in Proc |-> <<>>] /\ new = [p \in Proc |-> <<>>]
  /\ cur = [p \in Proc |-> 0] /\ ip = [p \in Proc |-> 0] /\ puts = [p \in Proc |-> <<>>]
  /\ calls = 0

----------------------------------------------------------------------------
(* Inodes *)

\* What ilock() makes of the in-memory copy.
Loaded(i) == IF valid[i] THEN inode[i] ELSE dinode[i]

\* ilock() can return.
Ilock(i) == lock[i] = None /\ Loaded(i).type # "free"

\* ilock() and later iunlock() in one step, with nothing written.
Peek(i) == /\ inode' = [inode EXCEPT ![i] = Loaded(i)]
           /\ valid' = [valid EXCEPT ![i] = TRUE]

\* In-memory inodes changed under their locks, and iupdate().
Iupdate(f) == /\ inode' = [i \in Inum |-> IF i \in DOMAIN f THEN f[i] ELSE inode[i]]
              /\ dinode' = [i \in Inum |-> IF i \in DOMAIN f THEN f[i] ELSE dinode[i]]
              /\ valid' = [i \in Inum |-> i \in DOMAIN f \/ valid[i]]

At(p, s) == pc[p] = s /\ puts[p] = <<>>
Goto(p, s) == pc' = [pc EXCEPT ![p] = s]
Put(p, s) == puts' = [puts EXCEPT ![p] = [k \in DOMAIN s |-> <<s[k], FALSE>>]]
Hold(p, c, i) == cur' = [cur EXCEPT ![p] = c] /\ ip' = [ip EXCEPT ![p] = i]

NotFreed(r) == used                      \* slip: bfree() is forgotten
Truncated(r) == used \ {r.addr}          \* itrunc()

NoLinks(i) == valid[i] /\ inode[i].nlink = 0      \* slip: other references are not looked at
LastOne(i) == ref[i] = 1 /\ valid[i] /\ inode[i].nlink = 0

StaysValid(i) == valid                   \* slip: ip->valid = 0 is forgotten
Invalidated(i) == [valid EXCEPT ![i] = FALSE]

\* iput() of the last reference to an inode without links: itrunc(), type = 0, iupdate(), valid = 0.
IputFree(p) ==
  LET i == puts[p][1][1] IN
  /\ puts[p] # <<>> /\ ~puts[p][1][2]
  /\ LastOne(i)
  /\ used' = Truncated(inode[i])
  /\ ents' = [ents EXCEPT ![i] = NoEnts]
  /\ inode' = [inode EXCEPT ![i] = FreeInode] /\ dinode' = [dinode EXCEPT ![i] = FreeInode]
  /\ valid' = Invalidated(i)
  /\ puts' = [puts EXCEPT ![p][1][2] = TRUE]
  /\ UNCHANGED <<ref, lock, held, pc, op, path, new, cur, ip, calls>>

\* ... and the end of iput().
IputDrop(p) ==
  LET i == puts[p][1][1] IN
  /\ puts[p] # <<>>
  /\ puts[p][1][2] \/ ~LastOne(i)
  /\ ref' = [ref EXCEPT ![i] = @ - 1]
  /\ puts' = [puts EXCEPT ![p] = Tail(@)]
  /\ UNCHANGED <<disk, inode, valid, lock, held, pc, op, path, new, cur, ip, calls>>

\* What ialloc() chooses from, and what it takes.
FreeInums == {i \in Inum : dinode[i].type = "free"}
ialloc == MinOf(FreeInums)

\* What balloc() chooses from, and what it takes.
FreeBlocks == Block \ used
balloc == MinOf(FreeBlocks)

\* Directories, under the lock of the directory.
dirlookup(d, n) == ents[d][n]
dirlink(d, n, i) == [ents EXCEPT ![d][n] = i]

----------------------------------------------------------------------------
(* Path names *)

\* namex() takes the start of a path.
StartOf(p, s) == IF Head(s) = "/" THEN root ELSE cwd[p]
Elems(s) == IF Head(s) = "/" THEN Tail(s) ELSE s

\* A system call with a path: begin_op(), then namex().
Begin(p, o, s, t) ==
  /\ At(p, "idle") /\ o \in Call \ {"close", "write"}
  /\ calls < MaxCalls /\ calls' = calls + 1
  /\ o = "link" \/ t = s
  /\ op' = [op EXCEPT ![p] = o] /\ Goto(p, "namex")
  /\ path' = [path EXCEPT ![p] = Elems(s)] /\ new' = [new EXCEPT ![p] = IF o = "link" THEN t ELSE <<>>]
  /\ Hold(p, StartOf(p, s), 0)
  /\ ref' = [ref EXCEPT ![StartOf(p, s)] = @ + 1]
  /\ UNCHANGED <<disk, inode, valid, lock, held, puts>>

nameiparent(p) == op[p] \in {"create", "mkdir", "mknod", "unlink", "link to"}

\* Where a call goes when namex() returns 0: link() has to take back its nlink++.
Failed(p) == IF op[p] = "link to" THEN "bad" ELSE "end"

NoNameKept(p) ==                         \* slip: the inode is not put
  Goto(p, Failed(p)) /\ Hold(p, 0, ip[p]) /\ UNCHANGED puts
NoName(p) == Goto(p, Failed(p)) /\ Hold(p, 0, ip[p]) /\ Put(p, <<cur[p]>>)

\* One turn of the loop of namex().
NamexStep(p) ==
  LET d == cur[p]
      n == dirlookup(d, Head(path[p]))
  IN
  /\ At(p, "namex") /\ path[p] # <<>> /\ Ilock(d)
  /\ Peek(d)
  /\ \/ /\ Loaded(d).type # "dir" \/ (n = 0 /\ ~(nameiparent(p) /\ Len(path[p]) = 1))
        /\ NoName(p)
        /\ UNCHANGED <<path, ref>>
     \/ /\ Loaded(d).type = "dir" /\ nameiparent(p) /\ Len(path[p]) = 1
        /\ Goto(p, "found")
        /\ UNCHANGED <<path, ref, puts, cur, ip>>
     \/ /\ Loaded(d).type = "dir" /\ n # 0 /\ ~(nameiparent(p) /\ Len(path[p]) = 1)
        /\ ref' = [ref EXCEPT ![n] = @ + 1]
        /\ Put(p, <<d>>) /\ Hold(p, n, ip[p])
        /\ path' = [path EXCEPT ![p] = Tail(@)]
        /\ UNCHANGED pc
  /\ UNCHANGED <<disk, lock, held, op, new, calls>>

\* The end of the path.
NamexEnd(p) ==
  /\ At(p, "namex") /\ path[p] = <<>>
  /\ \/ /\ nameiparent(p)
        /\ NoName(p)
     \/ /\ ~nameiparent(p)
        /\ Goto(p, "found") /\ Hold(p, 0, cur[p])
        /\ UNCHANGED puts
  /\ UNCHANGED <<disk, table, held, op, path, new, calls>>

\* The inode a call is about to lock.
Wanted(p) == CASE puts[p] # <<>> -> 0
               [] pc[p] = "namex" /\ path[p] # <<>> -> cur[p]
               [] pc[p] = "found" -> IF nameiparent(p) THEN cur[p] ELSE ip[p]
               [] pc[p] \in {"exists", "made", "victim", "bad", "write"} -> ip[p]
               [] OTHER -> 0

\* panic("ilock: no type"): it would find a freed inode.
IlockPanics(p) == Wanted(p) # 0 /\ lock[Wanted(p)] = None /\ Loaded(Wanted(p)).type = "free"

----------------------------------------------------------------------------
(* open(), mkdir(), mknod() *)

\* The rest of sys_open() with ip locked: O_TRUNC may be given; filealloc() or fdalloc() fails when the
\* process's one descriptor is taken, and a directory may not be opened for writing.
OpenIp(p, i) ==
  \/ /\ file[p] = 0
     /\ file' = [file EXCEPT ![p] = i]
     /\ \/ Peek(i) /\ UNCHANGED <<used, dinode>>
        \/ /\ Loaded(i).type = "file"
           /\ used' = Truncated(Loaded(i))
           /\ Iupdate([j \in {i} |-> [Loaded(i) EXCEPT !.addr = 0]])
     /\ UNCHANGED puts
  \/ /\ file[p] # 0 \/ Loaded(i).type = "dir"
     /\ Peek(i) /\ Put(p, <<i>>)
     /\ UNCHANGED <<used, dinode, file>>

OpenFound(p) ==
  LET i == ip[p] IN
  /\ At(p, "found") /\ op[p] = "open" /\ Ilock(i)
  /\ OpenIp(p, i) /\ Goto(p, "end") /\ Hold(p, 0, 0)
  /\ UNCHANGED <<ents, ref, lock, cwd, op, path, new, calls>>

\* The type sys_open(), sys_mkdir() and sys_mknod() ask create() for.
TypeFor == [create |-> "file", mkdir |-> "dir", mknod |-> "device"]

\* create(): under the lock of the parent, dirlookup() and ialloc().
CreateLookup(p) ==
  LET d == cur[p]
      n == dirlookup(d, Head(path[p]))
  IN
  /\ At(p, "found") /\ op[p] \in {"create", "mkdir", "mknod"} /\ Ilock(d)
  /\ Peek(d)
  /\ \/ /\ n # 0
        /\ ref' = [ref EXCEPT ![n] = @ + 1]
        /\ Goto(p, "exists") /\ Put(p, <<d>>) /\ Hold(p, 0, n)
        /\ UNCHANGED <<dinode, lock>>
     \/ /\ n = 0 /\ FreeInums = {}
        /\ Goto(p, "end") /\ Put(p, <<d>>) /\ Hold(p, 0, 0)
        /\ UNCHANGED <<dinode, ref, lock>>
     \/ /\ n = 0 /\ FreeInums # {}
        /\ LET i == ialloc
               t == TypeFor[op[p]] IN
             /\ dinode' = [dinode EXCEPT ![i] = [FreeInode EXCEPT !.type = t]]
             /\ ref' = [ref EXCEPT ![i] = @ + 1]
             /\ Hold(p, d, i)
        /\ lock' = [lock EXCEPT ![d] = p]
        /\ Goto(p, "made")
        /\ UNCHANGED puts
  /\ UNCHANGED <<ents, used, held, op, path, new, calls>>

\* The name exists: only open() of a file or device goes on.
CreateExists(p) ==
  LET i == ip[p] IN
  /\ At(p, "exists") /\ Ilock(i)
  /\ \/ op[p] = "create" /\ Loaded(i).type # "dir" /\ OpenIp(p, i)
     \/ /\ ~(op[p] = "create" /\ Loaded(i).type # "dir")
        /\ Peek(i) /\ Put(p, <<i>>)
        /\ UNCHANGED <<used, dinode, file>>
  /\ Goto(p, "end") /\ Hold(p, 0, 0)
  /\ UNCHANGED <<ents, ref, lock, cwd, op, path, new, calls>>

LeftLocked(d) == UNCHANGED lock          \* slip: no iunlock()
Iunlock(d) == lock' = [lock EXCEPT ![d] = None]

\* The new inode gets its link and its entry; a directory needs a block for its own entries first,
\* and without one everything is taken back.
CreateMade(p) ==
  LET d == cur[p]
      i == ip[p]
      isDir == Loaded(i).type = "dir"
      parent == [inode[d] EXCEPT !.nlink = IF isDir THEN @ + 1 ELSE @]
      child(b) == [Loaded(i) EXCEPT !.nlink = 1, !.addr = b]
  IN
  /\ At(p, "made") /\ Ilock(i)
  /\ \/ /\ isDir /\ FreeBlocks = {}
        /\ Iupdate([j \in {i} |-> [Loaded(i) EXCEPT !.nlink = 0]])
        /\ Put(p, <<i, d>>)
        /\ UNCHANGED <<ents, used, file>>
     \/ /\ isDir /\ FreeBlocks # {}
        /\ used' = used \cup {balloc}
        /\ Iupdate([j \in {i, d} |-> IF j = d THEN parent ELSE child(balloc)])
        /\ ents' = [dirlink(d, Head(path[p]), i) EXCEPT ![i][".."] = d]
        /\ Put(p, <<d, i>>)
        /\ UNCHANGED file
     \/ /\ ~isDir
        /\ Iupdate([j \in {i} |-> child(0)])
        /\ ents' = dirlink(d, Head(path[p]), i)
        /\ \/ op[p] = "create" /\ file[p] = 0 /\ Put(p, <<d>>) /\ file' = [file EXCEPT ![p] = i]
           \/ (op[p] = "mknod" \/ file[p] # 0) /\ Put(p, <<d, i>>) /\ UNCHANGED file
        /\ UNCHANGED used
  /\ Iunlock(d)
  /\ Goto(p, "end") /\ Hold(p, 0, 0)
  /\ UNCHANGED <<ref, cwd, op, path, new, calls>>

----------------------------------------------------------------------------
(* link(), unlink() *)

Uncounted(r) == r                        \* slip: nlink stays
Counted(r) == [r EXCEPT !.nlink = @ + 1]

\* link() raises nlink first, then looks for the directory of the new name.
LinkCount(p) ==
  LET i == ip[p]
      s == new[p]
  IN
  /\ At(p, "found") /\ op[p] = "link" /\ Ilock(i)
  /\ \/ /\ Loaded(i).type = "dir"
        /\ Peek(i) /\ Put(p, <<i>>) /\ Hold(p, 0, 0) /\ Goto(p, "end")
        /\ UNCHANGED <<dinode, ref, op, path>>
     \/ /\ Loaded(i).type # "dir"
        /\ Iupdate([j \in {i} |-> Counted(Loaded(i))])
        /\ op' = [op EXCEPT ![p] = "link to"] /\ Goto(p, "namex")
        /\ path' = [path EXCEPT ![p] = Elems(s)]
        /\ Hold(p, StartOf(p, s), i)
        /\ ref' = [ref EXCEPT ![StartOf(p, s)] = @ + 1]
        /\ UNCHANGED puts
  /\ UNCHANGED <<ents, used, lock, held, new, calls>>

\* dirlink(), which fails if the name is there; its own iget() and iput() of that inode cancel out.
LinkEnter(p) ==
  LET d == cur[p] IN
  /\ At(p, "found") /\ op[p] = "link to" /\ Ilock(d)
  /\ Peek(d)
  /\ \/ /\ dirlookup(d, Head(path[p])) # 0
        /\ Put(p, <<d>>) /\ Hold(p, 0, ip[p]) /\ Goto(p, "bad")
        /\ UNCHANGED ents
     \/ /\ dirlookup(d, Head(path[p])) = 0
        /\ ents' = dirlink(d, Head(path[p]), ip[p])
        /\ Put(p, <<d, ip[p]>>) /\ Hold(p, 0, 0) /\ Goto(p, "end")
  /\ UNCHANGED <<dinode, used, ref, lock, held, op, path, new, calls>>

\* bad: nlink goes back.
LinkBad(p) ==
  LET i == ip[p] IN
  /\ At(p, "bad") /\ Ilock(i)
  /\ Iupdate([j \in {i} |-> [Loaded(i) EXCEPT !.nlink = @ - 1]])
  /\ Put(p, <<i>>) /\ Hold(p, 0, 0) /\ Goto(p, "end")
  /\ UNCHANGED <<ents, used, ref, lock, held, op, path, new, calls>>

\* unlink(): under the lock of the parent, find the victim; ".." is refused.
UnlinkLookup(p) ==
  LET d == cur[p]
      n == dirlookup(d, Head(path[p]))
  IN
  /\ At(p, "found") /\ op[p] = "unlink" /\ Ilock(d)
  /\ Peek(d)
  /\ \/ /\ Head(path[p]) = ".." \/ n = 0
        /\ Put(p, <<d>>) /\ Hold(p, 0, 0) /\ Goto(p, "end")
        /\ UNCHANGED <<ref, lock>>
     \/ /\ Head(path[p]) # ".." /\ n # 0
        /\ ref' = [ref EXCEPT ![n] = @ + 1]
        /\ lock' = [lock EXCEPT ![d] = p]
        /\ Hold(p, d, n) /\ Goto(p, "victim")
        /\ UNCHANGED puts
  /\ UNCHANGED <<disk, held, op, path, new, calls>>

\* panic("unlink: nlink < 1")
UnlinkPanics(p) == pc[p] = "victim" /\ lock[ip[p]] = None /\ Loaded(ip[p]).nlink = 0

isdirempty(i) == \A n \in Name : ents[i][n] = 0

\* Under both locks: the entry goes, and the link counts go down.
UnlinkVictim(p) ==
  LET d == cur[p]
      i == ip[p]
      isDir == Loaded(i).type = "dir"
      less(r) == [r EXCEPT !.nlink = @ - 1]
  IN
  /\ At(p, "victim") /\ Ilock(i)
  /\ ~UnlinkPanics(p)
  /\ \/ /\ isDir /\ ~isdirempty(i)
        /\ Peek(i) /\ Put(p, <<i, d>>)
        /\ UNCHANGED <<dinode, ents>>
     \/ /\ ~(isDir /\ ~isdirempty(i))
        /\ ents' = [ents EXCEPT ![d][Head(path[p])] = 0]
        /\ Iupdate([j \in {i, d} |-> IF j = i THEN less(Loaded(i))
                                     ELSE IF isDir THEN less(inode[d]) ELSE inode[d]])
        /\ Put(p, <<d, i>>)
  /\ Iunlock(d)
  /\ Hold(p, 0, 0) /\ Goto(p, "end")
  /\ UNCHANGED <<used, ref, held, op, path, new, calls>>

----------------------------------------------------------------------------
(* chdir(), close(), write(), the end of a call, and a crash *)

ChdirFound(p) ==
  LET i == ip[p] IN
  /\ At(p, "found") /\ op[p] = "chdir" /\ Ilock(i)
  /\ Peek(i)
  /\ \/ Loaded(i).type # "dir" /\ Put(p, <<i>>) /\ UNCHANGED cwd
     \/ Loaded(i).type = "dir" /\ Put(p, <<cwd[p]>>) /\ cwd' = [cwd EXCEPT ![p] = i]
  /\ Goto(p, "end") /\ Hold(p, 0, 0)
  /\ UNCHANGED <<disk, ref, lock, file, op, path, new, calls>>

\* fileclose() of the last descriptor.
Close(p) ==
  /\ At(p, "idle") /\ "close" \in Call /\ file[p] # 0
  /\ calls < MaxCalls /\ calls' = calls + 1
  /\ op' = [op EXCEPT ![p] = "close"]
  /\ Put(p, <<file[p]>>) /\ file' = [file EXCEPT ![p] = 0] /\ Goto(p, "end")
  /\ UNCHANGED <<disk, table, cwd, path, new, cur, ip>>

\* filewrite(): a transaction for the first block of the file.
Write(p) ==
  /\ At(p, "idle") /\ "write" \in Call /\ file[p] # 0
  /\ calls < MaxCalls /\ calls' = calls + 1
  /\ op' = [op EXCEPT ![p] = "write"]
  /\ ip' = [ip EXCEPT ![p] = file[p]] /\ Goto(p, "write")
  /\ UNCHANGED <<disk, table, held, path, new, cur, puts>>

\* writei() and bmap(): balloc() if the file has no block yet, which may fail.
Writei(p) ==
  LET i == ip[p]
      grow == Loaded(i).type = "file" /\ Loaded(i).addr = 0 /\ FreeBlocks # {}
  IN
  /\ At(p, "write") /\ Ilock(i)
  /\ used' = IF grow THEN used \cup {balloc} ELSE used
  /\ Iupdate([j \in {i} |-> IF grow THEN [Loaded(i) EXCEPT !.addr = balloc] ELSE Loaded(i)])
  /\ Goto(p, "end") /\ Hold(p, 0, 0)
  /\ UNCHANGED <<ents, ref, lock, held, op, path, new, puts, calls>>

\* end_op()
EndOp(p) ==
  /\ At(p, "end")
  /\ Goto(p, "idle")
  /\ op' = [op EXCEPT ![p] = None] /\ path' = [path EXCEPT ![p] = <<>>] /\ new' = [new EXCEPT ![p] = <<>>]
  /\ UNCHANGED <<disk, table, held, cur, ip, puts, calls>>

Crash ==
  /\ \A p \in Proc : pc[p] = "idle"
  /\ inode' = [i \in Inum |-> FreeInode] /\ valid' = [i \in Inum |-> FALSE]
  /\ ref' = RootRefs
  /\ cwd' = [p \in Proc |-> root] /\ file' = [p \in Proc |-> 0]
  /\ UNCHANGED <<disk, lock, local, calls>>

Step(p) == \/ NamexStep(p) \/ NamexEnd(p) \/ IputFree(p) \/ IputDrop(p)
           \/ OpenFound(p) \/ CreateLookup(p) \/ CreateExists(p) \/ CreateMade(p)
           \/ LinkCount(p) \/ LinkEnter(p) \/ LinkBad(p)
           \/ UnlinkLookup(p) \/ UnlinkVictim(p) \/ ChdirFound(p) \/ Writei(p) \/ EndOp(p)

FsNext == \/ Crash
          \/ \E p \in Proc : \/ Step(p) \/ Close(p) \/ Write(p)
                           \/ \E o \in Call, s, t \in Path : Begin(p, o, s, t)

FsSpec == FsInit /\ [][FsNext]_fsVars

----------------------------------------------------------------------------
(* Properties *)

\* Everything a path from the root can name: what is in every set that has the root and what is named
\* in its directories.
Closed(S) == root \in S /\ \A d \in S, n \in Name : ents[d][n] = 0 \/ ents[d][n] \in S
Reachable == {i \in Inum : \A S \in SUBSET Inum : Closed(S) => i \in S}

\* The directories a path from the root can reach.
LiveDirs == {i \in Reachable : dinode[i].type = "dir"}

Links(i) == Cardinality({s \in LiveDirs \X Name : ents[s[1]][s[2]] = i})
Subdirs(i) == IF i \in LiveDirs
              THEN Cardinality({n \in Name : ents[i][n] # 0 /\ dinode[ents[i][n]].type = "dir"}) ELSE 0

\* After a crash at any time, a name that a path can reach belongs to an allocated inode whose link
\* count covers all its names and, for a directory, its subdirectories' "..": it cannot be freed
\* before its last name goes (fs.c:341, sysfile.c:145-166, 222-233, 273-297).
NamesValid ==
  \A i \in Reachable :
    /\ dinode[i].type # "free"
    /\ dinode[i].nlink >= IF dinode[i].type = "dir" THEN 1 + Subdirs(i) ELSE Links(i)

\* No block belongs to two inodes, an inode's block is marked in the bitmap, and between transactions
\* every marked block belongs to an inode (fs.c:66-105, 341-358, 388-395, 432-437).
BlocksOwned ==
  /\ \A i, j \in Inum : i # j /\ dinode[i].addr # 0 => dinode[i].addr # dinode[j].addr
  /\ used = {dinode[i].addr : i \in Inum} \ {0}

\* The k-th pointer of a process, 0 if it has none. The ip of write() is the open file's.
Pointer(p, k) == CASE k = 1 -> cwd[p]
                   [] k = 2 -> file[p]
                   [] k = 3 -> cur[p]
                   [] k = 4 -> IF pc[p] = "write" THEN 0 ELSE ip[p]
                   [] OTHER -> IF k - 4 \in DOMAIN puts[p] THEN puts[p][k - 4][1] ELSE 0

\* The number of pointers to an inode.
Pointers(i) == Cardinality({s \in Proc \X (1..6) : Pointer(s[1], s[2]) = i})

\* ref counts exactly the pointers that open files, current directories and running calls have: no
\* error path drops one twice or forgets it (fs.c:664-676, sysfile.c:138-168, 239-241, 256-300).
RefsExact == \A i \in Inum : ref[i] = Pointers(i)

\* An inode that a process has open, or works on, stays allocated, whoever removes its names, and its
\* in-memory copy is the one on disk: not that of an earlier file with the same number
\* (fs.c:273, 303, 341-353).
InUseKept ==
  /\ \A i \in Inum : ref[i] > 0 /\ valid[i] => inode[i] = dinode[i] /\ dinode[i].type # "free"
  /\ \A p \in Proc : \A i \in {cwd[p], file[p], cur[p], ip[p]} \ {0} : dinode[i].type # "free"

\* Calls that wait for inode locks never wait for each other in a circle: a directory is locked before
\* what is in it (sysfile.c:205-213, 254-270).
NoLockCycle ==
  \A S \in SUBSET Proc : S # {} => \E p \in S : ~(Wanted(p) # 0 /\ lock[Wanted(p)] \in S)

\* panic("ilock: no type"), panic("unlink: nlink < 1") (fs.c:314-315, sysfile.c:215-216) are not
\* reached, if no path goes through the ".." of a removed directory.
NoPanic == \A p \in Proc : ~IlockPanics(p) /\ ~UnlinkPanics(p)
=============================================================================
