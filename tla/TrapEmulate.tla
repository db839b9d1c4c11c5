---------------------------- MODULE TrapEmulate ----------------------------
(***************************************************************************)
(* The trap-and-emulate monitor of the Project-4 kernel: the privileged    *)
(* state of the virtual machine (one global vmm for every VM), the         *)
(* emulation of ecall, sret, mret, csrr and csrw, and what decides which   *)
(* process is emulated: exec(), fork(), wait() and the vmprocess flag of a *)
(* slot of the process table.                                              *)
(*                                                                         *)
(* The kernel runs on one CPU and a trap is handled with interrupts off,   *)
(* so a trap, from user space back to user space or to exit(), is one      *)
(* action; fork(), exec()'s last part and wait() are one action each.      *)
(*                                                                         *)
(* Between two traps a program computes and jumps as it likes: the address *)
(* it traps at, the instruction and the value in its source register are   *)
(* inputs.  Addresses and registers are words below RegSize (2^64); values *)
(* that pass through the monitor's int parameters wrap at IntSize (2^32).  *)
(* The page table mret builds is never installed (its only caller asks for *)
(* machine mode), so only whether building it succeeds is modelled.        *)
(***************************************************************************)
EXTENDS Integers

CONSTANTS
  NPROC,        \* slots of the process table besides those of init and the shell
  RegSize,      \* 2^64
  IntSize,      \* 2^32
  SppUnit,      \* 2^8: sstatus.SPP is the bit of this weight
  MppUnit,      \* 2^11: mstatus.MPP is the two bits from this weight up
  InstrLen,     \* 4
  Sz,           \* p->sz of a program
  Base, Final,  \* the region of a VM: 0x80000000, 0x80400000
  PGSIZE,       \* 4096
  MAXVA,        \* 2^38
  VendorId,     \* 0x637365353336
  Entry,        \* elf.entry
  Codes,        \* the CSRs programs name
  Addrs,        \* the addresses programs trap at
  Operand       \* the values programs write to a CSR

U_MODE == 0
S_MODE == 1
M_MODE == 2

Slot == 0 .. NPROC - 1

(* The shell and init, who wait for their children in a loop, are one      *)
(* parent; Nobody is the null parent of an unused slot.                    *)
Keeper == NPROC
Nobody == NPROC + 1

Word == 0 .. RegSize - 1

(* The registers of csr_register_map_values, by the mode they need, and    *)
(* of these the ones csrw_write() has a branch for.  pmpaddr0 and pmpaddr1 *)
(* stand for themselves, "pmp" for the other 30 PMP registers.             *)
MachineStored == {"mstatus", "misa", "medeleg", "mideleg", "mie", "mtvec",
                  "mip", "mepc"}
MachineOnlyRead == {"mhartid", "mvendorid", "mscratch", "mcause", "mtval",
                    "mtinst", "mcounteren", "marchid", "mimpid", "mconfigptr",
                    "mtval2"}
PmpRegs == {"pmpaddr0", "pmpaddr1", "pmp"}
SupervisorStored == {"sstatus", "sie", "stvec", "satp", "sedeleg", "sepc"}
SupervisorOnlyRead == {"scounteren"}
UserStored == {"uepc", "ucause", "uip", "ubadaddr", "uie", "utvec", "uscratch"}

NeedsMachine == MachineStored \cup MachineOnlyRead \cup PmpRegs
NeedsSupervisor == SupervisorStored \cup SupervisorOnlyRead

(* Every other code is not in the table, or is there with a null register. *)
Reg == Codes \cap (NeedsMachine \cup NeedsSupervisor \cup UserStored)

Decisive == {"mstatus", "mepc", "sstatus", "stvec", "sepc", "pmpaddr0",
             "pmpaddr1"}

ASSUME ConstAssumption ==
  /\ NPROC \in Nat \ {0}
  /\ RegSize \in Nat /\ IntSize \in Nat /\ 2 <= IntSize /\ IntSize <= RegSize
  /\ SppUnit \in Nat \ {0} /\ MppUnit \in Nat \ {0} /\ InstrLen \in Nat \ {0}
  /\ Sz \in Word /\ Base \in Word /\ Final \in Word
  /\ PGSIZE \in Nat \ {0} /\ MAXVA \in Word
  /\ VendorId \in Word /\ Entry \in Word /\ Addrs \subseteq Word
  /\ Decisive \subseteq Codes
  /\ Operand \in [Codes -> SUBSET Word]

VARIABLES
  state,        \* p->state
  parent,       \* p->parent
  name,         \* p->name starts with "vm-"
  region,       \* p->pagetable maps Base .. Final
  vmprocess, killed,
  epc,          \* p->trapframe->epc
  exec_mode,    \* vmm->exec_mode
  csr,          \* the .val of vmm's registers
  pmp_config,
  panic,
  tampered      \* history: mstatus was stored by a write that kills the writer

procVars == <<state, parent, name, region, vmprocess, killed, epc>>
vmmVars  == <<exec_mode, csr, pmp_config, tampered>>
vars     == <<procVars, vmmVars, panic>>

(* trap_and_emulate_init(), called once, when the kernel boots.            *)
Init ==
  /\ state = [p \in Slot |-> "UNUSED"]
  /\ parent = [p \in Slot |-> Nobody]
  /\ name = [p \in Slot |-> FALSE]
  /\ region = [p \in Slot |-> FALSE]
  /\ vmprocess = [p \in Slot |-> FALSE]
  /\ killed = [p \in Slot |-> FALSE]
  /\ epc = [p \in Slot |-> Entry]
  /\ exec_mode = M_MODE
  /\ csr = [r \in Reg |-> IF r = "mvendorid" THEN VendorId ELSE 0]
  /\ pmp_config = FALSE
  /\ tampered = FALSE
  /\ panic = "none"

Running == panic = "none"

Panic(why) == panic' = why /\ UNCHANGED <<procVars, vmmVars>>

User(p) == Running /\ state[p] = "RUNNABLE"
-----------------------------------------------------------------------------
(* Words.                                                                  *)

Plus(a) == (a + InstrLen) % RegSize

(* A uint64 passed as int and stored as uint64 again.                      *)
Narrow(w) ==
  LET n == w % IntSize
  IN  IF 2 * n < IntSize THEN n ELSE RegSize - IntSize + n

(* Whatever register rs1 names, an int comes out of it.                    *)
get_trapframe(w) == Narrow(w)

SPP(w) == (w \div SppUnit) % 2
MPP(w) == (w \div MppUnit) % 4

Mapped(p, a) == a < Sz \/ (region[p] /\ Base <= a /\ a < Final)

(* copyin() of eight bytes at the trapping instruction, which is four      *)
(* bytes long.                                                             *)
Fetchable(p, a) == Mapped(p, Plus(a))
-----------------------------------------------------------------------------
(* The process table.                                                      *)

LeastUnused == {p \in Slot : /\ state[p] = "UNUSED"
                             /\ \A q \in Slot : state[q] = "UNUSED" => p <= q}

(* fork() by the shell, or by a program whose system calls are served.     *)
(* uvmcopy() copies up to p->sz; allocproc() leaves vmprocess and killed   *)
(* as they were.                                                           *)
NewChild(c, q, n, pc) ==
  /\ c \in LeastUnused
  /\ state' = [state EXCEPT ![c] = "RUNNABLE"]
  /\ parent' = [parent EXCEPT ![c] = q]
  /\ name' = [name EXCEPT ![c] = n]
  /\ epc' = [epc EXCEPT ![c] = pc]
  /\ UNCHANGED <<region, vmprocess, killed, vmmVars, panic>>

ShellForks(c) == Running /\ NewChild(c, Keeper, FALSE, Entry)

Served(p) == User(p) /\ ~vmprocess[p] /\ ~killed[p]

Fork(p, c) == Served(p) /\ NewChild(c, p, name[p], epc[p])

(* There is no memory for the child: freeproc() clears the slot.           *)
ForkFails(c) ==
  /\ Running /\ c \in LeastUnused
  /\ killed' = [killed EXCEPT ![c] = FALSE]
  /\ UNCHANGED <<state, parent, name, region, vmprocess, epc, vmmVars, panic>>

(* exec() of a path: pre says that the path starts with "vm-", last that   *)
(* its last component does.                                                *)
ExecFails(p, pre) ==
  /\ Served(p)
  /\ vmprocess' = [vmprocess EXCEPT ![p] = @ \/ pre]
  /\ UNCHANGED <<state, parent, name, region, killed, epc, vmmVars, panic>>

(* Slip: the flag's test of the path decides the name too.                 *)
NameOfPath(pre, last) == pre

(* p->name is the last component of the path.                              *)
ExecName(pre, last) == last

Exec(p, pre, last) ==
  /\ Served(p) /\ ~region[p]
  /\ vmprocess' = [vmprocess EXCEPT ![p] = @ \/ pre]
  /\ name' = [name EXCEPT ![p] = ExecName(pre, last)]
  /\ region' = [region EXCEPT ![p] = last]
  /\ epc' = [epc EXCEPT ![p] = Entry]
  /\ UNCHANGED <<state, parent, killed, vmmVars, panic>>

(* The old page table still maps a region, or there is no memory for the   *)
(* new one and exec() frees the page table it has just installed.          *)
ExecPanics(p) ==
  /\ Served(p)
  /\ Panic(IF region[p] THEN "freewalk: leaf" ELSE "freed page table")

(* reparent(): the children of p are init's from now on.                   *)
reparent(p) == [c \in Slot |-> IF parent[c] = p THEN Keeper ELSE parent[c]]

Exit(p) ==
  /\ Served(p)
  /\ state' = [state EXCEPT ![p] = "ZOMBIE"]
  /\ parent' = reparent(p)
  /\ UNCHANGED <<name, region, vmprocess, killed, epc, vmmVars, panic>>

(* kill() by some other process.  An unused slot has pid 0, and kill(0)    *)
(* marks the first of them.                                                *)
Kill(p) ==
  /\ Running /\ (state[p] # "UNUSED" \/ p \in LeastUnused) /\ ~killed[p]
  /\ killed' = [killed EXCEPT ![p] = TRUE]
  /\ UNCHANGED <<state, parent, name, region, vmprocess, epc, vmmVars, panic>>

(* wait() by q finds its child p: only the parent looks.                   *)
Reaps(q, p) ==
  /\ Running /\ state[p] = "ZOMBIE" /\ parent[p] = q
  /\ q \in Slot => Served(q)

(* It frees the slot, all of it but vmprocess.                             *)
Wait(q, p) ==
  /\ Reaps(q, p) /\ name[p] = region[p]
  /\ state' = [state EXCEPT ![p] = "UNUSED"]
  /\ parent' = [parent EXCEPT ![p] = Nobody]
  /\ name' = [name EXCEPT ![p] = FALSE]
  /\ region' = [region EXCEPT ![p] = FALSE]
  /\ killed' = [killed EXCEPT ![p] = FALSE]
  /\ epc' = [epc EXCEPT ![p] = Entry]
  /\ UNCHANGED <<vmprocess, vmmVars, panic>>

(* freeproc() unmaps the region of a process named "vm-": it must be there,*)
(* and nobody else may have one.                                           *)
WaitPanics(q, p) ==
  /\ Reaps(q, p) /\ name[p] # region[p]
  /\ Panic(IF region[p] THEN "freewalk: leaf" ELSE "uvmunmap: walk")
-----------------------------------------------------------------------------
(* usertrap().                                                             *)

(* Slip: only a kill() of this very trap is noticed.                       *)
LeavesNow(p, kill) == kill

(* Its last part: a process that was killed meanwhile exits, any other     *)
(* returns to pc.                                                          *)
Leaves(p, kill) == killed[p] \/ kill

Finish(p, kill, pc) ==
  /\ epc' = [epc EXCEPT ![p] = pc]
  /\ killed' = [killed EXCEPT ![p] = @ \/ kill]
  /\ state' = [state EXCEPT ![p] = IF Leaves(p, kill) THEN "ZOMBIE" ELSE @]
  /\ parent' = IF Leaves(p, kill) THEN reparent(p) ELSE parent
  /\ UNCHANGED <<name, region, vmprocess, panic>>

(* A timer interrupt; also an ecall of a process that is already killed.   *)
(* The program goes on where it was: epc keeps the place the monitor last  *)
(* sent it to.                                                             *)
Interrupt(p) ==
  /\ User(p)
  /\ Finish(p, FALSE, epc[p])
  /\ UNCHANGED vmmVars

(* Any other exception, and an illegal instruction of a process that is    *)
(* not emulated.                                                           *)
Fault(p) ==
  /\ User(p)
  /\ Finish(p, TRUE, epc[p])
  /\ UNCHANGED vmmVars
-----------------------------------------------------------------------------
(* trap_and_emulate().                                                     *)

Emulated(p, a) ==
  /\ User(p) /\ vmprocess[p] /\ Mapped(p, a)

Emulate(p, a) ==
  /\ Emulated(p, a) /\ Fetchable(p, a)

(* The instruction cannot be read, or is none of the five.                 *)
Unknown(p, a) ==
  /\ Emulated(p, a)
  /\ Finish(p, TRUE, a)
  /\ UNCHANGED vmmVars

(* Slip: an ecall always goes one mode up.                                 *)
OneModeUp(m) == IF m = U_MODE THEN S_MODE ELSE M_MODE

(* Only the two fields are decoded: any word with both zero is an ecall.   *)
EcallMode(m) == IF m = U_MODE THEN S_MODE ELSE m

Ecall(p, a) ==
  /\ Emulate(p, a)
  /\ exec_mode' = EcallMode(exec_mode)
  /\ \/ /\ exec_mode = U_MODE
        /\ csr' = [csr EXCEPT !["sepc"] = a]
        /\ Finish(p, FALSE, csr["stvec"])
     \/ /\ exec_mode # U_MODE
        /\ csr' = csr
        /\ Finish(p, FALSE, a)
  /\ UNCHANGED <<pmp_config, tampered>>

Sret(p, a) ==
  /\ Emulate(p, a)
  /\ \/ /\ exec_mode # S_MODE
        /\ Finish(p, TRUE, a)
        /\ UNCHANGED exec_mode
     \/ /\ exec_mode = S_MODE /\ SPP(csr["sstatus"]) = 1
        /\ Finish(p, FALSE, a)
        /\ UNCHANGED exec_mode
     \/ /\ exec_mode = S_MODE /\ SPP(csr["sstatus"]) = 0
        /\ exec_mode' = U_MODE
        /\ Finish(p, FALSE, csr["sepc"])
  /\ UNCHANGED <<csr, pmp_config, tampered>>

MretMode(mpp) ==
  CASE mpp = 3 -> M_MODE
    [] mpp = 2 -> exec_mode
    [] mpp = 1 -> S_MODE
    [] mpp = 0 -> U_MODE

(* The flag after pmp_configuration(): once pmpaddr0 is set some range of  *)
(* pages, empty or not, gets its permissions, and the flag is never reset. *)
pmp_configuration == pmp_config \/ csr["pmpaddr0"] # 0

(* pmp_set_permissions() walks from pmpaddr0 to pmpaddr1, or to the start  *)
(* of the region, and meets an address walk() does not take.               *)
pmp_set_permissions_panics ==
  LET start == (4 * csr["pmpaddr0"]) % RegSize
      final == IF csr["pmpaddr1"] = 0 THEN Base ELSE (4 * csr["pmpaddr1"]) % RegSize
  IN  /\ csr["pmpaddr0"] # 0
      /\ \E i \in MAXVA .. final - 1 : start <= i /\ (i - start) % PGSIZE = 0

(* No mode is required.  With the flag set the VM dies.                    *)
Mret(p, a) ==
  /\ Emulate(p, a) /\ region[p] /\ ~pmp_set_permissions_panics
  /\ LET mpp == MPP(csr["mstatus"])
     IN  /\ exec_mode' = MretMode(mpp)
         /\ pmp_config' = pmp_configuration
         /\ Finish(p, mpp = 2 \/ pmp_config', IF mpp = 2 THEN a ELSE csr["mepc"])
  /\ UNCHANGED <<csr, tampered>>

(* The process has no region to copy, or no page is free for the table:    *)
(* every mret allocates a new one and none is ever freed; or the guest     *)
(* has chosen a range that ends beyond the address space.                  *)
MretPanics(p, a) ==
  /\ Emulated(p, a) /\ Fetchable(p, a)
  /\ \/ Panic(IF region[p] THEN "pmp: no memory" ELSE "pmp: no pte")
     \/ region[p] /\ pmp_set_permissions_panics /\ Panic("walk")

ModeOf(r) ==
  IF r \in NeedsMachine THEN M_MODE
  ELSE IF r \in NeedsSupervisor THEN S_MODE ELSE U_MODE

(* csr_register_1() finds the register and the mode suffices.              *)
Readable(r) == r \in Reg /\ exec_mode >= ModeOf(r)

Csrr(p, a, r) ==
  /\ Emulate(p, a)
  /\ Finish(p, ~Readable(r), Plus(a))
  /\ UNCHANGED vmmVars

(* csrw_write(): whether it calls kill(), and whether it gets as far as an *)
(* assignment.                                                             *)
Denied(r) ==
  \/ r \in MachineStored \cup PmpRegs /\ exec_mode # M_MODE
  \/ r \in SupervisorStored /\ exec_mode = U_MODE
  \/ r \in UserStored /\ exec_mode # U_MODE
  \/ r \in MachineOnlyRead \cup SupervisorOnlyRead

Stores(r) ==
  \/ r \in MachineStored \cup SupervisorStored \cup UserStored
  \/ r \in PmpRegs /\ exec_mode = M_MODE

Csrw(p, a, r, v) ==
  /\ Emulate(p, a)
  /\ \/ /\ r \in Reg /\ Stores(r)
        /\ csr' = [csr EXCEPT ![r] = get_trapframe(v)]
        /\ tampered' = (tampered \/ (r = "mstatus" /\ Denied(r)))
     \/ /\ ~(r \in Reg /\ Stores(r))
        /\ UNCHANGED <<csr, tampered>>
  /\ Finish(p, r \notin Reg \/ Denied(r), Plus(a))
  /\ UNCHANGED <<exec_mode, pmp_config>>
-----------------------------------------------------------------------------
Halted == ~Running /\ UNCHANGED vars

Next ==
  \/ \E p \in Slot :
       \/ ShellForks(p) \/ ForkFails(p) \/ \E c \in Slot : Fork(p, c)
       \/ \E pre, last \in BOOLEAN : ExecFails(p, pre) \/ Exec(p, pre, last)
       \/ ExecPanics(p) \/ Exit(p) \/ Kill(p)
       \/ \E q \in Slot \cup {Keeper} : Wait(q, p) \/ WaitPanics(q, p)
       \/ Interrupt(p) \/ Fault(p)
       \/ \E a \in Addrs :
            \/ Unknown(p, a)
            \/ Ecall(p, a) \/ Sret(p, a) \/ Mret(p, a) \/ MretPanics(p, a)
            \/ \E r \in Codes :
                 \/ Csrr(p, a, r)
                 \/ \E v \in Operand[r] : Csrw(p, a, r, v)
  \/ Halted

(* The timer interrupts whatever program runs, and the shell and init call *)
(* wait() in a loop.  Any other parent waits if it likes.                  *)
Fairness ==
  \A p \in Slot : /\ WF_vars(Interrupt(p))
                  /\ WF_vars(Wait(Keeper, p) \/ WaitPanics(Keeper, p))

Spec == Init /\ [][Next]_vars /\ Fairness
-----------------------------------------------------------------------------
(* Properties.                                                             *)

Panics == {"none", "freewalk: leaf", "freed page table", "uvmunmap: walk",
           "pmp: no memory", "pmp: no pte", "walk"}

(* Every variable has its type: exec_mode is one of the three modes        *)
(* trap-and-emulate.c defines, registers and addresses are words.          *)
TypeOK ==
  /\ state \in [Slot -> {"UNUSED", "RUNNABLE", "ZOMBIE"}]
  /\ parent \in [Slot -> Slot \cup {Keeper, Nobody}]
  /\ name \in [Slot -> BOOLEAN] /\ region \in [Slot -> BOOLEAN]
  /\ vmprocess \in [Slot -> BOOLEAN] /\ killed \in [Slot -> BOOLEAN]
  /\ epc \in [Slot -> Word]
  /\ exec_mode \in {U_MODE, S_MODE, M_MODE}
  /\ csr \in [Reg -> Word]
  /\ pmp_config \in BOOLEAN /\ tampered \in BOOLEAN
  /\ panic \in Panics

(* The guest gave up machine mode: no mret can take it back.               *)
MppBelowMachine ==
  exec_mode # M_MODE /\ ~tampered => MPP(csr["mstatus"]) # 3

(* mret asks for no mode, so a guest in user mode may execute it; still,   *)
(* once the virtual machine has left machine mode it never comes back,     *)
(* whichever VM runs, unless mstatus was stored by a csrw whose writer     *)
(* lacked the mode (csrw_write() calls kill() and stores all the same).    *)
MachineModeLeft ==
  [][exec_mode # M_MODE /\ ~tampered => exec_mode' # M_MODE]_vars

(* Whatever exec(), fork(), exit() and wait() are called in, only a        *)
(* process named "vm-" maps the region, so freeproc(), which goes by the   *)
(* name, never reaches freewalk() with the region still mapped.            *)
RegionNamed == \A p \in Slot : region[p] => name[p] /\ state[p] # "UNUSED"

(* The parent is a program that nobody has killed: it alone decides        *)
(* whether it calls wait().                                                *)
Owned(p) ==
  parent[p] \in Slot /\ state[parent[p]] = "RUNNABLE" /\ ~killed[parent[p]]

(* A killed process ends, also when it is a VM that spins on an ecall      *)
(* above user mode or on an sret with SPP set: the tail of usertrap()      *)
(* looks at p->killed on every trap.  And a zombie's slot is free again as *)
(* soon as its parent is the shell or init, or is killed, ends and hands   *)
(* it on to init; only a parent that lives and never waits can keep it.    *)
KillTerminates ==
  \A p \in Slot :
    \/ state[p] = "RUNNABLE" /\ killed[p]
    \/ state[p] = "ZOMBIE" /\ ~Owned(p)
      ~> \/ state[p] = "UNUSED" \/ ~Running
         \/ state[p] = "ZOMBIE" /\ Owned(p)
=============================================================================
