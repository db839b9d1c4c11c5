--------------------------- MODULE MachineProofs ---------------------------
(* Proofs about the two parts that deal with machine mode: TrapEmulate,    *)
(* for every number of processes, every width of registers and ints and    *)
(* every set of CSRs, addresses and operands; and Boot, with its block     *)
(* size, for images of any size.                                           *)
EXTENDS TrapEmulate, Boot, TLAPS

USE DEF U_MODE, S_MODE, M_MODE, Word, Slot

(* The inductive invariant.  Without MppBelowMachine a guest that left     *)
(* machine mode could hold an mstatus that takes it back.                  *)
IInv == TypeOK /\ MppBelowMachine /\ RegionNamed

-----------------------------------------------------------------------------
(* Words.                                                                  *)

(* The address of the next instruction is a word.                          *)
LEMMA PlusType ==
  ASSUME NEW a \in Word
  PROVE  Plus(a) \in Word
BY ConstAssumption DEF Plus

(* What comes out of a source register is a word.                          *)
LEMMA NarrowType ==
  ASSUME NEW w \in Word
  PROVE  Narrow(w) \in Word
<1>1. w % IntSize \in 0 .. IntSize - 1
  BY ConstAssumption
<1> QED BY <1>1, ConstAssumption DEF Narrow

(* The registers the emulation decides by are registers of the monitor.    *)
LEMMA DecisiveRegs == Decisive \subseteq Reg
BY ConstAssumption DEF Decisive, Reg, NeedsMachine, NeedsSupervisor,
   MachineStored, SupervisorStored, PmpRegs

(* The field of mstatus has two bits.                                      *)
LEMMA MppType ==
  ASSUME NEW w \in Word
  PROVE  MPP(w) \in 0 .. 3
<1>1. w \div MppUnit \in Int
  BY ConstAssumption
<1> QED BY <1>1 DEF MPP

-----------------------------------------------------------------------------
(* What the parts shared by several actions preserve.                      *)

ProcType ==
  /\ state \in [Slot -> {"UNUSED", "RUNNABLE", "ZOMBIE"}]
  /\ parent \in [Slot -> Slot \cup {Keeper, Nobody}]
  /\ name \in [Slot -> BOOLEAN] /\ region \in [Slot -> BOOLEAN]
  /\ vmprocess \in [Slot -> BOOLEAN] /\ killed \in [Slot -> BOOLEAN]
  /\ epc \in [Slot -> Word]

VmmType ==
  /\ exec_mode \in {U_MODE, S_MODE, M_MODE}
  /\ csr \in [Reg -> Word]
  /\ pmp_config \in BOOLEAN /\ tampered \in BOOLEAN

(* The type invariant by halves.                                           *)
LEMMA TypeHalves == TypeOK <=> ProcType /\ VmmType /\ panic \in Panics
BY DEF TypeOK, ProcType, VmmType

VmmInv == VmmType /\ MppBelowMachine
ProcInv == ProcType /\ RegionNamed

(* The invariant by halves, before and after a step: the processes, and    *)
(* the virtual machine.                                                    *)
LEMMA Halves == IInv <=> ProcInv /\ VmmInv /\ panic \in Panics
BY TypeHalves DEF IInv, ProcInv, VmmInv

(* The invariant by halves, in the next state.                             *)
LEMMA HalvesNext == IInv' <=> (ProcInv' /\ VmmInv' /\ panic' \in Panics)
BY DEF IInv, TypeOK, ProcInv, ProcType, VmmInv, VmmType

(* A step that leaves the virtual machine alone keeps its half.            *)
LEMMA VmmFrame ==
  ASSUME VmmInv, UNCHANGED vmmVars
  PROVE  VmmInv'
BY DEF VmmInv, VmmType, MppBelowMachine, vmmVars

(* A panic changes nothing else.                                           *)
LEMMA PanicInv ==
  ASSUME IInv, NEW why \in Panics, Panic(why)
  PROVE  IInv'
<1>1. panic' \in Panics /\ UNCHANGED procVars /\ UNCHANGED vmmVars
  BY DEF Panic
<1>2. VmmInv'
  BY <1>1, Halves, VmmFrame
<1>3. ProcInv'
  BY <1>1, Halves DEF ProcInv, ProcType, RegionNamed, procVars
<1> QED BY <1>1, <1>2, <1>3, HalvesNext

(* A child that is handed on has a parent.                                 *)
LEMMA ReparentType ==
  ASSUME ProcType, NEW p
  PROVE  reparent(p) \in [Slot -> Slot \cup {Keeper, Nobody}]
BY DEF ProcType, reparent

(* The tail of usertrap() keeps the half of the processes.                 *)
LEMMA FinishInv ==
  ASSUME IInv, NEW p \in Slot, state[p] = "RUNNABLE",
         NEW kill \in BOOLEAN, NEW pc \in Word,
         Finish(p, kill, pc)
  PROVE  ProcInv' /\ panic' \in Panics
<1>0. ProcType /\ RegionNamed /\ panic \in Panics
  BY Halves DEF ProcInv
<1>1. /\ epc' = [epc EXCEPT ![p] = pc]
      /\ killed' = [killed EXCEPT ![p] = killed[p] \/ kill]
      /\ state' = [state EXCEPT ![p] = IF Leaves(p, kill) THEN "ZOMBIE" ELSE state[p]]
      /\ parent' = parent \/ parent' = reparent(p)
      /\ UNCHANGED <<name, region, vmprocess, panic>>
  BY DEF Finish
<1>2. ProcType'
  BY <1>0, <1>1, ReparentType DEF ProcType
<1>3. RegionNamed'
  BY <1>0, <1>1 DEF RegionNamed, ProcType
<1> QED BY <1>0, <1>1, <1>2, <1>3 DEF ProcInv

-----------------------------------------------------------------------------
(* One lemma per group of actions.                                         *)

(* A new process: fork() of the shell or of a child.                       *)
LEMMA NewChildInv ==
  ASSUME IInv, NEW c \in Slot, NEW q \in Slot \cup {Keeper},
         NEW n \in BOOLEAN, NEW pc \in Word, NewChild(c, q, n, pc)
  PROVE  IInv'
<1>0. ProcType /\ RegionNamed /\ panic \in Panics
  BY Halves DEF ProcInv
<1>1. /\ state[c] = "UNUSED"
      /\ state' = [state EXCEPT ![c] = "RUNNABLE"]
      /\ parent' = [parent EXCEPT ![c] = q]
      /\ name' = [name EXCEPT ![c] = n]
      /\ epc' = [epc EXCEPT ![c] = pc]
      /\ UNCHANGED <<region, vmprocess, killed, vmmVars, panic>>
  BY DEF NewChild, LeastUnused
<1>2. ProcType'
  BY <1>0, <1>1 DEF ProcType
<1>3. ~region[c]
  BY <1>0, <1>1 DEF RegionNamed, ProcType
<1>4. RegionNamed'
  BY <1>0, <1>1, <1>3 DEF RegionNamed, ProcType
<1>5. VmmInv'
  BY <1>1, Halves, VmmFrame
<1> QED BY <1>0, <1>1, <1>2, <1>4, <1>5, HalvesNext DEF ProcInv

(* A fork() that fails, exec(), exit(), kill() and wait().                 *)
LEMMA SyscallInv ==
  ASSUME IInv, NEW p \in Slot, NEW q \in Slot \cup {Keeper},
         \/ \E pre, last \in BOOLEAN : ExecFails(p, pre) \/ Exec(p, pre, last)
         \/ ForkFails(p) \/ Exit(p) \/ Kill(p) \/ Wait(q, p)
  PROVE  IInv'
<1>0. ProcType /\ RegionNamed /\ panic \in Panics
  BY Halves DEF ProcInv
<1>1. UNCHANGED <<vmmVars, panic>>
  BY DEF ForkFails, ExecFails, Exec, Exit, Kill, Wait
<1>2. VmmInv'
  BY <1>1, Halves, VmmFrame
<1>3. ASSUME NEW pre \in BOOLEAN, ExecFails(p, pre) PROVE ProcInv'
  BY <1>0, <1>3 DEF ExecFails, ProcInv, ProcType, RegionNamed
<1>4. ASSUME NEW pre \in BOOLEAN, NEW last \in BOOLEAN, Exec(p, pre, last)
      PROVE  ProcInv'
  <2>1. /\ state[p] = "RUNNABLE"
        /\ vmprocess' = [vmprocess EXCEPT ![p] = vmprocess[p] \/ pre]
        /\ name' = [name EXCEPT ![p] = last]
        /\ region' = [region EXCEPT ![p] = last]
        /\ epc' = [epc EXCEPT ![p] = Entry]
        /\ UNCHANGED <<state, parent, killed>>
    BY <1>4 DEF Exec, ExecName, Served, User
  <2>2. ProcType'
    BY <1>0, <2>1, ConstAssumption DEF ProcType
  <2>3. RegionNamed'
    BY <1>0, <2>1 DEF RegionNamed, ProcType
  <2> QED BY <2>2, <2>3 DEF ProcInv
<1>5. CASE Exit(p)
  <2>1. ProcType'
    BY <1>0, <1>5, ReparentType DEF Exit, ProcType
  <2>2. RegionNamed'
    BY <1>0, <1>5 DEF Exit, Served, User, RegionNamed, ProcType
  <2> QED BY <1>0, <1>1, <1>2, <2>1, <2>2, HalvesNext DEF ProcInv
<1>6. CASE Kill(p) \/ ForkFails(p)
  BY <1>0, <1>6, <1>1, <1>2, HalvesNext DEF Kill, ForkFails, ProcInv, ProcType,
     RegionNamed
<1>7. CASE Wait(q, p)
  <2>1. ProcType'
    BY <1>0, <1>7, ConstAssumption DEF Wait, ProcType
  <2>2. RegionNamed'
    BY <1>0, <1>7 DEF Wait, RegionNamed, ProcType
  <2> QED BY <1>0, <1>1, <1>2, <2>1, <2>2, HalvesNext DEF ProcInv
<1> QED BY <1>0, <1>1, <1>2, <1>3, <1>4, <1>5, <1>6, <1>7, HalvesNext

(* The traps that do not touch the virtual machine.                        *)
LEMMA QuietTrapInv ==
  ASSUME IInv, NEW p \in Slot, NEW a \in Word, NEW r \in Codes,
         Interrupt(p) \/ Fault(p) \/ Unknown(p, a) \/ Csrr(p, a, r)
  PROVE  IInv'
<1>0. /\ epc[p] \in Word /\ a \in Word
      /\ Plus(a) \in Word /\ Readable(r) \in BOOLEAN
  BY ConstAssumption, PlusType DEF IInv, TypeOK, Readable
<1>1. VmmInv'
  BY Halves, VmmFrame DEF Interrupt, Fault, Unknown, Csrr
<1>2. state[p] = "RUNNABLE"
  BY <1>0 DEF Interrupt, Fault, Unknown, Csrr, Emulate, Emulated, User
<1>3. \E kill \in BOOLEAN, pc \in Word : Finish(p, kill, pc)
  BY <1>0 DEF Interrupt, Fault, Unknown, Csrr
<1>4. ProcInv' /\ panic' \in Panics
  BY <1>2, <1>3, FinishInv
<1> QED BY <1>1, <1>4, HalvesNext

(* A trap of an emulated process: the invariant of the virtual machine is  *)
(* all that is left to show.                                               *)
LEMMA EmulateInv ==
  ASSUME IInv, NEW p \in Slot, NEW a \in Addrs, Emulate(p, a),
         NEW kill \in BOOLEAN, NEW pc \in Word, Finish(p, kill, pc), VmmInv'
  PROVE  IInv'
<1>1. state[p] = "RUNNABLE"
  BY DEF Emulate, Emulated, User, IInv, TypeOK
<1>2. ProcInv' /\ panic' \in Panics
  BY <1>1, FinishInv
<1> QED BY <1>2, HalvesNext

(* What the registers hold before a step.                                  *)
LEMMA RegisterFacts ==
  ASSUME IInv
  PROVE  /\ csr \in [Reg -> Word]
         /\ csr["stvec"] \in Word /\ csr["sepc"] \in Word /\ csr["mepc"] \in Word
         /\ csr["mstatus"] \in Word /\ MPP(csr["mstatus"]) \in 0 .. 3
<1>1. csr \in [Reg -> Word]
  BY DEF IInv, TypeOK
<1>2. {"stvec", "sepc", "mepc", "mstatus"} \subseteq Reg
  BY DecisiveRegs DEF Decisive
<1>3. csr["mstatus"] \in Word
  BY <1>1, <1>2
<1>4. MPP(csr["mstatus"]) \in 0 .. 3
  BY <1>3, MppType
<1> QED BY <1>1, <1>2, <1>3, <1>4

(* The guest's ecall.                                                      *)
LEMMA EcallInv ==
  ASSUME IInv, NEW p \in Slot, NEW a \in Addrs, Ecall(p, a)
  PROVE  /\ IInv'
         /\ exec_mode # M_MODE => exec_mode' # M_MODE
<1>0. a \in Word /\ VmmInv
  BY ConstAssumption, Halves
<1>1. exec_mode \in {U_MODE, S_MODE, M_MODE} /\ UNCHANGED <<pmp_config, tampered>>
  BY <1>0 DEF Ecall, VmmInv, VmmType
<1>2. exec_mode' = IF exec_mode = U_MODE THEN S_MODE ELSE exec_mode
  BY DEF Ecall, EcallMode
<1>3. csr' = csr \/ csr' = [csr EXCEPT !["sepc"] = a]
  BY DEF Ecall
<1>4. csr' \in [Reg -> Word] /\ \A r \in Reg \ {"sepc"} : csr'[r] = csr[r]
  BY <1>0, <1>3, RegisterFacts
<1>5. csr'["mstatus"] = csr["mstatus"]
  BY <1>4, DecisiveRegs DEF Decisive
<1>6. VmmType'
  BY <1>0, <1>1, <1>2, <1>4 DEF VmmInv, VmmType
<1>7. MppBelowMachine'
  BY <1>0, <1>1, <1>2, <1>5 DEF VmmInv, MppBelowMachine
<1>9. \E pc \in Word : Finish(p, FALSE, pc)
  BY <1>0, RegisterFacts DEF Ecall
<1>10. Emulate(p, a)
  BY DEF Ecall
<1>11. IInv'
  BY <1>6, <1>7, <1>9, <1>10, EmulateInv DEF VmmInv
<1> QED BY <1>1, <1>2, <1>11

(* sret.                                                                   *)
LEMMA SretInv ==
  ASSUME IInv, NEW p \in Slot, NEW a \in Addrs, Sret(p, a)
  PROVE  /\ IInv'
         /\ exec_mode # M_MODE => exec_mode' # M_MODE
<1>0. a \in Word /\ VmmInv
  BY ConstAssumption, Halves
<1>1. UNCHANGED <<csr, pmp_config, tampered>>
  BY DEF Sret
<1>2. exec_mode' = exec_mode \/ (exec_mode = S_MODE /\ exec_mode' = U_MODE)
  BY DEF Sret
<1>3. VmmInv'
  BY <1>0, <1>1, <1>2 DEF VmmInv, VmmType, MppBelowMachine
<1>4. \E kill \in BOOLEAN, pc \in Word : Finish(p, kill, pc)
  BY <1>0, RegisterFacts DEF Sret
<1>5. Emulate(p, a)
  BY DEF Sret
<1>6. IInv'
  BY <1>3, <1>4, <1>5, EmulateInv
<1> QED BY <1>2, <1>6

(* mret.                                                                   *)
LEMMA MretInv ==
  ASSUME IInv, NEW p \in Slot, NEW a \in Addrs, Mret(p, a)
  PROVE  /\ IInv'
         /\ exec_mode # M_MODE /\ ~tampered => exec_mode' # M_MODE
<1> DEFINE mpp == MPP(csr["mstatus"])
<1>0. a \in Word /\ VmmInv
  BY ConstAssumption, Halves
<1>1. /\ Emulate(p, a) /\ exec_mode' = MretMode(mpp)
      /\ pmp_config' = pmp_configuration
      /\ Finish(p, mpp = 2 \/ pmp_config', IF mpp = 2 THEN a ELSE csr["mepc"])
      /\ UNCHANGED <<csr, tampered>>
  BY DEF Mret
<1>2. mpp \in 0 .. 3
  BY RegisterFacts
<1> HIDE DEF mpp
<1>3. /\ mpp = 3 => exec_mode' = M_MODE
      /\ mpp = 2 => exec_mode' = exec_mode
      /\ mpp = 1 => exec_mode' = S_MODE
      /\ mpp = 0 => exec_mode' = U_MODE
  BY <1>1, <1>2 DEF MretMode
<1>4. pmp_config' \in BOOLEAN
  BY <1>0, <1>1 DEF VmmInv, VmmType, pmp_configuration
<1>5. VmmType'
  BY <1>0, <1>1, <1>2, <1>3, <1>4 DEF VmmInv, VmmType
<1>6. exec_mode # M_MODE /\ ~tampered => mpp # 3
  BY <1>0 DEF VmmInv, MppBelowMachine, mpp
<1>7. exec_mode' # M_MODE /\ ~tampered' => mpp # 3
  BY <1>1, <1>2, <1>3, <1>6
<1>8. MppBelowMachine'
  BY <1>1, <1>7 DEF MppBelowMachine, mpp
<1>10. \E kill \in BOOLEAN, pc \in Word : Finish(p, kill, pc)
  <2>1. (mpp = 2 \/ pmp_config') \in BOOLEAN
    OBVIOUS
  <2>2. (IF mpp = 2 THEN a ELSE csr["mepc"]) \in Word
    BY <1>0, RegisterFacts
  <2> QED BY <1>1, <2>1, <2>2, Zenon
<1>11. IInv'
  BY <1>1, <1>5, <1>8, <1>10, EmulateInv DEF VmmInv
<1>12. exec_mode # M_MODE /\ ~tampered => exec_mode' # M_MODE
  BY <1>2, <1>3, <1>6
<1> QED BY <1>11, <1>12

(* csrw.                                                                   *)
LEMMA CsrwInv ==
  ASSUME IInv, NEW p \in Slot, NEW a \in Addrs, NEW r \in Codes,
         NEW v \in Operand[r], Csrw(p, a, r, v)
  PROVE  IInv' /\ exec_mode' = exec_mode
<1> DEFINE n == get_trapframe(v)
<1>0. a \in Word /\ v \in Word /\ VmmInv
  BY ConstAssumption, Halves
<1>1. n \in Word
  BY <1>0, NarrowType DEF get_trapframe
<1>2. /\ Emulate(p, a) /\ UNCHANGED <<exec_mode, pmp_config>>
      /\ Finish(p, r \notin Reg \/ Denied(r), Plus(a))
      /\ \/ /\ r \in Reg /\ csr' = [csr EXCEPT ![r] = n]
            /\ tampered' = (tampered \/ (r = "mstatus" /\ Denied(r)))
         \/ UNCHANGED <<csr, tampered>>
  BY DEF Csrw
<1> HIDE DEF n
<1>3. csr' \in [Reg -> Word] /\ \A q \in Reg : csr'[q] = csr[q] \/ csr'[q] = n
  BY <1>1, <1>2, RegisterFacts
<1>4. VmmType'
  BY <1>0, <1>2, <1>3 DEF VmmInv, VmmType
<1>6. MppBelowMachine'
  <2>1. SUFFICES ASSUME exec_mode' # M_MODE, ~tampered'
                 PROVE  csr'["mstatus"] = csr["mstatus"] /\ ~tampered
    BY <1>0, <1>2 DEF VmmInv, MppBelowMachine
  <2>2. Denied("mstatus")
    BY <1>2, <2>1 DEF Denied, MachineStored
  <2>3. "mstatus" \in Reg
    BY DecisiveRegs DEF Decisive
  <2>4. r # "mstatus" \/ UNCHANGED <<csr, tampered>>
    BY <1>2, <2>1, <2>2
  <2>5. csr \in [Reg -> Word] /\ tampered \in BOOLEAN
    BY <1>0 DEF VmmInv, VmmType
  <2> QED BY <1>2, <2>1, <2>3, <2>4, <2>5
<1>7. (r \notin Reg \/ Denied(r)) \in BOOLEAN /\ Plus(a) \in Word
  BY <1>0, PlusType
<1>8. IInv'
  BY <1>2, <1>4, <1>6, <1>7, EmulateInv DEF VmmInv
<1> QED BY <1>2, <1>8
-----------------------------------------------------------------------------
(* The invariant holds initially.                                          *)
LEMMA InitInv == Init => IInv
<1> SUFFICES ASSUME Init PROVE IInv
  OBVIOUS
<1>1. 0 \in Word /\ "none" \in Panics
  BY ConstAssumption DEF Panics
<1>2. csr \in [Reg -> Word] /\ \A r \in Reg \ {"mvendorid"} : csr[r] = 0
  BY <1>1, ConstAssumption DEF Init
<1>3. TypeOK
  BY <1>1, <1>2, ConstAssumption DEF Init, TypeOK
<1>4. MppBelowMachine /\ RegionNamed
  BY DEF Init, MppBelowMachine, RegionNamed
<1> QED BY <1>3, <1>4 DEF IInv

(* One step keeps the invariant and does not give machine mode back.       *)
LEMMA StepInv ==
  ASSUME IInv, [Next]_vars
  PROVE  /\ IInv'
         /\ exec_mode # M_MODE /\ ~tampered => exec_mode' # M_MODE
<1> DEFINE Kept == exec_mode # M_MODE /\ ~tampered => exec_mode' # M_MODE
<1> SUFFICES IInv' /\ Kept
  OBVIOUS
<1>1. CASE UNCHANGED vars \/ Halted
  <2>1. UNCHANGED <<procVars, vmmVars, panic>>
    BY <1>1 DEF Halted, vars
  <2>2. VmmInv'
    BY <2>1, Halves, VmmFrame
  <2>3. ProcInv' /\ panic' \in Panics
    BY <2>1, Halves DEF ProcInv, ProcType, RegionNamed, procVars
  <2> QED BY <2>1, <2>2, <2>3, HalvesNext DEF vmmVars
<1>2. ASSUME NEW p \in Slot, ShellForks(p) PROVE IInv' /\ Kept
  <2>1. Entry \in Word /\ Keeper \in Slot \cup {Keeper}
    BY ConstAssumption
  <2> QED BY <1>2, <2>1, NewChildInv DEF ShellForks, NewChild, vmmVars
<1>3. ASSUME NEW p \in Slot, NEW c \in Slot, Fork(p, c) PROVE IInv' /\ Kept
  <2>1. name[p] \in BOOLEAN /\ epc[p] \in Word
    BY DEF IInv, TypeOK
  <2> QED BY <1>3, <2>1, NewChildInv DEF Fork, NewChild, vmmVars
<1>4. ASSUME NEW p \in Slot, NEW q \in Slot \cup {Keeper},
             \/ \E pre, last \in BOOLEAN : ExecFails(p, pre) \/ Exec(p, pre, last)
             \/ ForkFails(p) \/ Exit(p) \/ Kill(p) \/ Wait(q, p)
      PROVE  IInv' /\ Kept
  <2>1. UNCHANGED vmmVars
    BY <1>4 DEF ForkFails, ExecFails, Exec, Exit, Kill, Wait
  <2> QED BY <1>4, <2>1, SyscallInv DEF vmmVars
<1>5. ASSUME NEW p \in Slot, NEW q \in Slot \cup {Keeper}, NEW a \in Word,
             ExecPanics(p) \/ WaitPanics(q, p) \/ MretPanics(p, a)
      PROVE  IInv' /\ Kept
  <2>1. \E why \in Panics : Panic(why)
    BY <1>5 DEF ExecPanics, WaitPanics, MretPanics, Panics
  <2> QED BY <2>1, PanicInv DEF Panic, vmmVars
<1>6. ASSUME NEW p \in Slot, NEW a \in Word, NEW r \in Codes,
             Interrupt(p) \/ Fault(p) \/ Unknown(p, a) \/ Csrr(p, a, r)
      PROVE  IInv' /\ Kept
  <2>1. UNCHANGED vmmVars
    BY <1>6 DEF Interrupt, Fault, Unknown, Csrr
  <2> QED BY <1>6, <2>1, QuietTrapInv DEF vmmVars
<1>7. ASSUME NEW p \in Slot, NEW a \in Addrs,
             Ecall(p, a) \/ Sret(p, a) \/ Mret(p, a)
      PROVE  IInv' /\ Kept
  BY <1>7, EcallInv, SretInv, MretInv
<1>8. ASSUME NEW p \in Slot, NEW a \in Addrs, NEW r \in Codes,
             NEW v \in Operand[r], Csrw(p, a, r, v)
      PROVE  IInv' /\ Kept
  BY <1>8, CsrwInv
<1> HIDE DEF Kept
<1>9. Keeper \in Slot \cup {Keeper} /\ Entry \in Word /\ "mstatus" \in Codes /\ Addrs \subseteq Word
  BY ConstAssumption DEF Decisive
<1>10. CASE Next
  <2>1. CASE Halted
    BY <1>1, <2>1
  <2>2. CASE ~Halted
    <3>1. PICK p \in Slot :
            \/ ShellForks(p) \/ ForkFails(p) \/ \E c \in Slot : Fork(p, c)
            \/ \E pre, last \in BOOLEAN : ExecFails(p, pre) \/ Exec(p, pre, last)
            \/ ExecPanics(p) \/ Exit(p) \/ Kill(p)
            \/ \E q \in Slot \cup {Keeper} : Wait(q, p) \/ WaitPanics(q, p)
            \/ Interrupt(p) \/ Fault(p)
            \/ \E a \in Addrs :
                 \/ Unknown(p, a)
                 \/ Ecall(p, a) \/ Sret(p, a) \/ Mret(p, a) \/ MretPanics(p, a)
                 \/ \E r \in Codes :
                      \/ Csrr(p, a, r)
                      \/ \E v \in Operand[r] : Csrw(p, a, r, v)
      BY <1>10, <2>2, Zenon DEF Next
    <3>2. CASE ShellForks(p) \/ \E c \in Slot : Fork(p, c)
      BY <1>2, <1>3, <3>2
    <3>3. CASE \/ \E pre, last \in BOOLEAN : ExecFails(p, pre) \/ Exec(p, pre, last)
               \/ ForkFails(p) \/ Exit(p) \/ Kill(p)
      BY <1>4, <1>9, <3>3
    <3>4. CASE ExecPanics(p)
      BY <1>5, <1>9, <3>4
    <3>7. ASSUME NEW q \in Slot \cup {Keeper}, Wait(q, p) \/ WaitPanics(q, p)
          PROVE  IInv' /\ Kept
      BY <1>4, <1>5, <1>9, <3>7
    <3>5. CASE Interrupt(p) \/ Fault(p)
      BY <1>6, <1>9, <3>5
    <3>6. ASSUME NEW a \in Addrs,
                 \/ Unknown(p, a)
                 \/ Ecall(p, a) \/ Sret(p, a) \/ Mret(p, a) \/ MretPanics(p, a)
                 \/ \E r \in Codes :
                      \/ Csrr(p, a, r)
                      \/ \E v \in Operand[r] : Csrw(p, a, r, v)
          PROVE  IInv' /\ Kept
      <4>1. a \in Word
        BY <1>9
      <4>2. CASE Unknown(p, a) \/ MretPanics(p, a)
        BY <1>5, <1>6, <1>9, <4>1, <4>2
      <4>3. CASE Ecall(p, a) \/ Sret(p, a) \/ Mret(p, a)
        BY <1>7, <4>3
      <4>4. ASSUME NEW r \in Codes, Csrr(p, a, r) PROVE IInv' /\ Kept
        BY <1>6, <4>1, <4>4
      <4>5. ASSUME NEW r \in Codes, NEW v \in Operand[r], Csrw(p, a, r, v)
            PROVE  IInv' /\ Kept
        BY <1>8, <4>5
      <4> QED BY <3>6, <4>2, <4>3, <4>4, <4>5
    <3> QED BY <3>1, <3>2, <3>3, <3>4, <3>5, <3>6, <3>7
  <2> QED BY <2>1, <2>2
<1> QED BY <1>1, <1>10

-----------------------------------------------------------------------------
(* The theorems.                                                           *)

(* The invariant holds in every state the kernel can reach.                *)
THEOREM Invariant == Spec => []IInv
<1>1. IInv /\ [Next]_vars => IInv'
  BY StepInv
<1> QED BY InitInv, <1>1, PTL DEF Spec

(* Type correctness.                                                       *)
THEOREM TypeCorrect == Spec => []TypeOK
<1>1. IInv => TypeOK
  BY DEF IInv
<1> QED BY Invariant, <1>1, PTL

(* freeproc() finds the region of every process that maps one by its name. *)
THEOREM RegionCorrect == Spec => []RegionNamed
<1>1. IInv => RegionNamed
  BY DEF IInv
<1> QED BY Invariant, <1>1, PTL

(* No trap gives machine mode back to a guest that left it, although mret  *)
(* asks for no mode, until a csrw of mstatus that kill()s its writer has   *)
(* been stored all the same.                                               *)
THEOREM MachineModeNotRegained == Spec => MachineModeLeft
<1>1. IInv /\ [Next]_vars
        => [exec_mode # M_MODE /\ ~tampered => exec_mode' # M_MODE]_vars
  BY StepInv
<1> QED BY Invariant, <1>1, PTL DEF Spec, MachineModeLeft

-----------------------------------------------------------------------------
(* The loops of the boot loader.                                           *)

Header(k) == shoff[k] \in Nat /\ shentsize[k] \in Nat /\ shnum[k] \in Nat

\* The code's constants, header fields are naturals, and a file is no shorter than its header.
Sizes ==
  /\ BSIZE = 1024 /\ HeaderSize = 4096 /\ FSSIZE \in Nat
  /\ \A k \in Kernel : Header(k) /\ find_kernel_size(k) >= HeaderSize

\* How much of the image a finished loader has copied.
EndOf(k) == IF k = "NORMAL" THEN find_kernel_size(k) ELSE total_size(k) * BSIZE

Chosen == kernel = IF Hash(Measured) = trusted_kernel_hash THEN "NORMAL" ELSE "RECOVERY"

\* The loop has copied the blocks before its index.
BootInv ==
  /\ kernel \in Kernel /\ block \in Nat
  /\ stage \in {"verify", "load", "mret", "panic"}
  /\ stage = "verify" => mem = Loaded("NORMAL", HeaderSize)
  /\ stage # "verify" => Chosen
  /\ stage = "load" => /\ skip_memory <= block /\ block <= total_size(kernel)
                       /\ mem = Loaded(kernel, block * BSIZE)
  /\ stage = "mret" => mepc = kernel /\ mem = Loaded(kernel, EndOf(kernel))

----------------------------------------------------------------------------

\* A size is its whole blocks and its balance.
LEMMA SizeFacts ==
  ASSUME Sizes, NEW k \in Kernel
  PROVE  /\ find_kernel_size(k) \in Nat
         /\ total_size(k) \in Nat /\ balance(k) \in Nat /\ balance(k) < BSIZE
         /\ find_kernel_size(k) = total_size(k) * BSIZE + balance(k)
         /\ skip_memory \in Nat /\ skip_memory * BSIZE = HeaderSize
         /\ skip_memory <= total_size(k)
<1>1. find_kernel_size(k) \in Nat /\ BSIZE \in Nat \ {0} /\ HeaderSize \in Nat
  <2>1. shoff[k] \in Nat /\ shentsize[k] \in Nat /\ shnum[k] \in Nat
    BY DEF Sizes, Header
  <2> QED BY <2>1 DEF Sizes, find_kernel_size
<1>2. /\ total_size(k) \in Nat /\ balance(k) \in Nat /\ balance(k) < BSIZE
      /\ find_kernel_size(k) = total_size(k) * BSIZE + balance(k)
  BY <1>1 DEF total_size, balance, Sizes
<1>3. skip_memory = 4 /\ skip_memory * BSIZE = HeaderSize
  BY DEF skip_memory, Sizes
<1>4. skip_memory <= total_size(k)
  <2>1. find_kernel_size(k) >= 4096 /\ BSIZE = 1024
    BY DEF Sizes
  <2> QED BY <1>1, <1>3, <2>1 DEF total_size
<1> QED BY <1>1, <1>2, <1>3, <1>4

\* memmove() of the first n bytes of the next block extends what is loaded by n bytes.
LEMMA MovedExtends ==
  ASSUME Sizes, BootInv, NEW b \in Nat, NEW n \in Nat, skip_memory <= b,
         mem = Loaded(kernel, b * BSIZE), Moved(b, n)
  PROVE  mem' = Loaded(kernel, b * BSIZE + n)
<1> DEFINE c == (b - skip_memory) * BSIZE
<1>1. /\ BSIZE \in Nat \ {0} /\ HeaderSize \in Nat /\ b * BSIZE \in Nat
      /\ skip_memory \in Nat /\ skip_memory * BSIZE = HeaderSize
  BY SizeFacts DEF Sizes, BootInv
<1>2. c \in Nat /\ c = b * BSIZE - HeaderSize
  <2>1. b - skip_memory \in Nat
    BY <1>1
  <2>2. (b - skip_memory) * BSIZE = b * BSIZE - skip_memory * BSIZE
    BY <1>1, <2>1
  <2>3. (b - skip_memory) * BSIZE \in Nat
    BY <1>1, <2>1
  <2> QED BY <1>1, <2>2, <2>3
<1>3. Addr \subseteq Int
  BY <1>1 DEF Addr, Sizes
<1>4. mem' = [a \in Addr |-> IF c <= a /\ a < c + n THEN image[kernel][b * BSIZE + (a - c)] ELSE mem[a]]
  BY DEF Moved
<1>5. ASSUME NEW a \in Addr
      PROVE  mem'[a] = Loaded(kernel, b * BSIZE + n)[a]
  <2>1. a \in Int /\ b * BSIZE + (a - c) = a + HeaderSize
    BY <1>1, <1>2, <1>3
  <2>2. mem'[a] = IF c <= a /\ a < c + n THEN image[kernel][a + HeaderSize] ELSE mem[a]
    BY <1>4, <2>1
  <2>3. mem[a] = IF 0 <= a /\ a + HeaderSize < b * BSIZE THEN image[kernel][a + HeaderSize] ELSE Untouched
    BY DEF Loaded
  <2>4. Loaded(kernel, b * BSIZE + n)[a] =
          IF 0 <= a /\ a + HeaderSize < b * BSIZE + n THEN image[kernel][a + HeaderSize] ELSE Untouched
    BY DEF Loaded
  <2> HIDE DEF c
  <2> QED BY <1>1, <1>2, <2>1, <2>2, <2>3, <2>4
<1> HIDE DEF c
<1> QED BY <1>4, <1>5 DEF Loaded

----------------------------------------------------------------------------

\* The invariant holds initially.
LEMMA BootInitInv ==
  ASSUME Sizes, BootInit
  PROVE  BootInv
<1>1. Addr \subseteq Int /\ HeaderSize \in Nat
  BY DEF Addr, Sizes
<1>2. mem = Loaded("NORMAL", HeaderSize)
  BY <1>1 DEF BootInit, Loaded
<1> QED BY <1>2 DEF BootInit, BootInv, Kernel

\* Every step preserves it.
LEMMA BootStepInv ==
  ASSUME Sizes, BootInv, [BootNext]_bootVars
  PROVE  BootInv'
<1>0. /\ kernel \in Kernel /\ block \in Nat /\ BSIZE \in Nat \ {0} /\ FSSIZE \in Nat
      /\ Addr \subseteq Int /\ HeaderSize \in Nat
  BY DEF BootInv, Sizes, Addr
<1>1. CASE IsSecureBoot
  <2>1. Chosen' /\ kernel' \in Kernel /\ block' = skip_memory /\ stage' = "load"
    BY <1>1 DEF IsSecureBoot, Chosen, Kernel, Measured, find_kernel_size
  <2>2. skip_memory \in Nat /\ skip_memory * BSIZE = HeaderSize /\ skip_memory <= total_size(kernel')
    BY <2>1, SizeFacts
  <2>3. mem' = Loaded(kernel', HeaderSize)
    <3>1. mem' = Loaded("NORMAL", HeaderSize)
      BY <1>1 DEF IsSecureBoot, BootInv
    <3>2. ASSUME NEW k PROVE Loaded(k, HeaderSize) = [a \in Addr |-> Untouched]
      BY <1>0 DEF Loaded
    <3> QED BY <3>1, <3>2
  <2> QED BY <2>1, <2>2, <2>3 DEF BootInv, Loaded, total_size, find_kernel_size
<1>2. CASE LoadBlock
  <2>1. /\ stage = "load" /\ stage' = "load" /\ kernel' = kernel /\ block' = block + 1
        /\ skip_memory <= block /\ block < total_size(kernel) /\ Moved(block, BSIZE)
        /\ mem = Loaded(kernel, block * BSIZE) /\ Chosen
    BY <1>2 DEF LoadBlock, BootInv
  <2>2. mem' = Loaded(kernel, block * BSIZE + BSIZE)
    BY <1>0, <2>1, MovedExtends
  <2>3. block * BSIZE + BSIZE = (block + 1) * BSIZE
    BY <1>0
  <2>4. skip_memory \in Nat /\ total_size(kernel) \in Nat
    BY <1>0, SizeFacts
  <2>5. skip_memory <= block' /\ block' <= total_size(kernel') /\ block' \in Nat
    BY <1>0, <2>1, <2>4
  <2>6. mem' = Loaded(kernel', block' * BSIZE)
    BY <2>1, <2>2, <2>3
  <2>7. Chosen'
    BY <2>1 DEF Chosen
  <2> QED BY <1>0, <2>1, <2>5, <2>6, <2>7 DEF BootInv, Loaded
<1>3. CASE LoadTail
  <2>1. /\ stage = "load" /\ stage' = "mret" /\ kernel' = kernel /\ block' = block /\ mepc' = kernel
        /\ block <= total_size(kernel) /\ block >= total_size(kernel) /\ skip_memory <= block
        /\ mem = Loaded(kernel, block * BSIZE) /\ Chosen
    BY <1>3 DEF LoadTail, BootInv
  <2>2. /\ find_kernel_size(kernel) = total_size(kernel) * BSIZE + balance(kernel)
        /\ total_size(kernel) \in Nat /\ balance(kernel) \in Nat
    BY <1>0, SizeFacts
  <2>3. block = total_size(kernel)
    BY <1>0, <2>1, <2>2
  <2>4. ASSUME HasTail
        PROVE  mem' = Loaded(kernel, EndOf(kernel))
    <3>1. Moved(total_size(kernel), balance(kernel)) /\ EndOf(kernel) = find_kernel_size(kernel)
      BY <1>3, <2>4 DEF LoadTail, HasTail, EndOf
    <3>2. mem' = Loaded(kernel, total_size(kernel) * BSIZE + balance(kernel))
      BY <2>1, <2>2, <2>3, <3>1, MovedExtends
    <3> QED BY <2>2, <3>1, <3>2
  <2>5. ASSUME ~HasTail
        PROVE  mem' = Loaded(kernel, EndOf(kernel))
    <3>1. mem' = mem
      BY <1>3, <2>5 DEF LoadTail
    <3>2. EndOf(kernel) = total_size(kernel) * BSIZE
      BY <1>0, <2>2, <2>5 DEF HasTail, EndOf
    <3> QED BY <2>1, <2>3, <3>1, <3>2
  <2>6. mem' = Loaded(kernel', EndOf(kernel'))
    BY <2>1, <2>4, <2>5
  <2>7. Chosen'
    BY <2>1 DEF Chosen
  <2> QED BY <1>0, <2>1, <2>6, <2>7 DEF BootInv, Loaded
<1>4. CASE TooBig
  BY <1>0, <1>4 DEF TooBig, BootInv, Chosen
<1>5. CASE UNCHANGED bootVars
  BY <1>5 DEF bootVars, BootInv, Chosen, Loaded
<1> QED BY <1>1, <1>2, <1>3, <1>4, <1>5 DEF BootNext

\* It holds in every reachable state.
LEMMA BootInvHolds ==
  ASSUME Sizes
  PROVE  BootSpec => []BootInv
<1>1. BootInit => BootInv
  BY BootInitInv
<1>2. BootInv /\ [BootNext]_bootVars => BootInv'
  BY BootStepInv
<1> QED BY <1>1, <1>2, PTL DEF BootSpec

\* What is measured is what runs: start() jumps into the NORMAL kernel only with the trusted hash and
\* with all of the measured bytes after the header in memory, whatever the sizes.
THEOREM MeasuredKernelRuns ==
  ASSUME Sizes
  PROVE  BootSpec => []VerifiedIsLoaded
<1>1. BootInv => VerifiedIsLoaded
  BY DEF BootInv, VerifiedIsLoaded, Chosen, EndOf
<1> QED BY <1>1, BootInvHolds, PTL

\* setup_recovery_kernel() leaves out the end of the RECOVERY image unless it is a number of blocks.
THEOREM RecoveryKernelRuns ==
  ASSUME Sizes
  PROVE  BootSpec => []RecoveryInBlocks
<1>1. BootInv => RecoveryInBlocks
  BY DEF BootInv, RecoveryInBlocks, Chosen, EndOf
<1> QED BY <1>1, BootInvHolds, PTL
=============================================================================
