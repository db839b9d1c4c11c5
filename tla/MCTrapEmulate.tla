--------------------------- MODULE MCTrapEmulate ---------------------------
(* Small instances of TrapEmulate: 4-bit registers, 2-bit ints, words 0 to *)
(* 2 for the program and 4 to 5 for the region of a VM, addresses below 8. *)
EXTENDS TrapEmulate

(* What guests write: each return mode, SPP set and clear, PMP in use.     *)
(* pmpaddr1 is written with a negative int: the range ends above MAXVA.    *)
(* mepc, sepc and stvec only say where a guest goes next and stay zero.    *)
MCOperand ==
  [r \in Codes |-> CASE r = "mstatus"  -> {0, 1, 2, 3}
                     [] r = "sstatus"  -> {0, 1}
                     [] r = "pmpaddr0" -> {2}
                     [] r = "pmpaddr1" -> {3}
                     [] r \in {"mepc", "sepc", "stvec"} -> {}
                     [] OTHER          -> {1}]

(* After a panic nothing but the reason matters.                           *)
RunningState == IF Running THEN <<"running", vars>> ELSE <<panic>>
=============================================================================
