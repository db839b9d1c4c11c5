---------------------------- MODULE MCHeapPaging ----------------------------
(* Small instances of HeapPaging for TLC.                                  *)
EXTENDS HeapPaging, TLC

CONSTANTS p1, p2

TwoProcs == {p1, p2}
OneProc == {p1}

SbrkAny == {-1, 0, 1, 2, 3}
SbrkGrow == {1, 2, 3}
SbrkTwo == {2}

(* After a panic only the reason matters: no variable changes any more and *)
(* the others keep the values of the state before it.                      *)
RunningState == IF panic = "none" THEN <<"running", vars>> ELSE <<panic>>

(* The properties of the interleaving run say nothing of behaviours in     *)
(* which two evictions have already collided: these are not explored.      *)
NoClashYet == ~clash
ProcSymmetry == Permutations(TwoProcs)
=============================================================================
