------------------------------- MODULE MCCow -------------------------------
(* Small instances of Cow.                                                 *)
EXTENDS Cow, TLC

(* After a panic nothing but the reason matters.                           *)
RunningState == IF panic = "none" THEN <<"running", vars>> ELSE <<panic>>

(* Once a page in use was freed the free list is corrupt: stop there.      *)
MemoryIntact == ~bad

PageSymmetry == Permutations(Pages)
=============================================================================
