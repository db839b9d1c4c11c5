----------------------------- MODULE MCUlthread -----------------------------
(* Small instances of Ulthread.                                            *)
EXTENDS Ulthread

AllAlgorithms == {"ROUNDROBIN", "PRIORITY", "FCFS"}
=============================================================================
