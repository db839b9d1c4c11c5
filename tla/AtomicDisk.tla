----------------------------- MODULE AtomicDisk -----------------------------
(* What the log promises to the file system (the comment at the head of log.c): the writes of      *)
(* concurrent operations go to one current image; the durable image changes only when no operation *)
(* is in progress, and then to the whole current image; a crash falls back to the durable image.   *)
CONSTANTS Proc, Block, Value

VARIABLES durable,   \* the image a restart would find
          current,   \* the image the operations see
          active     \* the processes inside an operation

vars == <<durable, current, active>>

Init == /\ durable \in [Block -> Value]
        /\ current = durable
        /\ active = {}

Begin(p) == /\ p \notin active
            /\ active' = active \cup {p}
            /\ UNCHANGED <<durable, current>>

Write(p, b, v) == /\ p \in active
                  /\ current' = [current EXCEPT ![b] = v]
                  /\ UNCHANGED <<durable, active>>

End(p) == /\ p \in active
          /\ active' = active \ {p}
          /\ UNCHANGED <<durable, current>>

Commit == /\ active = {}
          /\ durable' = current
          /\ UNCHANGED <<current, active>>

Crash == /\ current' = durable
         /\ active' = {}
         /\ UNCHANGED durable

Next == \/ \E p \in Proc : Begin(p) \/ End(p)
        \/ \E p \in Proc, b \in Block, v \in Value : Write(p, b, v)
        \/ Commit
        \/ Crash

Spec == Init /\ [][Next]_vars
=============================================================================
