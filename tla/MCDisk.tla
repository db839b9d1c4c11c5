------------------------------- MODULE MCDisk -------------------------------
EXTENDS Disk, TLC

\* Processes and blocks are interchangeable.
Sym == Permutations(Proc) \cup Permutations(Block)

Heads == {d \in Desc : info[d] # None}

\* Which descriptors a chain has makes no difference as long as they are accounted for.
Shape ==
  <<cacheVars, data, own, locked, pc, want, cur, write, irq, intr, platter, panicked,
    Cardinality(free), {info[d] : d \in Heads}, {info[d].b : d \in taken},
    [k \in DOMAIN avail |-> info[avail[k]].b], [k \in DOMAIN used |-> info[used[k]].b],
    DescriptorsAccounted>>
=============================================================================
