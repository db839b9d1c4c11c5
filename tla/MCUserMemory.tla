---------------------------- MODULE MCUserMemory ----------------------------
EXTENDS UserMemory

\* Segments that end inside a page, at a page boundary, below an earlier one, and an empty one.
Segments == {[vaddr |-> 0, memsz |-> 0], [vaddr |-> 0, memsz |-> 3], [vaddr |-> 2, memsz |-> 2]}

Bytes == {-3, -2, -1, 1, 4}

MCPages == 2..20

\* Pages are interchangeable: as long as each has one owner, only where pages are makes a difference.
Shape == <<Cardinality(free), Tables, Users, Frames, sz, pc, job, PagesOwned, ImageExact, panicked>>
=============================================================================
