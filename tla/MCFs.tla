-------------------------------- MODULE MCFs --------------------------------
EXTENDS Fs, TLC

Names == {"a", "b"}

\* Files in the root and in a directory, by absolute and by relative path.
Paths == {<<"/", "a">>, <<"/", "a", "b">>, <<"b">>}

\* What a call was and its paths no longer matter once it only has inodes to put.
Working(f) == [p \in Proc |-> IF pc[p] = "end" THEN None ELSE f[p]]
Live == <<disk, table, held, pc, Working(op), Working(path), Working(new), cur, ip, puts, calls>>

Sym == Permutations(Proc)
=============================================================================
