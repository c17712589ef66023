------------------------------ MODULE MCRWLock ------------------------------
(* RWLock on small instances. *)
EXTENDS RWLock, TLC

CONSTANTS t1, t2, t3

\* Every thread may do everything.
AllOps == [t \in Threads |-> {"read", "write", "tryread", "trywrite", "upgrade",
                              "downgrade", "spurious"}]

\* Two readers against two writers that never stop; one thread is both.
Crowd == (t1 :> {"read"}) @@ (t2 :> {"read", "write"}) @@ (t3 :> {"write"})

Symmetry == Permutations(Threads)
=============================================================================
