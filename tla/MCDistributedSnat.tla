------------------------- MODULE MCDistributedSnat -------------------------
(* Small instances of DistributedSnat. *)
EXTENDS DistributedSnat, TLC

CONSTANTS s1, s2, h1, h2, w1, w2, p1, p2, p3

\* One range of two ports, or two of them.
Narrow == [start |-> 1, end |-> 3, size |-> 2]
Wide == [start |-> 1, end |-> 4, size |-> 2]
NarrowAndWide == {Narrow, Wide}
OnlyNarrow == {Narrow}

\* Hosts, workers and addresses of ports are interchangeable.
Symmetry == Permutations({h1, h2}) \cup Permutations({w1, w2})
            \cup Permutations({p1, p2, p3})
====================
