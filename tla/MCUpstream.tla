----------------------------- MODULE MCUpstream -----------------------------
(* Instances of UpstreamSlots for TLC: two replicas with two threads each.  *)
EXTENDS UpstreamSlots, TLC

CONSTANTS a, b, a1, a2, b1, b2

TwoEach == (a1 :> a) @@ (a2 :> a) @@ (b1 :> b) @@ (b2 :> b)

\* Threads of a replica are interchangeable, and so are the replicas with their threads.
Within  == {p @@ q : p \in Permutations({a1, a2}), q \in Permutations({b1, b2})}
Across  == (a1 :> b1) @@ (b1 :> a1) @@ (a2 :> b2) @@ (b2 :> a2)
Swapped == {(a :> b) @@ (b :> a) @@ [t \in Threads |-> w[Across[t]]] : w \in Within}
Symmetry == Within \cup Swapped
=============================================================================
