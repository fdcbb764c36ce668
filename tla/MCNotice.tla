------------------------------ MODULE MCNotice ------------------------------
(* Instances of NoticeStore for TLC: two replicas with one task each.         *)
EXTENDS NoticeStore, TLC

CONSTANTS a, b, a1, b1

OneEach == (a1 :> a) @@ (b1 :> b)
Swap == (a :> b) @@ (b :> a) @@ (a1 :> b1) @@ (b1 :> a1)
Same == [x \in DOMAIN Swap |-> x]
Symmetry == {p @@ q : p \in {Swap, Same}, q \in Permutations(Ids)}
=============================================================================
