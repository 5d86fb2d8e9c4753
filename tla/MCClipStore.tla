------------------------------ MODULE MCClipStore ------------------------------
(* Instances of ClipStore: three posts of two or three media.               *)
EXTENDS ClipStore, TLC

CONSTANTS m1, m2, m3, c1, c2, c3, c4

(* Only neighbours match, and each is better than the one before: a clip    *)
(* hidden by m2 is not shown by the m3 that hides m2.                       *)
NeighbourMatch == {<<m, m>> : m \in Media} \cup {<<m1, m2>>, <<m2, m1>>, <<m2, m3>>, <<m3, m2>>}
RisingQuality == (m1 :> 0) @@ (m2 :> 1) @@ (m3 :> 2)
EachContent == (c1 :> m1) @@ (c2 :> m2) @@ (c3 :> m3) @@ (c4 :> m1)
PathPosts == [p \in Paths |-> IF p = "selection" THEN {c2, c3} ELSE {c2, c4}]
=============================================================================
