--------------------------- MODULE MCEventDiscovery ---------------------------
(***************************************************************************)
(* EventDiscovery for TLC: who posts what, and what matches what.          *)
(***************************************************************************)
EXTENDS EventDiscovery, TLC

CONSTANTS m1, m2, m3, u1, u2, u3

(* Two copies of one clip beside another clip, or three clips.              *)
MCContents == {u1 :> m1 @@ u2 :> m1 @@ u3 :> m2, u1 :> m1 @@ u2 :> m2 @@ u3 :> m3}

(* Two pairs of neighbours match, the outer two do not.                     *)
ChainMatch ==
    {<<m, m>> : m \in Media} \cup {<<m1, m2>>, <<m2, m1>>, <<m2, m3>>, <<m3, m2>>}

Rising == m1 :> 1 @@ m2 :> 2 @@ m3 :> 3
=============================================================================
