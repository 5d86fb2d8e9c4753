--------------------------- MODULE MCTwitterSession ---------------------------
(* The static service and one goal's browser, two overlapping requests, two logins. *)
EXTENDS TwitterSession, TLC
CONSTANTS s, e, r1, r2
MCInstances == {s, e}
MCRequests == {r1, r2}
Overlap == Permutations(MCRequests)
=============================================================================
