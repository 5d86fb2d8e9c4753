--------------------------- MODULE MCProviderHealth ---------------------------
(* One fixture in its first half, one at half time whose score may drop. *)
EXTENDS ProviderHealth
Clock(status, elapsed) == [NoFacts EXCEPT !.status = status, !.elapsed = elapsed]
FirstHalf == {Clock("1h", 30), Clock("1h", 31), Clock("1h", 45), Clock("ht", 45)}
Paused == {[Clock("ht", 45) EXCEPT !.score = n] : n \in 0..1}
Games == {"f1", "f2"}
Reports == [f \in Games |-> IF f = "f1" THEN FirstHalf ELSE Paused]
=============================================================================
