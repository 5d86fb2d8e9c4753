--------------------------- MODULE MCOperatorReplay ---------------------------
(* One tweet, two operators, two slugs of which one is also given with     *)
(* another mode, and one clock repair with and without an allowlist.       *)
EXTENDS OperatorReplay, TLC
CONSTANTS o1, o2, r1, c1
Command(id, mode, allow) == [id |-> id, mode |-> mode, allow |-> allow]
Commands == {Command(o1, "recover", {}), Command(o1, "fresh-search", {}),
             Command(o2, "retry-transient", {}),
             Command(r1, "repair", {}), Command(r1, "repair", {c1})}
Interchangeable == Permutations(Operators)
=============================================================================
