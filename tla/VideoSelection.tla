---------------------------- MODULE VideoSelection ----------------------------
(***************************************************************************)
(* Which clips of an event are public: PlanSelection, the pure planner     *)
(* that every placement transaction runs after its own changes.            *)
(*                                                                         *)
(* An asset is the media it holds, because its identity is derived from    *)
(* the event and the bytes.  owner[m] is the superseded_by column: m       *)
(* itself when the asset is live, None when there is no row.               *)
(***************************************************************************)
EXTENDS Integers, Sequences

CONSTANTS
    Media,      \* distinct exact media
    Match,      \* pairs the perceptual matcher accepts, within one category
    Quality,    \* what IsUpgrade compares; equal is "no meaningful upgrade"
    None

ASSUME SelectionAssumption ==
    /\ None \notin Media
    /\ Match \subseteq Media \X Media
    /\ \A m \in Media : <<m, m>> \in Match
    /\ \A m, k \in Media : <<m, k>> \in Match => <<k, m>> \in Match
    /\ Quality \in [Media -> Nat]

Owners == [Media -> Media \cup {None}]

Known(owner) == {m \in Media : owner[m] # None}

Live(owner) == {m \in Media : owner[m] = m}

(* Recorded ownership is followed to its end.  Every plan leaves one level  *)
(* and a placement adds one, so two steps reach it.                         *)
Root(owner, m) == owner[owner[m]]

Roots(owner) == [m \in Media |-> IF owner[m] = None THEN None ELSE Root(owner, m)]

IsUpgrade(m, k) == Quality[m] > Quality[k]

(* The best of a set; among equals the code keeps the first in its order,   *)
(* which is left open here.                                                 *)
Best(S) == {m \in S : \A k \in S : ~IsUpgrade(k, m)}

(* The walk over the assets looks at k before it looks at m: live roots are *)
(* selected from the start, the others come in the order of first sight.    *)
Before(owner, order, k, m) ==
    k \in Live(owner) \/ \E i, j \in DOMAIN order : i < j /\ order[i] = k /\ order[j] = m

(* Live roots stay.  A hidden asset whose object is ready becomes public    *)
(* again when no clip selected before it shows the same thing.  One set is  *)
(* like that.                                                               *)
PublicSets(owner, order, ready) ==
    {S \in SUBSET Known(owner) :
       \A m \in Known(owner) :
          m \in S <=> \/ m \in Live(owner)
                      \/ /\ m \in ready
                         /\ \A k \in S : Before(owner, order, k, m) => <<m, k>> \notin Match}

(* The keepers an asset may be routed to: itself, its recorded root if that *)
(* still shows it or the object is gone, or else the best selected clip     *)
(* that shows it.                                                           *)
Keepers(owner, selected, ready, m) ==
    IF m \in selected THEN {m}
    ELSE IF m \notin ready \/ <<m, Root(owner, m)>> \in Match THEN {Root(owner, m)}
    ELSE Best({k \in selected : <<m, k>> \in Match})

(* validateCredits: every source counts for the root of the asset it        *)
(* showed, and every asset has a source.  observed[s] is the media of a     *)
(* source, and credits[s] the asset it is credited to.                      *)
CreditsValid(owner, sources, observed, credits) ==
    /\ \A s \in sources : credits[s] = Root(owner, observed[s])
    /\ \A m \in Known(owner) : \E s \in sources : observed[s] = m

(* The plans, one for every choice among equals.  There is none when the    *)
(* object of a live asset is missing: the transaction is refused.           *)
PlanByOwnership(owner, order, ready) == {Roots(owner)}            \* mutant
PlanSelection(owner, order, ready) ==
    {plan \in Owners :
       /\ Live(owner) \subseteq ready
       /\ \E selected \in PublicSets(owner, order, ready) :
             \A m \in Media : plan[m] \in IF owner[m] = None THEN {None}
                                          ELSE Keepers(owner, selected, ready, m)}
=============================================================================
