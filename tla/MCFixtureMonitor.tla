--------------------------- MODULE MCFixtureMonitor ---------------------------
(***************************************************************************)
(* FixtureMonitor for TLC: one scorer, and two bounded scenarios of which  *)
(* a behaviour is one.                                                     *)
(***************************************************************************)
EXTENDS FixtureMonitor

Payload(goals, terminal) ==
    [goals |-> goals, unknown |-> FALSE, terminal |-> terminal, held |-> {},
     supported |-> TRUE, anomaly |-> "trusted"]

(* The scorers of a payload have one entry each.                            *)
Scored(S) == [p \in Players |-> IF p \in S THEN 1 ELSE 0]

(* A goal that comes and goes, and the final whistle.                       *)
ShortFeeds == {Payload(Scored({}), FALSE), Payload(Scored(Players), FALSE), Payload(Scored(Players), TRUE)}

(* What makes reconciliation more careful: a placeholder, a score that      *)
(* still requires the goal, an unsupported disappearance, an identity that  *)
(* changed.                                                                 *)
CarefulFeeds ==
    LET none == Payload(Scored({}), FALSE)
        one  == Payload(Scored(Players), FALSE)
    IN ShortFeeds \cup
       {[none EXCEPT !.unknown = TRUE], [none EXCEPT !.held = Players],
        [none EXCEPT !.supported = FALSE], [one EXCEPT !.anomaly = "rejected"]}

(* "evidence": four polls of careful payloads under both verdicts, of which *)
(* the second may repeat or lose its reconciliation; no attempt is late.    *)
(* "races": three polls of short payloads under a trusted verdict, a late   *)
(* attempt and an ingest that takes one of the three ticks.                 *)
VARIABLE scenario

Evidence ==
    LET old == <<poll.id, poll.try>> IN
    /\ UNCHANGED ingest
    /\ poll'.try = 2 => poll'.phase # "collect" /\ poll'.id = 2
    /\ poll.phase # "idle" /\ <<poll'.id, poll'.try>> # old =>
          collect'[old].pc = "off" /\ reconcile'[old].pc = "off"

Races ==
    /\ clock' <= 3
    /\ poll'.feed \in ShortFeeds \cup {NoFeed}
    /\ provider'.policy = "trusted" /\ fixtureHealth'.policy # "positive_only"

MonitorInit == Init /\ scenario \in {"evidence", "races"}
MonitorNext ==
    /\ Next /\ UNCHANGED scenario
    /\ IF scenario = "evidence" THEN Evidence ELSE Races
MonitorSpec == MonitorInit /\ [][MonitorNext]_<<vars, scenario>>
=============================================================================
