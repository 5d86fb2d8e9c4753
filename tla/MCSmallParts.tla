----------------------------- MODULE MCSmallParts -----------------------------
(***************************************************************************)
(* Four parts that meet no other part of the model, in one state space:    *)
(* the repeated searches of a goal, the clock check of a clip, the schema  *)
(* migrations and the fetch window of ingest.  A behaviour is one of one   *)
(* part; the other three stay at rest.                                     *)
(***************************************************************************)
EXTENDS SearchScan, MatchClock, SchemaMigrations, IngestWindow, TLC

-----------------------------------------------------------------------------
(* SearchScan: feeds of up to four tweets above or at the floor.            *)
FirstFeeds == {<<"old">> \o f : f \in [1..2 -> {"clip", "text", "ad"}]}
              \cup [1..3 -> {"clip", "undated"}] \cup {<<"old", "clip", "clip", "clip">>}

(* MatchClock: both sides of every boundary of a period.                    *)
Minutes == [p \in Periods |-> IF p \in {"1H", "2H"} THEN {0, 1, 15, 30, 43, 44, 45, 46, 49}
                              ELSE {0, 1, 13, 14, 15, 16, 18}]
MatchMoments == UNION {[period : {p}, minute : Minutes[p]] : p \in Periods}
AllConventions == {"labelled", "plain", "subclock", "compact", "reset", "embedded"}

(* SchemaMigrations: a release, its successor, a release that merged a file *)
(* with an older version, one that edited a file and one with a bad file,   *)
(* over databases that are old, freshly installed, incomplete or unclean.   *)
File(v, o) == [version |-> v, sum |-> v, hash |-> v, wellFormed |-> TRUE, adds |-> {o}]

MCReleases == {"v1", "v2", "merged", "edited", "malformed"}
MCFiles ==
    "v1" :> {File(1, "a"), File(3, "c")}
    @@ "v2" :> {File(1, "a"), File(3, "c"), File(4, "d")}
    @@ "merged" :> {File(1, "a"), File(2, "b"), File(3, "c")}
    @@ "edited" :> {[File(1, "a") EXCEPT !.sum = 9], File(3, "c")}
    @@ "malformed" :> {File(1, "a"), [File(3, "c") EXCEPT !.wellFormed = FALSE]}
MCSchemaHash == [r \in MCReleases |-> IF r = "v2" THEN 4 ELSE 3]
MCBaseline == {"base"}
MCManifest == [r \in MCReleases |-> UNION {f.adds : f \in MCFiles[r]}]
MCDatabases ==
    [ledger : {{}}, stamp : {0}, objects : {{"base"}, {"base", "a", "b", "c", "d"}, {"a"}}, dirty : {{}, {3}}]

(* IngestWindow: two leagues with one roster late or a team of both, and    *)
(* matches on each day of the window and just past it.                      *)
MCTeamsOf == "f1" :> {"t1", "t3"} @@ "f2" :> {"t2"}
MCRosters == {"A" :> {"t1"} @@ "B" :> {"t2"}, "A" :> {"t1"} @@ "B" :> {}, "A" :> {} @@ "B" :> {"t1", "t2"}}
MCSchedules == {"f1" :> d[1] @@ "f2" :> d[2] : d \in {<<0, 1>>, <<1, 3>>, <<2, 3>>, <<3, 4>>}}

-----------------------------------------------------------------------------
VARIABLE part

ScanRest == feed = (CHOOSE f \in Feeds : TRUE) /\ ScanInit
ClockRest ==
    /\ goal = [period |-> "1H", minute |-> 0] /\ clip = goal /\ convention = "plain"
    /\ ClockInit
MigrationRest == db = (CHOOSE d \in Databases : TRUE) /\ MigrationInit
WindowRest ==
    /\ provider = CHOOSE p \in [roster : Rosters, kickoff : Schedules] : TRUE
    /\ WindowInit

Init ==
    \/ part = "scan" /\ ScanInit /\ ClockRest /\ MigrationRest /\ WindowRest
    \/ part = "clock" /\ ScanRest /\ ClockInit /\ MigrationRest /\ WindowRest
    \/ part = "migration" /\ ScanRest /\ ClockRest /\ MigrationInit /\ WindowRest
    \/ part = "window" /\ ScanRest /\ ClockRest /\ MigrationRest /\ WindowInit

Next ==
    \/ part = "scan" /\ ScanNext /\ UNCHANGED <<part, clockVars, migrationVars, windowVars>>
    \/ part = "clock" /\ ClockNext /\ UNCHANGED <<part, scanVars, migrationVars, windowVars>>
    \/ part = "migration" /\ MigrationNext /\ UNCHANGED <<part, scanVars, clockVars, windowVars>>
    \/ part = "window" /\ WindowNext /\ UNCHANGED <<part, scanVars, clockVars, migrationVars>>

Spec == Init /\ [][Next]_<<part, scanVars, clockVars, migrationVars, windowVars>>
=============================================================================
