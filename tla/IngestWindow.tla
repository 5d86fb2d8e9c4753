----------------------------- MODULE IngestWindow -----------------------------
(***************************************************************************)
(* The fetch half of the ingest workflow (internal/workflow/ingest.go,     *)
(* internal/activity/ingest/tracked_teams.go and fetch.go): which fixtures *)
(* an ingest run hands to categorisation.  FixtureIntake models what       *)
(* categorisation then stores.                                             *)
(*                                                                         *)
(* A run refreshes the cache of tracked teams when it is stale, then scans *)
(* days: the anchor day; with FetchFuture also tomorrow, and from there    *)
(* either the day after or a search for the next day that has fixtures.    *)
(* A manual run may name fixture ids instead.  The scheduled run and       *)
(* manual ones share the cache, a provider request may fail, a roster may  *)
(* be empty at the season's turn, and a deployment may change the leagues. *)
(***************************************************************************)
EXTENDS Naturals, FiniteSets, FiniteSetsExt, Sequences, SequencesExt

CONSTANTS
    Runs,              \* ingest runs that may be open at once
    Scheduled,         \* the one of them the schedule starts (overlap SKIP)
    Leagues, Teams, Fixtures,
    TeamsOf,           \* TeamsOf[f]: the two teams of fixture f
    Rosters,           \* the rosters the provider may have, [Leagues -> SUBSET Teams]
    Schedules,         \* the kickoff days the provider may have, [Fixtures -> Nat]
    LastToday,         \* bound: the last day a run starts on
    MaxLookaheadDays,  \* cfg.MaxLookaheadDays, at least 2 after clamping
    CacheDays,         \* TopFlightCacheHours in days
    ActivityAttempts,  \* attempts of one activity
    ManualAttempts,    \* ingestManualIDsMaxAttempts
    MaxUpsets          \* bound: failing requests, roster and league changes

ASSUME WindowAssumption ==
    /\ MaxLookaheadDays \in Nat /\ MaxLookaheadDays >= 2
    /\ CacheDays \in Nat \ {0} /\ ActivityAttempts \in Nat \ {0} /\ ManualAttempts \in Nat \ {0}
    /\ LastToday \in Nat /\ MaxUpsets \in Nat
    /\ \A f \in Fixtures : TeamsOf[f] \subseteq Teams
    /\ Rosters \subseteq [Leagues -> SUBSET Teams]
    /\ Schedules \subseteq [Fixtures -> Nat]

VARIABLES
    today,       \* the UTC day
    provider,    \* [roster, kickoff]: what API-Football answers
    configured,  \* TrackedLeagueIDs of the deployed worker
    cached,      \* tracked_teams_cache: rows [team, league, at]
    run,         \* run[r]: an ingest run
    fetchedAt,   \* fetchedAt[l]: the last day a roster of l was stored (history)
    upsets       \* number of failed requests, roster and league changes

windowVars == <<today, provider, configured, cached, run, fetchedAt, upsets>>

Quiet == [pc |-> "idle", anchor |-> 0, future |-> FALSE, existing |-> {}, now |-> 0, todo |-> {}, got |-> {},
          attempt |-> 1, offset |-> 0, kept |-> {}, left |-> {}, alone |-> TRUE]

-----------------------------------------------------------------------------
(* The cache of tracked teams *)

LeaguesIn(rows) == {row.league : row \in rows}
TeamsIn(rows) == {row.team : row \in rows}

\* trackedTeamCacheFresh: exactly the configured leagues, and the oldest row
\* within the age.
TrackedTeamCacheFresh(rows) ==
    /\ rows # {}
    /\ LeaguesIn(rows) = configured
    /\ today - Min({row.at : row \in rows}) < CacheDays

\* Mutant: rows carried over are stamped as if they had been fetched.
PreservedAsFresh(q) ==
    {[row EXCEPT !.at = q.now] : row \in {x \in q.existing : x.league \in configured \ LeaguesIn(q.got)}}

\* The rows of a league that did not refresh, with their own time.
Preserved(q) == {row \in q.existing : row.league \in configured \ LeaguesIn(q.got)}

\* TeamRepo.Replace in one transaction; team_id is the primary key.
Replaceable(rows) == \A a, b \in rows : a.team = b.team => a = b

\* Every other open run no longer scans over one cache.
Disturb(r) == [q \in Runs |-> IF q = r THEN run[q] ELSE [run[q] EXCEPT !.alone = run[q].pc = "idle"]]

-----------------------------------------------------------------------------
(* A run *)

\* The schedule starts one run a day with FetchFuture; an operator starts one
\* for a day, or for fixture ids (which skips the refresh and the filter).
StartScheduled(r) ==
    /\ r = Scheduled
    /\ run[r].pc = "idle"
    /\ today <= LastToday
    /\ run' = [run EXCEPT ![r] = [Quiet EXCEPT !.pc = "refresh", !.anchor = today, !.future = TRUE]]
    /\ UNCHANGED <<today, provider, configured, cached, fetchedAt, upsets>>

StartManual(r, day) ==
    /\ r # Scheduled
    /\ run[r].pc = "idle"
    /\ today <= LastToday
    /\ run' = [run EXCEPT ![r] = [Quiet EXCEPT !.pc = "refresh", !.anchor = day]]
    /\ UNCHANGED <<today, provider, configured, cached, fetchedAt, upsets>>

StartByIDs(r, ids) ==
    /\ r # Scheduled
    /\ run[r].pc = "idle"
    /\ today <= LastToday
    /\ ids # {}
    /\ run' = [run EXCEPT ![r] = [Quiet EXCEPT !.pc = "ids", !.left = ids]]
    /\ UNCHANGED <<today, provider, configured, cached, fetchedAt, upsets>>

\* RefreshTrackedTeamsIfStale lists the cache and leaves early when fresh.
RefreshTrackedTeamsIfStale(r) ==
    /\ run[r].pc = "refresh"
    /\ run' = [run EXCEPT ![r] = IF TrackedTeamCacheFresh(cached)
                                 THEN [@ EXCEPT !.pc = "scan"]
                                 ELSE [@ EXCEPT !.pc = "leagues", !.existing = cached, !.now = today,
                                                !.todo = configured, !.got = {}]]
    /\ UNCHANGED <<today, provider, configured, cached, fetchedAt, upsets>>

\* GetCurrentSeason and ListTeamsForLeague of one league.  A team of an
\* earlier league of this refresh is not counted again.
RefreshLeague(r, l) ==
    /\ run[r].pc = "leagues"
    /\ l \in run[r].todo
    /\ run' = [run EXCEPT ![r].todo = @ \ {l},
                          ![r].got = @ \cup {[team |-> t, league |-> l, at |-> run[r].now] :
                                                t \in provider.roster[l] \ TeamsIn(run[r].got)}]
    /\ UNCHANGED <<today, provider, configured, cached, fetchedAt, upsets>>

\* One of the two requests fails: the league contributes nothing.
RefreshLeagueFails(r, l) ==
    /\ run[r].pc = "leagues"
    /\ l \in run[r].todo
    /\ upsets < MaxUpsets
    /\ upsets' = upsets + 1
    /\ run' = [run EXCEPT ![r].todo = @ \ {l}]
    /\ UNCHANGED <<today, provider, configured, cached, fetchedAt>>

\* The activity fails as a whole: the policy runs it again, and after the last
\* attempt the workflow goes on with the cache as it is.
RefreshFailed(q) ==
    IF q.attempt < ActivityAttempts
    THEN [q EXCEPT !.pc = "refresh", !.attempt = @ + 1, !.existing = {}, !.now = 0, !.got = {}]
    ELSE [q EXCEPT !.pc = "scan", !.attempt = 1, !.existing = {}, !.now = 0, !.got = {}]

\* The end of the refresh: what came back and what is carried over replace
\* the cache, unless no league returned a team or the insert is refused.
ReplaceCache(r) ==
    /\ run[r].pc = "leagues"
    /\ run[r].todo = {}
    /\ LET rows == run[r].got \cup Preserved(run[r]) IN
        IF run[r].got # {} /\ Replaceable(rows)
        THEN /\ cached' = rows
             /\ fetchedAt' = [l \in Leagues |-> IF l \in LeaguesIn(run[r].got)
                                                THEN Max({row.at : row \in {x \in run[r].got : x.league = l}} \cup {fetchedAt[l]})
                                                ELSE fetchedAt[l]]
             /\ run' = [Disturb(r) EXCEPT ![r] = [@ EXCEPT !.pc = "scan", !.attempt = 1,
                                                          !.existing = {}, !.now = 0, !.got = {}, !.alone = TRUE]]
        ELSE /\ run' = [run EXCEPT ![r] = RefreshFailed(@)]
             /\ UNCHANGED <<cached, fetchedAt>>
    /\ UNCHANGED <<today, provider, configured, upsets>>

-----------------------------------------------------------------------------
(* The scan *)

\* TeamRepo.List, read anew by every day's activity.
TrackedSet == TeamsIn(cached)

\* FetchFixturesForDay: the day's fixtures with at least one tracked team; an
\* empty cache keeps nothing.
FetchFixturesForDay(day) ==
    {f \in Fixtures : provider.kickoff[f] = day /\ TeamsOf[f] \cap TrackedSet # {}}

\* The day a run in state pc asks for.
DayOf(q) ==
    q.anchor + CASE q.pc = "scan" -> 0
                 [] q.pc = "tomorrow" -> 1
                 [] q.pc = "dayafter" -> 2
                 [] q.pc = "look" -> q.offset
                 [] q.pc = "after" -> q.offset + 1

\* Mutant: the lookahead stops one day early.
AfterDayShort(q, found) ==
    CASE q.pc = "scan" -> [q EXCEPT !.pc = IF q.future THEN "tomorrow" ELSE "categorize"]
      [] q.pc = "tomorrow" /\ found -> [q EXCEPT !.pc = "dayafter"]
      [] q.pc = "tomorrow" /\ ~found -> [q EXCEPT !.pc = "look", !.offset = 2]
      [] q.pc = "look" /\ found -> [q EXCEPT !.pc = "after"]
      [] q.pc = "look" /\ ~found /\ q.offset < MaxLookaheadDays - 1 -> [q EXCEPT !.offset = @ + 1]
      [] OTHER -> [q EXCEPT !.pc = "categorize"]

\* What follows a day whose filtered answer is empty or not.
AfterDay(q, found) ==
    CASE q.pc = "scan" -> [q EXCEPT !.pc = IF q.future THEN "tomorrow" ELSE "categorize"]
      [] q.pc = "tomorrow" /\ found -> [q EXCEPT !.pc = "dayafter"]
      [] q.pc = "tomorrow" /\ ~found -> [q EXCEPT !.pc = "look", !.offset = 2]
      [] q.pc = "look" /\ found -> [q EXCEPT !.pc = "after"]
      [] q.pc = "look" /\ ~found /\ q.offset < MaxLookaheadDays -> [q EXCEPT !.offset = @ + 1]
      [] OTHER -> [q EXCEPT !.pc = "categorize"]

Scanning == {"scan", "tomorrow", "dayafter", "look", "after"}

FetchDay(r) ==
    /\ run[r].pc \in Scanning
    /\ LET found == FetchFixturesForDay(DayOf(run[r])) IN
        run' = [run EXCEPT ![r] = [AfterDay(run[r], found # {}) EXCEPT !.kept = @ \cup found]]
    /\ UNCHANGED <<today, provider, configured, cached, fetchedAt, upsets>>

\* A day's activity fails every attempt, or the by-ID activity or
\* categorisation does: the workflow fails and stores nothing.
RunFails(r) ==
    /\ run[r].pc \in Scanning \cup {"ids", "categorize"}
    /\ upsets < MaxUpsets
    /\ upsets' = upsets + 1
    /\ run' = [run EXCEPT ![r] = Quiet]
    /\ UNCHANGED <<today, provider, configured, cached, fetchedAt>>

\* FetchFixturesByIDs: ids of failed chunks are asked for again, a few times.
FetchFixturesByIDs(r, missed) ==
    /\ run[r].pc = "ids"
    /\ missed \subseteq run[r].left
    /\ missed # {} => upsets < MaxUpsets
    /\ upsets' = IF missed = {} THEN upsets ELSE upsets + 1
    /\ run' = [run EXCEPT ![r].kept = @ \cup (run[r].left \ missed),
                          ![r].left = missed,
                          ![r].attempt = @ + 1,
                          ![r].pc = IF missed = {} \/ run[r].attempt = ManualAttempts
                                    THEN "categorize" ELSE "ids"]
    /\ UNCHANGED <<today, provider, configured, cached, fetchedAt>>

\* The fixtures collected go to CategorizeAndUpsertFixtures.
Categorize(r) ==
    /\ run[r].pc = "categorize"
    /\ run' = [run EXCEPT ![r] = Quiet]
    /\ UNCHANGED <<today, provider, configured, cached, fetchedAt, upsets>>

-----------------------------------------------------------------------------
(* The surroundings *)

Midnight ==
    /\ today < LastToday
    /\ today' = today + 1
    /\ UNCHANGED <<provider, configured, cached, run, fetchedAt, upsets>>

\* The provider enters or empties rosters at the turn of a season.
RosterChanges(ro) ==
    /\ ro # provider.roster
    /\ upsets < MaxUpsets
    /\ upsets' = upsets + 1
    /\ provider' = [provider EXCEPT !.roster = ro]
    /\ UNCHANGED <<today, configured, cached, run, fetchedAt>>

\* A deployment changes the tracked leagues between two activities.
Reconfigure(leagues) ==
    /\ \A r \in Runs : run[r].pc # "leagues"
    /\ leagues # configured
    /\ upsets < MaxUpsets
    /\ upsets' = upsets + 1
    /\ configured' = leagues
    /\ UNCHANGED <<today, provider, cached, run, fetchedAt>>

WindowInit ==
    /\ today = 0
    /\ provider \in [roster : Rosters, kickoff : Schedules]
    /\ configured = Leagues
    /\ cached = {}
    /\ run = [r \in Runs |-> Quiet]
    /\ fetchedAt = [l \in Leagues |-> 0]
    /\ upsets = 0

WindowNext ==
    \/ \E r \in Runs :
        \/ StartScheduled(r)
        \/ \E day \in 0 .. LastToday : StartManual(r, day)
        \/ \E ids \in SUBSET Fixtures : StartByIDs(r, ids)
        \/ RefreshTrackedTeamsIfStale(r)
        \/ \E l \in Leagues : RefreshLeague(r, l) \/ RefreshLeagueFails(r, l)
        \/ ReplaceCache(r)
        \/ FetchDay(r)
        \/ RunFails(r)
        \/ \E missed \in SUBSET Fixtures : FetchFixturesByIDs(r, missed)
        \/ Categorize(r)
    \/ Midnight
    \/ \E ro \in Rosters : RosterChanges(ro)
    \/ \E leagues \in SUBSET Leagues \ {{}} : Reconfigure(leagues)

WindowSpec == WindowInit /\ [][WindowNext]_windowVars

-----------------------------------------------------------------------------
(* Properties *)

CacheRows == [team : Teams, league : Leagues, at : Nat]

IngestRuns ==
    [pc : {"idle", "refresh", "leagues", "ids", "categorize"} \cup Scanning,
     anchor : Nat, future : BOOLEAN, existing : SUBSET CacheRows, now : Nat, todo : SUBSET Leagues,
     got : SUBSET CacheRows, attempt : Nat, offset : Nat, kept : SUBSET Fixtures,
     left : SUBSET Fixtures, alone : BOOLEAN]

\* The cache, the provider and the open runs.
WindowTypeOK ==
    /\ today \in 0 .. LastToday
    /\ provider \in [roster : Rosters, kickoff : Schedules]
    /\ configured \subseteq Leagues
    /\ cached \subseteq CacheRows
    /\ run \in [Runs -> IngestRuns]
    /\ fetchedAt \in [Leagues -> Nat]
    /\ upsets \in 0 .. MaxUpsets

\* A run that trusts the cache without asking the provider has, for every
\* configured league, a roster really fetched within the cache's age: carrying
\* a league over a failed or empty refresh never makes it look fresh, however
\* many partial refreshes follow each other (tracked_teams.go:32-44, 125-143).
FreshIsFetched ==
    TrackedTeamCacheFresh(cached) => \A l \in configured : today - fetchedAt[l] < CacheDays

\* The days with a fixture of a tracked team after the anchor of a run.
NextDays(q) == {d \in q.anchor + 1 .. q.anchor + MaxLookaheadDays : FetchFixturesForDay(d) # {}}

\* The days a daily run answers for: the anchor and the two days after it, and
\* the next day that has fixtures with the one following it.
DueDays(q) ==
    q.anchor .. q.anchor + 2
        \cup (IF NextDays(q) = {} THEN {} ELSE {Min(NextDays(q)), Min(NextDays(q)) + 1})

\* A scheduled run that reaches categorisation, over a cache nobody replaced
\* meanwhile, holds every tracked fixture of those days: no early end of the
\* lookahead, no failed day and no off-by-one loses a match that is about to
\* be played (ingest.go:249-386).
UpcomingIsFetched ==
    \A r \in Runs :
        run[r].pc = "categorize" /\ run[r].future /\ run[r].alone =>
            \A d \in DueDays(run[r]) : FetchFixturesForDay(d) \subseteq run[r].kept

=============================================================================
