---------------------------- MODULE ProviderHealth ----------------------------
(***************************************************************************)
(* The durable assessment of the data provider.  Every active poll commits *)
(* one receipt: per fixture a clock cursor and its unresolved incidents    *)
(* (no data, a stalled clock, a contradiction of what was stored), and for *)
(* the provider the correlation of those incidents and the streak that     *)
(* ends a restriction.  Fetch attempts fail, polls overlap, answers get    *)
(* lost and are retried, reconciliation may not happen.                    *)
(***************************************************************************)
EXTENDS Integers, Sequences, FiniteSets

CONSTANTS
    Fixtures,
    Feed,              \* Feed[f]: the facts the provider may report about f
    GapLimit,          \* ObservationGapLimit
    InteriorStale,     \* InteriorStaleAfter
    BoundaryStale,     \* BoundaryStaleAfter
    CorrelationWindow,
    MaxProbes,         \* maxRecoveryProbes
    Enforce,           \* TRUE: the rollout mode is enforce, FALSE: shadow
    MaxPolls,          \* logical polls
    MaxMishaps         \* failed fetches, gaps, overlaps, lost answers, skipped writes

Nil == -1            \* a clock the provider did not report
Never == 0           \* the zero time
Running == {"1h", "2h", "et"}
Terminal == {"ft", "aet", "pen", "canc", "abd", "awd", "wo"}
Ranked == {"ns", "tbd", "1h", "ht", "2h", "et", "bt", "p"} \cup Terminal
Statuses == Ranked \cup {"int", "susp", "pst", "unknown", ""}

\* What the provider says of a fixture; a negative clock is no clock.
Facts == [status : Statuses, elapsed : Nat \cup {Nil}, extra : Nat, score : Nat, teams : {"same", "other"}]

ASSUME HealthConstants ==
    /\ {GapLimit, InteriorStale, BoundaryStale, MaxProbes} \subseteq Nat \ {0}
    /\ {CorrelationWindow, MaxPolls, MaxMishaps} \subseteq Nat
    /\ Enforce \in BOOLEAN
    /\ \A f \in Fixtures : Feed[f] # {} /\ Feed[f] \subseteq Facts

NoFacts == [status |-> "", elapsed |-> Nil, extra |-> 0, score |-> 0, teams |-> "same"]
Down == [NoFacts EXCEPT !.status = "down"]   \* nothing usable was returned
Over == [at |-> Never, pc |-> "over", final |-> "none", obs |-> <<>>, interrupted |-> {}]

VARIABLES
    health,     \* provider_fixture_health, one row per fixture
    provider,   \* provider_health
    polls,      \* provider_health_polls and the workflow run that owns each
    stored,     \* the fixture rows the comparisons start from
    now,
    mishaps,
    frozen,     \* history: the current run of identical, gapless observations
    recent      \* history: the last three polls that were committed, newest last

healthVars == <<health, provider, polls, stored, now, mishaps, frozen, recent>>

-----------------------------------------------------------------------------
(* evaluate.go: what contradicts what. *)

PhaseRank(s) ==
    IF s \in {"ns", "tbd"} THEN 0 ELSE IF s = "1h" THEN 1 ELSE IF s = "ht" THEN 2
    ELSE IF s = "2h" THEN 3 ELSE IF s \in {"et", "bt"} THEN 4 ELSE IF s = "p" THEN 5 ELSE 6

FixtureClock(f) == IF f.elapsed = Nil THEN 0 ELSE f.elapsed + f.extra

LaterPhase(before, after) ==
    {before, after} \subseteq Ranked /\ PhaseRank(after) > PhaseRank(before)
ForwardPhase(before, after) ==
    LaterPhase(before, after) \/ (before # after /\ {before, after} = {"et", "bt"})

MaterialClockRegressed(old, new) ==
    /\ old.elapsed # Nil /\ new.elapsed # Nil
    /\ ~ ForwardPhase(old.status, new.status)
    /\ FixtureClock(new) + 2 < FixtureClock(old)

\* The reasons for which an observation contradicts a baseline.
Reasons == {"fixture_identity_changed", "phase_regressed", "terminal_regressed",
            "clock_regressed", "populated_field_cleared", "score_decreased"}
AssessFixture(old, new) ==
    {r \in Reasons :
       \/ r = "fixture_identity_changed" /\ old.teams # new.teams
       \/ r = "phase_regressed" /\ LaterPhase(new.status, old.status)
       \/ r = "terminal_regressed" /\ old.status \in Terminal /\ new.status \notin Terminal
       \/ r = "clock_regressed" /\ MaterialClockRegressed(old, new)
       \/ r = "populated_field_cleared" /\ old.elapsed # Nil /\ new.elapsed = Nil
       \/ r = "score_decreased" /\ new.score < old.score}

-----------------------------------------------------------------------------
(* health.go: the clock. *)

PeriodBoundary(f) ==
    \/ f.status = "1h" /\ f.elapsed >= 45
    \/ f.status = "2h" /\ f.elapsed >= 90
    \/ f.status = "et" /\ (f.elapsed = 105 \/ f.elapsed >= 120)
Larger(a, b) == IF a < b THEN b ELSE a
StaleAfter(f) == IF PeriodBoundary(f) THEN BoundaryStale ELSE InteriorStale

\* Mutant: a clock that did not move counts as progress.
ProgressedOrEqual(base, new) ==
    \/ ForwardPhase(base.status, new.status)
    \/ /\ base.status = new.status /\ new.status \in Running
       /\ base.elapsed # Nil /\ new.elapsed # Nil
       /\ FixtureClock(new) >= FixtureClock(base)
ClockProgressed(base, new) ==
    \/ ForwardPhase(base.status, new.status)
    \/ /\ base.status = new.status /\ new.status \in Running
       /\ base.elapsed # Nil /\ new.elapsed # Nil
       /\ FixtureClock(new) > FixtureClock(base)

\* AssessFreshness, for a usable observation made at time at.
Freshness(facts, at, previous, since, progress) ==
    IF facts.status \notin Running
    THEN IF facts.status \in Ranked \cup {"int", "susp", "pst"} THEN "not_clocked" ELSE "unknown"
    ELSE IF \/ facts.elapsed = Nil
            \/ previous = Never \/ at - previous > GapLimit
            \/ since = Never \/ since > previous \/ progress = Never
         THEN "unknown"
         ELSE IF at - Larger(since, progress) < StaleAfter(facts) THEN "within_window"
              ELSE IF PeriodBoundary(facts) THEN "boundary_warning" ELSE "stalled"

\* The last n of a sequence.
Newest(n, s) == SubSeq(s, IF Len(s) > n THEN Len(s) - n + 1 ELSE 1, Len(s))

RestrictPolicies(S) ==
    IF "rejected" \in S THEN "rejected" ELSE IF "positive_only" \in S THEN "positive_only" ELSE "trusted"

-----------------------------------------------------------------------------
(* health_recovery.go: when a clock incident is over. *)

RecoveryStart(base) ==
    [at |-> Never, advances |-> 0, samples |-> 0, phase |-> "", high |-> base, last |-> Never]

\* A probe that says something about the clock.
Tells(p) == p.usable /\ (p.status \in Running => p.elapsed # Nil)

\* One more probe of a stalled clock, in receipt order.
RecoveryStep(base, r0, p) ==
    LET broken == ~ Tells(p) \/ (r0.at # Never /\ p.at - r0.at > GapLimit)
        r == [(IF broken THEN RecoveryStart(base) ELSE r0) EXCEPT !.at = p.at]
        samples == IF r.phase # "" /\ r.phase = p.status THEN r.samples + 1 ELSE r.samples
    IN IF ~ Tells(p) THEN r
       ELSE IF ForwardPhase(r.high.status, p.status)
       THEN [r EXCEPT !.phase = p.status, !.samples = 1, !.advances = 0, !.high = p, !.last = p.at]
       ELSE IF p.status # r.high.status \/ MaterialClockRegressed(r.high, p)
       THEN [r EXCEPT !.advances = 0, !.samples = 0, !.phase = ""]
       ELSE IF ClockProgressed(r.high, p)
       THEN [r EXCEPT !.samples = samples, !.high = p, !.last = p.at,
                      !.advances = IF r.advances > 0 /\ p.at - r.last <= InteriorStale THEN 2 ELSE 1]
       ELSE [r EXCEPT !.samples = samples]

\* What the probes have shown after some of them.
Recovery(base, probes) ==
    LET after[k \in 0..Len(probes)] ==
          IF k = 0 THEN RecoveryStart(base) ELSE RecoveryStep(base, after[k - 1], probes[k])
    IN after

FreshnessRecovered(base, probes) ==
    LET r == Recovery(base, probes)[Len(probes)]
    IN IF r.samples >= 3
       THEN r.high.status \in Running =>
                r.high.elapsed # Nil /\ r.at - r.last < StaleAfter(r.high)
       ELSE r.advances >= 2 /\ r.last # Never /\ r.at - r.last < InteriorStale

\* Mutant: a gap between clean polls is overlooked.
RecoveredAcrossGaps(probes) ==
    Len(probes) >= 3 /\ \A k \in 1..3 :
        LET p == probes[Len(probes) + 1 - k] IN p.complete /\ ~ p.systemic /\ ~ p.affected
Clean(p) == p.complete /\ ~ p.systemic /\ ~ p.affected
CleanRun(probes) ==
    LET run[k \in 0..Len(probes)] ==
          IF k = 0 \/ ~ Clean(probes[k]) THEN 0
          ELSE IF k > 1 /\ probes[k].at - probes[k - 1].at > GapLimit THEN 1
          ELSE run[k - 1] + 1
    IN run
ProviderIntegrityRecovered(probes) == CleanRun(probes)[Len(probes)] >= 3

-----------------------------------------------------------------------------
(* collector_fixture.go *)

ClockCauses == {"clock_stalled", "boundary_warning"}
NewHealth ==
    [poll |-> 0, last |-> Never, usable |-> Never, since |-> Never, progress |-> Never,
     observed |-> "", clock |-> NoFacts, incidents |-> {}]

\* A reading beyond the high-water clock, or the first one.
Advanced(clock, facts) ==
    \/ clock.status = ""
    \/ clock.status \notin Ranked /\ facts.status \in Ranked
    \/ clock.status = facts.status /\ clock.elapsed = Nil /\ facts.elapsed # Nil
    \/ ClockProgressed(clock, facts)

\* advanceClock: the high-water clock and the start of its continuity.
AdvanceClock(h, at, facts, interrupted) ==
    LET lost == h.usable = Never \/ h.since = Never \/ at - h.usable > GapLimit \/ interrupted
        advanced == Advanced(h.clock, facts)
        clock == IF advanced
                 THEN [NoFacts EXCEPT !.status = facts.status, !.elapsed = facts.elapsed,
                                      !.extra = facts.extra]
                 ELSE h.clock
        restart == h.observed # facts.status \/ lost \/ (advanced /\ h.clock.status # facts.status)
                   \/ facts.status # clock.status \/ facts.elapsed = Nil
    IN [h EXCEPT !.observed = facts.status, !.clock = clock,
                 !.progress = IF advanced THEN at ELSE @,
                 !.since = IF restart THEN at ELSE @]

\* An unresolved incident after one more observation of its fixture.
Probed(i, at, o, interrupted) ==
    IF i.cause \notin ClockCauses THEN i
    ELSE LET facts == IF o = Down THEN NoFacts ELSE o
             p == [at |-> at, usable |-> o # Down /\ ~ interrupted, status |-> facts.status,
                   elapsed |-> facts.elapsed, extra |-> facts.extra]
         IN [i EXCEPT !.probes = Newest(MaxProbes, Append(@, p))]

\* Mutant: any usable answer ends an incident of the clock.
ResolvedByAnyAnswer(i, o) ==
    IF i.cause \in ClockCauses \cup {"unavailable"} THEN o # Down
    ELSE o # Down /\ i.cause \notin AssessFixture(i.base, o)
\* ("unavailable" is no reason: an answer ends it.)
Resolved(i, o) ==
    IF i.cause \in ClockCauses THEN FreshnessRecovered(i.base, i.probes)
    ELSE o # Down /\ i.cause \notin AssessFixture(i.base, o)

Incident(cause, at, policy, base) ==
    [cause |-> cause, start |-> at, policy |-> policy, base |-> base, probes |-> <<>>]

\* The row's cursors after an observation, and what they say of the clock.
Cursors(h, at, o, interrupted) ==
    IF o = Down THEN [h EXCEPT !.since = Never] ELSE AdvanceClock(h, at, o, interrupted)
FreshnessAfter(h, at, o, interrupted) ==
    LET new == Cursors(h, at, o, interrupted)
    IN IF o = Down THEN "unknown" ELSE Freshness(o, at, h.usable, new.since, new.progress)

\* The incidents one observation calls for, whether or not already open.
Called(clock, at, o, fresh, base) ==
    IF o = Down THEN {Incident("unavailable", at, "rejected", NoFacts)}
    ELSE (IF fresh = "stalled" THEN {Incident("clock_stalled", at, "positive_only", clock)}
          ELSE IF fresh = "boundary_warning" THEN {Incident("boundary_warning", at, "trusted", clock)}
          ELSE {})
         \cup {Incident(r, at, IF r = "fixture_identity_changed" THEN "rejected" ELSE "positive_only", base) :
                 r \in AssessFixture(base, o)}

\* ObserveFixture: the new row, and the causes it closed and opened.
ObserveFixture(h, id, at, o, interrupted, base) ==
    IF at <= h.last \/ id = h.poll THEN [row |-> h, closed |-> {}, opened |-> {}]
    ELSE
    LET new == Cursors(h, at, o, interrupted)
        probed == {Probed(i, at, o, interrupted) : i \in h.incidents}
        retained == {i \in probed : ~ Resolved(i, o)}
        opened == {i \in Called(new.clock, at, o, FreshnessAfter(h, at, o, interrupted), base) :
                     \A k \in retained : k.cause # i.cause}
    IN [row |-> [new EXCEPT !.poll = id, !.last = at, !.usable = IF o = Down THEN @ ELSE at,
                            !.incidents = retained \cup opened],
        closed |-> {i.cause : i \in probed \ retained},
        opened |-> {i.cause : i \in opened}]

FixtureHealthPolicy(h) == RestrictPolicies({i.policy : i \in h.incidents})

-----------------------------------------------------------------------------
(* collector_provider.go and health_scope.go *)

CauseFamily(c) == IF c \in ClockCauses \cup {"unavailable"} THEN c ELSE "integrity_conflict"
Correlated == {"clock_stalled", "integrity_conflict"}

HasFamily(h, family) == \E i \in h.incidents : CauseFamily(i.cause) = family
FirstOnset(h, family, at) == \A i \in h.incidents : CauseFamily(i.cause) = family => i.start >= at

\* CorrelateHealth: fixtures whose conflict began inside the window and is open.
ConflictFixtures(at, episodes) ==
    {e.f : e \in {x \in episodes : /\ x.family = "integrity_conflict" /\ x.resolved = Never
                                   /\ at - x.start <= CorrelationWindow}}

\* The episodes after this poll's transitions.
Episodes(old, at, seen) ==
    LET live == {e \in old : at - e.start <= CorrelationWindow}
        ends == {e \in live : /\ \E c \in seen[e.f].closed : CauseFamily(c) = e.family
                              /\ ~ HasFamily(seen[e.f].row, e.family)}
        new == {[f |-> x[1], family |-> x[2], start |-> at, resolved |-> Never] :
                  x \in {y \in Fixtures \X Correlated :
                     /\ \E c \in seen[y[1]].opened : CauseFamily(c) = y[2]
                     /\ FirstOnset(seen[y[1]].row, y[2], at)}}
    IN (live \ ends) \cup {[e EXCEPT !.resolved = at] : e \in ends} \cup new

ObserveProvider(s, id, at, seen, complete) ==
    LET episodes == Episodes(s.recent, at, seen)
        affected == \E e \in episodes : e.family = "integrity_conflict" /\ e.start = at /\ e.resolved = Never
        systemic == affected /\ Cardinality(ConflictFixtures(at, episodes)) >= 2
        trips == systemic /\ s.policy # "positive_only"
        policy == IF systemic THEN "positive_only" ELSE s.policy
        before == IF systemic THEN <<>> ELSE s.probes
        probes == Newest(3, Append(before, [at |-> at, complete |-> complete,
                                            systemic |-> systemic, affected |-> affected]))
        generation == s.generation + IF trips THEN 1 ELSE 0
    IN IF policy # "positive_only"
       THEN [s EXCEPT !.last = at, !.recent = episodes]
       ELSE IF ProviderIntegrityRecovered(probes)
       THEN [last |-> at, recent |-> episodes, policy |-> "trusted",
             generation |-> generation + 1, probes |-> <<>>]
       ELSE [last |-> at, recent |-> episodes, policy |-> policy,
             generation |-> generation, probes |-> probes]

-----------------------------------------------------------------------------
(* The polls. *)

NewProvider == [last |-> Never, recent |-> {}, policy |-> "trusted", generation |-> 0, probes |-> <<>>]

HealthInit ==
    /\ health = [f \in Fixtures |-> NewHealth]
    /\ provider = NewProvider
    /\ polls = <<>>
    /\ stored = [f \in Fixtures |-> [facts |-> CHOOSE x \in Feed[f] : TRUE, polled |-> Never]]
    /\ now = Never /\ mishaps = 0
    /\ frozen = [f \in Fixtures |-> [facts |-> Down, since |-> Never, last |-> Never]]
    /\ recent = <<>>

Fault(n) == mishaps + n <= MaxMishaps /\ mishaps' = mishaps + n
Reported == UNION {Feed[f] : f \in Fixtures}
Busy == {id \in DOMAIN polls : polls[id].pc # "over"}

\* healthFetchFailures: whatever the reason, a fixture of a failed chunk or of no
\* chunk has no usable observation.
HealthObservation(f, facts, down) == IF f \in down THEN Down ELSE facts[f]
\* The fixtures of every attempt that failed, kept with the poll's receipt.
RecordFetchFailure(failed, down) == failed \cup down

\* ActivePollWorkflow fixes its time, then fetches.  failed are the fixtures of
\* an attempt that failed before the last one (RecordFetchFailure); down those
\* the last attempt did not return.
Fetch ==
    /\ Len(polls) < MaxPolls /\ Cardinality(Busy) <= 1
    /\ \E gap \in {1, GapLimit + 1}, down \in SUBSET Fixtures, failed \in {{}, Fixtures} :
      /\ Fault((IF gap = 1 THEN 0 ELSE 1) + (IF down = {} THEN 0 ELSE 1)
               + (IF failed = {} THEN 0 ELSE 1) + Cardinality(Busy))
      /\ \E facts \in {x \in [Fixtures -> Reported] : \A f \in Fixtures : x[f] \in Feed[f]} :
         /\ now' = now + gap
         /\ polls' = Append(polls, [at |-> now + gap, pc |-> "collect", final |-> "none",
                                    obs |-> [f \in Fixtures |-> HealthObservation(f, facts, down)],
                                    interrupted |-> RecordFetchFailure(failed, down)])
    /\ UNCHANGED <<health, provider, stored, frozen, recent>>

\* What the collector may use of a returned fixture: not one that a newer poll
\* has already written.
Usable(id, f) ==
    IF stored[f].polled > polls[id].at THEN Down ELSE polls[id].obs[f]

\* The facts a comparison starts from.  They are read before the transaction and
\* verifyHealthBaselines refuses it if the row was written since: the activity is
\* retried until what it read is what is there.
Baseline(f) == stored[f].facts

Seen(id) ==
    [f \in Fixtures |-> ObserveFixture(health[f], id, polls[id].at, Usable(id, f),
                                       f \in polls[id].interrupted, Baseline(f))]
CompletePoll(id) == \A f \in Fixtures : Usable(id, f) # Down /\ f \notin polls[id].interrupted

\* The histories after a committed poll: the run of a fixture's identical
\* observations, and which of the last polls put a fixture into conflict.
FrozenAfter(z, o, at, interrupted) ==
    LET same == o = z.facts /\ o # Down /\ ~ interrupted /\ at - z.last <= GapLimit
    IN [facts |-> o, since |-> IF same THEN z.since ELSE at, last |-> at]
Conflicted(before, after) ==
    ~ HasFamily(before, "integrity_conflict") /\ HasFamily(after, "integrity_conflict")

\* Observe commits the receipt of a poll once.  A late poll is recorded as
\* ignored, a retry finds the receipt.
Observe(id) ==
    LET at == polls[id].at
    IN IF polls[id].final # "none" \/ at <= provider.last
       THEN UNCHANGED <<health, provider, frozen, recent>>
       ELSE /\ health' = [f \in Fixtures |-> Seen(id)[f].row]
            /\ provider' = ObserveProvider(provider, id, at, Seen(id), CompletePoll(id))
            /\ frozen' = [f \in Fixtures |->
                            FrozenAfter(frozen[f], Usable(id, f), at, f \in polls[id].interrupted)]
            /\ recent' = Newest(3, Append(recent,
                   [at |-> at, complete |-> CompletePoll(id),
                    affected |-> \E f \in Fixtures : Conflicted(health[f], Seen(id)[f].row)]))

\* The CollectProviderHealth activity.  An ignored poll writes nothing more; an
\* answer may be lost and asked for again.
Collect(id) ==
    LET final == IF polls[id].final # "none" THEN polls[id].final
                 ELSE IF polls[id].at <= provider.last THEN "ignored" ELSE "taken"
    IN /\ polls[id].pc = "collect"
       /\ Observe(id)
       /\ \/ /\ polls' = [polls EXCEPT ![id] = IF final = "ignored" THEN Over
                                                ELSE [@ EXCEPT !.pc = "write", !.final = final]]
             /\ UNCHANGED mishaps
          \/ /\ polls[id].final = "none" /\ Fault(1)
             /\ polls' = [polls EXCEPT ![id].final = final]
       /\ UNCHANGED <<stored, now>>

\* mergePositiveFixture: nothing that was known goes back.
MergePositive(old, new) ==
    LET blocked == AssessFixture(old, new) \cap {"phase_regressed", "terminal_regressed", "clock_regressed"} # {}
        timed == ~ blocked /\ new.elapsed # Nil
    IN [status |-> IF blocked THEN old.status ELSE new.status,
        elapsed |-> IF timed THEN new.elapsed ELSE old.elapsed,
        extra |-> IF timed THEN new.extra ELSE old.extra,
        score |-> Larger(old.score, new.score), teams |-> old.teams]

\* The guarded writer of one fixture, under the policy of the moment; a plan
\* whose receipt is no longer the provider's latest is stale.
Written(id, f) ==
    LET new == polls[id].obs[f]
        old == stored[f].facts
        why == AssessFixture(old, new)
        local == IF why = {} THEN "trusted"
                 ELSE IF "fixture_identity_changed" \in why THEN "rejected" ELSE "positive_only"
        policy == IF Enforce
                  THEN RestrictPolicies({provider.policy, FixtureHealthPolicy(health[f]), local})
                  ELSE "trusted"
    IN IF new = Down THEN stored[f]
       ELSE IF \/ stored[f].polled >= polls[id].at \/ provider.last # polls[id].at
               \/ health[f].poll # id \/ policy = "rejected"
       THEN stored[f]
       ELSE [polled |-> polls[id].at, facts |-> IF policy = "trusted" THEN new ELSE MergePositive(old, new)]
Reconcile(id) ==
    /\ polls[id].pc = "write"
    /\ \/ stored' = [f \in Fixtures |-> Written(id, f)] /\ UNCHANGED mishaps
       \/ Fault(1) /\ UNCHANGED stored
    /\ polls' = [polls EXCEPT ![id] = Over]
    /\ UNCHANGED <<health, provider, now, frozen, recent>>

HealthNext == Fetch \/ \E id \in DOMAIN polls : Collect(id) \/ Reconcile(id)
HealthSpec == HealthInit /\ [][HealthNext]_healthVars

-----------------------------------------------------------------------------
(* Properties. *)

\* health.go:8: a running clock that shows the same minute in every poll of an
\* unbroken run as long as the interior threshold restricts its fixture.  Held
\* against the observations themselves, not against the cursor that AdvanceClock
\* keeps.  Once a later phase was seen an earlier one is no clock to watch.
FrozenIsRestricted ==
    \A f \in Fixtures :
      LET z == frozen[f]
      IN (/\ z.facts # Down /\ z.last - z.since >= InteriorStale
          /\ z.facts.status \in Running /\ z.facts.elapsed # Nil /\ ~ PeriodBoundary(z.facts)
          /\ health[f].clock.status = z.facts.status)
         => FixtureHealthPolicy(health[f]) # "trusted"

\* From probe j on every poll told the clock, none a gap after the one before it.
Unbroken(probes, j) ==
    \A k \in j..Len(probes) :
        Tells(probes[k]) /\ (k > j => probes[k].at - probes[k - 1].at <= GapLimit)

\* Beyond the stalled clock, then further again, not too long ago.
RepeatedProgress(base, probes) ==
    \E j, m, k \in DOMAIN probes :
        /\ j <= m /\ m < k /\ Unbroken(probes, j)
        /\ ClockProgressed(base, probes[j]) /\ ClockProgressed(probes[m], probes[k])
        /\ probes[Len(probes)].at - probes[k].at < InteriorStale

\* A later phase, then one phase seen three times.
PhaseHeld(base, probes) ==
    \E j, m, k, n \in DOMAIN probes :
        /\ j <= m /\ m < k /\ k < n /\ Unbroken(probes, j)
        /\ ClockProgressed(base, probes[j])
        /\ probes[m].status = probes[k].status /\ probes[k].status = probes[n].status

\* health_recovery.go:27: the restriction of a stalled clock ends only after
\* repeated progress beyond where it stalled, or a phase beyond it that held,
\* in polls that followed one another without a failure or a gap, up to the
\* poll that ends it.
StallNeedsProgress ==
    [][\A f \in Fixtures : \A i \in health[f].incidents :
         (/\ i.cause = "clock_stalled"
          /\ \A j \in health'[f].incidents : j.cause # "clock_stalled" \/ j.start # i.start)
         => LET z == frozen'[f]
                probes == Append(i.probes, [at |-> z.last, usable |-> z.facts # Down,
                                            status |-> z.facts.status, elapsed |-> z.facts.elapsed,
                                            extra |-> z.facts.extra])
            IN RepeatedProgress(i.base, probes) \/ PhaseHeld(i.base, probes)]_healthVars

\* health_recovery.go:97: the provider's restriction ends only after three
\* complete polls in a row, without a gap, none of which put a fixture into
\* conflict; retries and late polls count for nothing.
TrustIsEarned ==
    [][(provider.policy = "positive_only" /\ provider'.policy = "trusted")
       => /\ Len(recent') = 3
          /\ \A k \in 1..3 : recent'[k].complete /\ ~ recent'[k].affected
          /\ \A k \in 1..2 : recent'[k + 1].at - recent'[k].at <= GapLimit]_healthVars

=============================================================================
