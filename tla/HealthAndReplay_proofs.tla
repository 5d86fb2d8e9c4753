----------------------- MODULE HealthAndReplay_proofs -----------------------
(***************************************************************************)
(* Two components that share neither a name nor a state, one after the    *)
(* other: the durable assessment of the provider (ProviderHealth) for any *)
(* fixtures, feeds, limits and thresholds, and the replay tools           *)
(* (OperatorReplay) for any number of operators, commands, candidates and *)
(* faults.                                                                *)
(***************************************************************************)
EXTENDS ProviderHealth, OperatorReplay, FiniteSetTheorems, SequenceTheorems, WellFoundedInduction,
        NaturalsInduction, TLAPS

-----------------------------------------------------------------------------
(* ProviderHealth: what the durable assessment holds. *)

Causes == ClockCauses \cup {"unavailable"} \cup Reasons
Policies == {"trusted", "positive_only", "rejected"}
Probes == [at : Nat \ {0}, usable : BOOLEAN, status : Statuses, elapsed : Nat \cup {Nil}, extra : Nat]
Incidents == [cause : Causes, start : Nat, policy : Policies, base : Facts, probes : Seq(Probes)]
HealthRows ==
    [poll : Nat, last : Nat, usable : Nat, since : Nat, progress : Nat,
     observed : Statuses, clock : Facts, incidents : SUBSET Incidents]
Observations == Facts \cup {Down}
FrozenRuns == [facts : Observations, since : Nat, last : Nat]
ProviderProbes == [at : Nat, complete : BOOLEAN, systemic : BOOLEAN, affected : BOOLEAN]
Onsets == [f : Fixtures, family : Correlated, start : Nat, resolved : Nat]
Provider ==
    [last : Nat, recent : SUBSET Onsets, policy : {"trusted", "positive_only"},
     generation : Nat, probes : Seq(ProviderProbes)]
Sightings == [at : Nat, complete : BOOLEAN, affected : BOOLEAN]
PollRecords ==
    [at : Nat, pc : {"collect", "write", "over"}, final : {"none", "taken", "ignored"},
     obs : [Fixtures -> Observations] \cup {<<>>}, interrupted : SUBSET Fixtures]

HealthTypeOK ==
    /\ health \in [Fixtures -> HealthRows]
    /\ provider \in Provider
    /\ polls \in Seq(PollRecords)
    /\ \A id \in DOMAIN polls : polls[id].pc # "over" => polls[id].obs \in [Fixtures -> Observations]
    /\ stored \in [Fixtures -> [facts : Facts, polled : Nat]]
    /\ now \in Nat /\ mishaps \in Nat
    /\ frozen \in [Fixtures -> FrozenRuns]
    /\ recent \in Seq(Sightings)

(* Every committed poll reached every fixture, and no poll reaches it twice. *)
PollsAreSeenOnce ==
    \A f \in Fixtures :
        /\ health[f].last = provider.last /\ frozen[f].last = provider.last
        /\ health[f].poll <= Len(polls)
        /\ health[f].poll \in DOMAIN polls => polls[health[f].poll].at <= provider.last

(* A stalled clock restricts until its incident is resolved.              *)
StallsRestrict(h) == \A i \in h.incidents : i.cause = "clock_stalled" => i.policy = "positive_only"

(* A high-water clock has a time.                                         *)
IsDated(h) == h.clock.status # "" => h.progress # Never

(* What the cursors know of the current run of identical observations: the *)
(* high-water clock has not moved since it began, and neither continuity  *)
(* nor progress was restarted in it while the phase is the clock's own.   *)
CursorSound(h, z) ==
    /\ h.usable <= h.last /\ h.since <= h.last /\ h.progress <= h.last
    /\ IsDated(h)
    /\ z.facts # Down =>
          /\ h.usable = h.last /\ h.since # Never /\ h.observed = z.facts.status
          /\ Never < z.since /\ z.since <= z.last
          /\ (z.facts.status \in Running /\ z.facts.elapsed # Nil) =>
                /\ ~ Advanced(h.clock, z.facts)
                /\ h.clock.status = z.facts.status => h.since <= z.since /\ h.progress <= z.since

(* FrozenIsRestricted of one fixture.                                     *)
Restricted(h, z) ==
    (/\ z.facts # Down /\ z.last - z.since >= InteriorStale
     /\ z.facts.status \in Running /\ z.facts.elapsed # Nil /\ ~ PeriodBoundary(z.facts)
     /\ h.clock.status = z.facts.status)
    => FixtureHealthPolicy(h) # "trusted"

FixturesAreSound ==
    \A f \in Fixtures :
        StallsRestrict(health[f]) /\ CursorSound(health[f], frozen[f]) /\ Restricted(health[f], frozen[f])

(* The probes of a restricted provider are the last committed polls.      *)
Matching(probe, sighting) ==
    /\ probe.at = sighting.at /\ (probe.complete => sighting.complete)
    /\ sighting.affected => probe.affected
Follow(probes, sightings) ==
    /\ Len(probes) <= Len(sightings)
    /\ \A k \in 1..Len(probes) : Matching(probes[k], sightings[Len(sightings) - Len(probes) + k])
ProbesAreRecent ==
    /\ Len(provider.probes) <= 3 /\ Len(recent) <= 3
    /\ provider.policy # "positive_only" => provider.probes = <<>>
    /\ Follow(provider.probes, recent)

HealthInv == HealthTypeOK /\ PollsAreSeenOnce /\ FixturesAreSound /\ ProbesAreRecent

-----------------------------------------------------------------------------
(* The last n of a sequence. *)

\* Newest keeps the order: its k-th element is the one as far from the end.
LEMMA NewestOf ==
    ASSUME NEW S, NEW s \in Seq(S), NEW n \in Nat \ {0}
    PROVE  /\ Newest(n, s) \in Seq(S)
           /\ Len(Newest(n, s)) = IF Len(s) > n THEN n ELSE Len(s)
           /\ \A k \in 1..Len(Newest(n, s)) : Newest(n, s)[k] = s[Len(s) - Len(Newest(n, s)) + k]
<1> DEFINE a == IF Len(s) > n THEN Len(s) - n + 1 ELSE 1
<1>1. Len(s) \in Nat /\ a \in 1..(Len(s) + 1)
  BY LenProperties
<1>2. \A k \in a..Len(s) : s[k] \in S
  BY <1>1, ElementOfSeq
<1>3. /\ SubSeq(s, a, Len(s)) \in Seq(S)
      /\ Len(SubSeq(s, a, Len(s))) = IF a <= Len(s) THEN Len(s) - a + 1 ELSE 0
      /\ \A k \in 1..(Len(s) - a + 1) : SubSeq(s, a, Len(s))[k] = s[a + k - 1]
  <2> HIDE DEF a
  <2>1. a \in Int /\ Len(s) \in Int
    BY <1>1
  <2> QED
    BY ONLY <1>2, <2>1, SubSeqProperties
<1>4. Newest(n, s) = SubSeq(s, a, Len(s))
  BY DEF Newest
<1> DEFINE m == IF Len(s) > n THEN n ELSE Len(s)
<1>5. m \in Nat /\ Len(s) - a + 1 = m /\ (a <= Len(s) \/ m = 0)
  BY <1>1
<1>6. \A k \in 1..m : a + k - 1 = Len(s) - m + k
  BY <1>1
<1> HIDE DEF a, m
<1>7. Newest(n, s) \in Seq(S) /\ Len(Newest(n, s)) = m
  BY <1>1, <1>3, <1>4, <1>5
<1>8. \A k \in 1..m : Newest(n, s)[k] = s[Len(s) - m + k]
  BY <1>3, <1>4, <1>5, <1>6
<1>9. m = IF Len(s) > n THEN n ELSE Len(s)
  BY DEF m
<1> QED
  BY <1>7, <1>8, <1>9

-----------------------------------------------------------------------------
(* One observation of one fixture. *)

\* An observation that was made is what the provider said.
LEMMA FactsAreNotDown == Down \notin Facts /\ NoFacts \in Facts
<1>1. Down.status = "down" /\ "down" \notin Statuses
  BY DEF Down, NoFacts, Statuses, Ranked, Terminal
<1>2. \A x \in Facts : x.status \in Statuses
  BY DEF Facts
<1>3. NoFacts \in Facts
  BY DEF NoFacts, Facts, Statuses, Nil
<1> QED
  BY <1>1, <1>2, <1>3

\* The clock never moves past itself.
LEMMA NoSelfProgress ==
    ASSUME NEW x \in Facts
    PROVE  ~ ForwardPhase(x.status, x.status) /\ ~ (FixtureClock(x) > FixtureClock(x))
<1>1. PhaseRank(x.status) \in Nat
  BY DEF PhaseRank
<1>2. FixtureClock(x) \in Int
  BY DEF FixtureClock, Facts, Nil
<1> QED
  BY <1>1, <1>2 DEF ForwardPhase, LaterPhase

\* The high-water clock is a reading of the provider.
LEMMA ClockIsTyped ==
    ASSUME NEW x \in Facts
    PROVE  LET c == [NoFacts EXCEPT !.status = x.status, !.elapsed = x.elapsed, !.extra = x.extra]
           IN c \in Facts /\ c.status = x.status /\ c.elapsed = x.elapsed /\ c.extra = x.extra
BY DEF Facts, NoFacts

\* advanceClock field by field (collector_fixture.go:124).
LEMMA CursorsAre ==
    ASSUME NEW h \in HealthRows, NEW at \in Nat, NEW o \in Facts, NEW interrupted \in BOOLEAN,
           NEW new, new = Cursors(h, at, o, interrupted)
    PROVE  /\ new \in HealthRows
           /\ new.poll = h.poll /\ new.last = h.last /\ new.usable = h.usable
           /\ new.incidents = h.incidents /\ new.observed = o.status
           /\ Advanced(h.clock, o) =>
                 /\ new.clock.status = o.status /\ new.clock.elapsed = o.elapsed
                 /\ new.clock.extra = o.extra /\ new.progress = at
           /\ ~ Advanced(h.clock, o) => new.clock = h.clock /\ new.progress = h.progress
           /\ new.since \in {at, h.since}
           /\ (\/ h.observed # o.status \/ h.usable = Never \/ h.since = Never \/ at - h.usable > GapLimit
               \/ interrupted \/ (Advanced(h.clock, o) /\ h.clock.status # o.status)
               \/ o.status # new.clock.status \/ o.elapsed = Nil) => new.since = at
           /\ ~ (\/ h.observed # o.status \/ h.usable = Never \/ h.since = Never \/ at - h.usable > GapLimit
                 \/ interrupted \/ (Advanced(h.clock, o) /\ h.clock.status # o.status)
                 \/ o.status # new.clock.status \/ o.elapsed = Nil) => new.since = h.since
<1> DEFINE told == [NoFacts EXCEPT !.status = o.status, !.elapsed = o.elapsed, !.extra = o.extra]
           clock == IF Advanced(h.clock, o) THEN told ELSE h.clock
           lost == h.usable = Never \/ h.since = Never \/ at - h.usable > GapLimit \/ interrupted
           restart == h.observed # o.status \/ lost \/ (Advanced(h.clock, o) /\ h.clock.status # o.status)
                      \/ o.status # clock.status \/ o.elapsed = Nil
           progress == IF Advanced(h.clock, o) THEN at ELSE h.progress
           since == IF restart THEN at ELSE h.since
<1>1. o # Down
  BY FactsAreNotDown
<1>2. new = [h EXCEPT !.observed = o.status, !.clock = clock, !.progress = progress, !.since = since]
  BY <1>1, Zenon DEF Cursors, AdvanceClock
<1>3. h.clock \in Facts /\ o.status \in Statuses /\ h.progress \in Nat /\ h.since \in Nat
  BY DEF HealthRows, Facts
<1>4. told \in Facts /\ told.status = o.status /\ told.elapsed = o.elapsed /\ told.extra = o.extra
  BY ClockIsTyped, Zenon
<1> HIDE DEF told
<1>5. clock \in Facts /\ progress \in Nat /\ since \in Nat /\ since \in {at, h.since}
  BY <1>3, <1>4
<1>6. /\ restart => since = at
      /\ ~ restart => since = h.since
  BY <1>5
<1>7. /\ Advanced(h.clock, o) => clock = told /\ progress = at
      /\ ~ Advanced(h.clock, o) => clock = h.clock /\ progress = h.progress
  BY <1>3
<1> HIDE DEF clock, progress, since
<1>8. /\ new \in HealthRows
      /\ new.poll = h.poll /\ new.last = h.last /\ new.usable = h.usable
      /\ new.incidents = h.incidents /\ new.observed = o.status
      /\ new.clock = clock /\ new.progress = progress /\ new.since = since
  BY <1>2, <1>3, <1>5 DEF HealthRows
<1>9. restart <=>
        \/ h.observed # o.status \/ h.usable = Never \/ h.since = Never \/ at - h.usable > GapLimit
        \/ interrupted \/ (Advanced(h.clock, o) /\ h.clock.status # o.status)
        \/ o.status # new.clock.status \/ o.elapsed = Nil
  BY <1>8, Zenon
<1> HIDE DEF restart
<1> QED
  BY <1>4, <1>5, <1>6, <1>7, <1>8, <1>9

\* A retained incident is the same incident with one more probe.
LEMMA ProbedIs ==
    ASSUME NEW i \in Incidents, NEW at \in Nat \ {0}, NEW o \in Observations, NEW interrupted \in BOOLEAN,
           NEW p, p = Probed(i, at, o, interrupted)
    PROVE  /\ p \in Incidents
           /\ p.cause = i.cause /\ p.start = i.start /\ p.policy = i.policy /\ p.base = i.base
<1>1. CASE i.cause \notin ClockCauses
  BY <1>1 DEF Probed
<1>2. CASE i.cause \in ClockCauses
  <2> DEFINE said == IF o = Down THEN NoFacts ELSE o
             probe == [at |-> at, usable |-> o # Down /\ ~ interrupted, status |-> said.status,
                       elapsed |-> said.elapsed, extra |-> said.extra]
             kept == Newest(MaxProbes, Append(i.probes, probe))
  <2>1. said \in Facts
    BY FactsAreNotDown DEF Observations
  <2>2. said.status \in Statuses /\ said.elapsed \in Nat \cup {Nil} /\ said.extra \in Nat
    BY <2>1 DEF Facts
  <2> HIDE DEF said
  <2>3. (o # Down /\ ~ interrupted) \in BOOLEAN
    OBVIOUS
  <2>4. probe \in Probes
    BY <2>2, <2>3, Zenon DEF Probes
  <2>5. p = [i EXCEPT !.probes = kept]
    BY <1>2, Zenon DEF Probed, said
  <2> HIDE DEF probe
  <2>6. i.probes \in Seq(Probes)
    BY DEF Incidents
  <2>7. Append(i.probes, probe) \in Seq(Probes)
    BY <2>4, <2>6
  <2>8. kept \in Seq(Probes)
    BY <2>7, NewestOf, HealthConstants
  <2> HIDE DEF kept
  <2> QED
    BY <2>5, <2>8 DEF Incidents
<1> QED
  BY <1>1, <1>2

\* What an observation opens.
LEMMA CalledAre ==
    ASSUME NEW clock \in Facts, NEW at \in Nat, NEW o \in Observations, NEW fresh, NEW base \in Facts,
           NEW i \in Called(clock, at, o, fresh, base)
    PROVE  /\ i \in Incidents /\ i.start = at
           /\ i.cause = "clock_stalled" => i.policy = "positive_only"
<1>1. \A c \in Causes, q \in Policies, b \in Facts :
        /\ Incident(c, at, q, b) \in Incidents
        /\ Incident(c, at, q, b).start = at /\ Incident(c, at, q, b).cause = c
        /\ Incident(c, at, q, b).policy = q
  BY DEF Incident, Incidents
<1>2. {"unavailable", "clock_stalled", "boundary_warning"} \subseteq Causes
      /\ {"rejected", "positive_only", "trusted"} \subseteq Policies
  BY DEF Causes, ClockCauses, Policies
<1>3. \A r \in AssessFixture(base, o) : r \in Causes /\ r # "clock_stalled"
  BY DEF AssessFixture, Reasons, Causes
<1>4. CASE o = Down
  BY <1>1, <1>2, <1>4, FactsAreNotDown DEF Called
<1>5. CASE o # Down
  <2>1. \/ i = Incident("clock_stalled", at, "positive_only", clock)
        \/ i = Incident("boundary_warning", at, "trusted", clock)
        \/ \E r \in AssessFixture(base, o), q \in {"rejected", "positive_only"} : i = Incident(r, at, q, base)
    BY <1>5 DEF Called
  <2> QED
    BY <1>1, <1>2, <1>3, <2>1
<1> QED
  BY <1>4, <1>5

ProbedOf(h, at, o, interrupted) == {Probed(i, at, o, interrupted) : i \in h.incidents}
RetainedOf(h, at, o, interrupted) == {i \in ProbedOf(h, at, o, interrupted) : ~ Resolved(i, o)}
OpenedOf(h, at, o, interrupted, base) ==
    {i \in Called(Cursors(h, at, o, interrupted).clock, at, o, FreshnessAfter(h, at, o, interrupted), base) :
       \A k \in RetainedOf(h, at, o, interrupted) : k.cause # i.cause}

\* A late or repeated poll leaves the row alone (collector_fixture.go:13).
LEMMA SkippedRowIs ==
    ASSUME NEW h, NEW id, NEW at, NEW o, NEW interrupted, NEW base, at <= h.last \/ id = h.poll
    PROVE  ObserveFixture(h, id, at, o, interrupted, base).row = h
BY DEF ObserveFixture

\* The row after a new poll (collector_fixture.go:13).
LEMMA RowIs ==
    ASSUME NEW h \in HealthRows, NEW id \in Nat, NEW at \in Nat, NEW o \in Observations,
           NEW interrupted \in BOOLEAN, NEW base \in Facts,
           at > h.last, id # h.poll,
           NEW s, s = ObserveFixture(h, id, at, o, interrupted, base)
    PROVE  /\ s.row \in HealthRows
           /\ s.row.poll = id /\ s.row.last = at
           /\ o # Down => s.row.usable = at
           /\ o = Down => s.row.usable = h.usable /\ s.row.since = Never /\ s.row.clock = h.clock
                          /\ s.row.progress = h.progress
           /\ o # Down => LET new == Cursors(h, at, o, interrupted)
                          IN s.row.since = new.since /\ s.row.progress = new.progress
                             /\ s.row.clock = new.clock /\ s.row.observed = new.observed
           /\ s.row.incidents = RetainedOf(h, at, o, interrupted) \cup OpenedOf(h, at, o, interrupted, base)
           /\ s.opened = {i.cause : i \in OpenedOf(h, at, o, interrupted, base)}
           /\ \A i \in RetainedOf(h, at, o, interrupted) :
                 \E j \in h.incidents : /\ i = Probed(j, at, o, interrupted) /\ ~ Resolved(i, o)
                                        /\ i \in Incidents /\ i.cause = j.cause /\ i.start = j.start
                                        /\ i.policy = j.policy /\ i.base = j.base
           /\ \A i \in OpenedOf(h, at, o, interrupted, base) :
                 i \in Incidents /\ i.start = at /\ (i.cause = "clock_stalled" => i.policy = "positive_only")
<1> DEFINE new == Cursors(h, at, o, interrupted)
           usable == IF o = Down THEN new.usable ELSE at
           held == RetainedOf(h, at, o, interrupted) \cup OpenedOf(h, at, o, interrupted, base)
<1>1. /\ new \in HealthRows /\ new.incidents = h.incidents /\ new.usable = h.usable
      /\ o = Down => new.since = Never /\ new.clock = h.clock /\ new.progress = h.progress
  <2>1. CASE o = Down
    <3>1. new = [h EXCEPT !.since = Never]
      BY <2>1 DEF Cursors
    <3> HIDE DEF new
    <3> QED
      BY <3>1 DEF HealthRows, Never
  <2>2. CASE o # Down
    <3>1. o \in Facts
      BY <2>2 DEF Observations
    <3> QED
      BY <2>2, <3>1, CursorsAre
  <2> QED
    BY <2>1, <2>2
<1>2. at \in Nat \ {0}
  BY DEF HealthRows
<1>3. \A i \in RetainedOf(h, at, o, interrupted) :
        \E j \in h.incidents : /\ i = Probed(j, at, o, interrupted) /\ ~ Resolved(i, o)
                               /\ i \in Incidents /\ i.cause = j.cause /\ i.start = j.start
                               /\ i.policy = j.policy /\ i.base = j.base
  <2> SUFFICES ASSUME NEW i \in RetainedOf(h, at, o, interrupted)
               PROVE  \E j \in h.incidents : /\ i = Probed(j, at, o, interrupted) /\ ~ Resolved(i, o)
                               /\ i \in Incidents /\ i.cause = j.cause /\ i.start = j.start
                               /\ i.policy = j.policy /\ i.base = j.base
    OBVIOUS
  <2>1. PICK j \in h.incidents : i = Probed(j, at, o, interrupted) /\ ~ Resolved(i, o)
    BY Zenon DEF RetainedOf, ProbedOf
  <2>2. j \in Incidents
    BY DEF HealthRows
  <2> QED
    BY <1>2, <2>1, <2>2, ProbedIs
<1>4. \A i \in OpenedOf(h, at, o, interrupted, base) :
        i \in Incidents /\ i.start = at /\ (i.cause = "clock_stalled" => i.policy = "positive_only")
  <2>1. new.clock \in Facts
    BY <1>1 DEF HealthRows
  <2> SUFFICES ASSUME NEW i \in OpenedOf(h, at, o, interrupted, base)
               PROVE  i \in Incidents /\ i.start = at /\ (i.cause = "clock_stalled" => i.policy = "positive_only")
    OBVIOUS
  <2>2. i \in Called(new.clock, at, o, FreshnessAfter(h, at, o, interrupted), base)
    BY DEF OpenedOf
  <2> HIDE DEF new
  <2> QED
    BY <2>1, <2>2, CalledAre
<1>5. held \in SUBSET Incidents /\ usable \in Nat
  BY <1>1, <1>3, <1>4 DEF HealthRows
<1>6. /\ s.row = [new EXCEPT !.poll = id, !.last = at, !.usable = usable, !.incidents = held]
      /\ s.opened = {i.cause : i \in OpenedOf(h, at, o, interrupted, base)}
  <2>1. ~ (at <= h.last \/ id = h.poll)
    BY DEF HealthRows
  <2>2. ProbedOf(h, at, o, interrupted) = {Probed(i, at, o, interrupted) : i \in h.incidents}
    BY DEF ProbedOf
  <2> QED
    BY <2>1, Zenon DEF ObserveFixture, ProbedOf, RetainedOf, OpenedOf
<1>7. (o # Down => usable = at) /\ (o = Down => usable = h.usable)
  BY <1>1
<1> HIDE DEF new, usable
<1> DEFINE row == s.row
<1>8. row \in HealthRows /\ row.poll = id /\ row.last = at /\ row.usable = usable /\ row.incidents = held
      /\ row.since = new.since /\ row.progress = new.progress /\ row.clock = new.clock
      /\ row.observed = new.observed
  <2> HIDE DEF held
  <2>1. s.row = [new EXCEPT !.poll = id, !.last = at, !.usable = usable, !.incidents = held]
        /\ new \in HealthRows /\ held \in SUBSET Incidents /\ usable \in Nat
    BY <1>1, <1>5, <1>6
  <2>2. new = [poll |-> new.poll, last |-> new.last, usable |-> new.usable, since |-> new.since,
               progress |-> new.progress, observed |-> new.observed, clock |-> new.clock,
               incidents |-> new.incidents]
        /\ new.since \in Nat /\ new.progress \in Nat /\ new.observed \in Statuses /\ new.clock \in Facts
    BY <2>1 DEF HealthRows
  <2>3. s.row = [poll |-> id, last |-> at, usable |-> usable, since |-> new.since,
                 progress |-> new.progress, observed |-> new.observed, clock |-> new.clock,
                 incidents |-> held]
    BY <2>1, <2>2
  <2> QED
    BY <2>1, <2>2, <2>3 DEF HealthRows
<1> QED
  BY <1>1, <1>3, <1>4, <1>6, <1>7, <1>8 DEF new

\* The history of one more observation.
LEMMA FrozenAfterIs ==
    ASSUME NEW z \in FrozenRuns, NEW o \in Observations, NEW at \in Nat, NEW interrupted \in BOOLEAN,
           NEW y, y = FrozenAfter(z, o, at, interrupted)
    PROVE  /\ y \in FrozenRuns /\ y.facts = o /\ y.last = at
           /\ \/ y.since = at
              \/ /\ y.since = z.since /\ o = z.facts /\ o # Down
                 /\ ~ interrupted /\ at - z.last <= GapLimit
<1> DEFINE same == o = z.facts /\ o # Down /\ ~ interrupted /\ at - z.last <= GapLimit
           since == IF same THEN z.since ELSE at
<1>1. y = [facts |-> o, since |-> since, last |-> at]
  BY DEF FrozenAfter
<1>2. since \in Nat /\ (since = at \/ (same /\ since = z.since))
  BY DEF FrozenRuns
<1> HIDE DEF since
<1> QED
  BY <1>1, <1>2 DEF FrozenRuns

\* The high-water clock is not behind what it was last moved by.
LEMMA AdvancedOnce ==
    ASSUME NEW o \in Facts, NEW c \in Facts,
           o.status \in Running, o.elapsed # Nil,
           c.status = o.status, c.elapsed = o.elapsed, c.extra = o.extra
    PROVE  ~ Advanced(c, o)
<1>1. ~ ForwardPhase(o.status, o.status) /\ ~ (FixtureClock(o) > FixtureClock(o))
  BY NoSelfProgress
<1>2. FixtureClock(c) = FixtureClock(o)
  BY DEF FixtureClock
<1>3. o.status \in Ranked /\ o.status # ""
  BY DEF Running, Ranked
<1> QED
  BY <1>1, <1>2, <1>3 DEF Advanced, ClockProgressed

\* The cursors keep what they know through a poll that is not late.
LEMMA CursorsFollow ==
    ASSUME NEW h \in HealthRows, NEW z \in FrozenRuns, NEW id \in Nat, NEW at \in Nat,
           NEW o \in Observations, NEW interrupted \in BOOLEAN, NEW base \in Facts,
           at > h.last, id # h.poll, z.last = h.last, CursorSound(h, z),
           NEW s, s = ObserveFixture(h, id, at, o, interrupted, base),
           NEW y, y = FrozenAfter(z, o, at, interrupted)
    PROVE  CursorSound(s.row, y)
<1> DEFINE row == s.row
           new == Cursors(h, at, o, interrupted)
<1>1. y \in FrozenRuns /\ y.facts = o /\ y.last = at
      /\ \/ y.since = at
         \/ y.since = z.since /\ o = z.facts /\ o # Down /\ ~ interrupted /\ at - z.last <= GapLimit
  BY FrozenAfterIs
<1>2. /\ row \in HealthRows /\ row.last = at
      /\ o # Down => row.usable = at
      /\ o = Down => row.usable = h.usable /\ row.since = Never /\ row.clock = h.clock /\ row.progress = h.progress
      /\ o # Down => row.since = new.since /\ row.progress = new.progress
                     /\ row.clock = new.clock /\ row.observed = new.observed
  BY RowIs
<1>3. h.last \in Nat /\ h.usable \in Nat /\ h.since \in Nat /\ h.progress \in Nat /\ h.clock \in Facts
  BY DEF HealthRows
<1>h. h.usable <= h.last /\ h.since <= h.last /\ h.progress <= h.last
  BY DEF CursorSound
<1>c. IsDated(h)
  BY DEF CursorSound
<1> SUFFICES CursorSound(row, y)
  OBVIOUS
<1> HIDE DEF row, new
<1>4. CASE o = Down
  <2>1. y.facts = Down
    BY <1>1, <1>4
  <2>4. row.usable = h.usable /\ row.since = Never /\ row.progress = h.progress /\ row.last = at
    BY <1>2, <1>4
  <2>2. row.usable <= at /\ row.since <= at /\ row.progress <= at /\ row.last = at
    BY <1>3, <1>h, <2>4 DEF Never
  <2>3. IsDated(row)
    BY <1>2, <1>4, <1>c DEF IsDated
  <2> QED
    BY <2>1, <2>2, <2>3 DEF CursorSound
<1>5. CASE o # Down
  <2>1. o \in Facts
    BY <1>5 DEF Observations
  <2>2. /\ new.observed = o.status
        /\ Advanced(h.clock, o) =>
              /\ new.clock.status = o.status /\ new.clock.elapsed = o.elapsed
              /\ new.clock.extra = o.extra /\ new.progress = at
        /\ ~ Advanced(h.clock, o) => new.clock = h.clock /\ new.progress = h.progress
        /\ new.since \in {at, h.since}
        /\ (h.since = Never \/ (Advanced(h.clock, o) /\ h.clock.status # o.status)) => new.since = at
        /\ ~ (\/ h.observed # o.status \/ h.usable = Never \/ h.since = Never \/ at - h.usable > GapLimit
              \/ interrupted \/ (Advanced(h.clock, o) /\ h.clock.status # o.status)
              \/ o.status # new.clock.status \/ o.elapsed = Nil) => new.since = h.since
    BY <2>1, CursorsAre DEF new
  <2>3. row.since # Never /\ row.since <= at /\ row.progress <= at /\ row.usable = at
        /\ row.observed = o.status
    BY <1>2, <1>3, <1>5, <1>h, <2>2 DEF Never
  <2>4. IsDated(row)
    <3>1. at # Never
      BY <1>3 DEF Never
    <3>2. CASE Advanced(h.clock, o)
      BY <1>2, <1>5, <2>2, <3>1, <3>2 DEF IsDated
    <3>3. CASE ~ Advanced(h.clock, o)
      BY <1>2, <1>5, <1>c, <2>2, <3>3 DEF IsDated
    <3> QED
      BY <3>2, <3>3
  <2>5. Never < y.since /\ y.since <= at
    <3>1. CASE y.since = at
      BY <1>3, <3>1 DEF Never
    <3>2. CASE y.since = z.since /\ o = z.facts
      <4>1. Never < z.since /\ z.since <= z.last
        BY <1>5, <3>2 DEF CursorSound
      <4> QED
        BY <1>3, <3>2, <4>1 DEF FrozenRuns
    <3> QED
      BY <1>1, <3>1, <3>2
  <2>6. ASSUME o.status \in Running, o.elapsed # Nil
        PROVE  ~ Advanced(row.clock, o)
               /\ (row.clock.status = o.status => row.since <= y.since /\ row.progress <= y.since)
    <3>1. ~ Advanced(row.clock, o)
      <4>1. CASE Advanced(h.clock, o)
        <5>1. row.clock \in Facts /\ row.clock.status = o.status /\ row.clock.elapsed = o.elapsed
              /\ row.clock.extra = o.extra
          BY <1>2, <1>5, <2>2, <4>1 DEF HealthRows
        <5> QED
          BY <2>1, <2>6, <5>1, AdvancedOnce
      <4>2. CASE ~ Advanced(h.clock, o)
        BY <1>2, <1>5, <2>2, <4>2
      <4> QED
        BY <4>1, <4>2
    <3>2. CASE y.since = at
      BY <2>3, <3>1, <3>2
    <3>3. CASE y.since = z.since /\ o = z.facts /\ ~ interrupted /\ at - z.last <= GapLimit
      <4>1. /\ h.usable = h.last /\ h.since # Never /\ h.observed = o.status
            /\ Never < z.since /\ z.since <= z.last
            /\ ~ Advanced(h.clock, o)
            /\ h.clock.status = o.status => h.since <= z.since /\ h.progress <= z.since
        BY <1>5, <2>6, <3>3 DEF CursorSound
      <4>2. row.clock = h.clock /\ row.progress = h.progress /\ h.usable # Never
        BY <1>2, <1>3, <1>5, <2>2, <4>1 DEF FrozenRuns, Never
      <4>3. row.clock.status = o.status => row.since = h.since
        <5>1. ~ (at - h.usable > GapLimit)
          BY <1>3, <3>3, <4>1, HealthConstants
        <5> QED
          BY <1>2, <1>5, <2>2, <2>6, <3>3, <4>1, <4>2, <5>1
      <4> QED
        BY <3>1, <3>3, <4>1, <4>2, <4>3
    <3> QED
      BY <1>1, <3>2, <3>3
  <2> QED
    BY <1>1, <1>2, <1>5, <2>3, <2>4, <2>5, <2>6 DEF CursorSound
<1> QED
  BY <1>4, <1>5

\* A clock that stood for the interior threshold is stalled (health.go:58).
LEMMA FrozenIsStalled ==
    ASSUME NEW o \in Facts, NEW at \in Nat, NEW previous \in Nat, NEW since \in Nat, NEW progress \in Nat,
           NEW from \in Nat,
           o.status \in Running, o.elapsed # Nil, ~ PeriodBoundary(o),
           since # Never, progress # Never, since <= from, progress <= from, from <= previous,
           at - previous <= GapLimit, at - from >= InteriorStale
    PROVE  Freshness(o, at, previous, since, progress) = "stalled"
<1>1. GapLimit \in Nat /\ InteriorStale \in Nat
  BY HealthConstants
<1>2. previous # Never /\ ~ (at - previous > GapLimit) /\ ~ (since > previous)
  BY <1>1 DEF Never
<1>3. Larger(since, progress) \in Nat /\ Larger(since, progress) <= from
  BY DEF Larger
<1>4. StaleAfter(o) = InteriorStale
  BY DEF StaleAfter
<1>5. ~ (at - Larger(since, progress) < StaleAfter(o))
  BY <1>1, <1>3, <1>4
<1> QED
  BY <1>2, <1>5 DEF Freshness

\* One restricting incident restricts.
LEMMA IncidentRestricts ==
    ASSUME NEW h, NEW i \in h.incidents, i.policy = "positive_only"
    PROVE  FixtureHealthPolicy(h) # "trusted"
BY DEF FixtureHealthPolicy, RestrictPolicies

\* A run of identical observations as long as the threshold ends in a stall.
LEMMA FrozenRestricts ==
    ASSUME NEW h \in HealthRows, NEW z \in FrozenRuns, NEW id \in Nat, NEW at \in Nat,
           NEW o \in Observations, NEW interrupted \in BOOLEAN, NEW base \in Facts,
           at > h.last, id # h.poll, z.last = h.last, CursorSound(h, z), StallsRestrict(h),
           NEW s, s = ObserveFixture(h, id, at, o, interrupted, base),
           NEW y, y = FrozenAfter(z, o, at, interrupted)
    PROVE  StallsRestrict(s.row) /\ Restricted(s.row, y)
<1> DEFINE row == s.row
           new == Cursors(h, at, o, interrupted)
           retained == RetainedOf(h, at, o, interrupted)
           opened == OpenedOf(h, at, o, interrupted, base)
<1>1. y \in FrozenRuns /\ y.facts = o /\ y.last = at
      /\ \/ y.since = at
         \/ y.since = z.since /\ o = z.facts /\ o # Down /\ ~ interrupted /\ at - z.last <= GapLimit
  BY FrozenAfterIs
<1>2. /\ row.incidents = retained \cup opened
      /\ o # Down => row.clock = new.clock
      /\ \A i \in retained : \E j \in h.incidents : i.cause = j.cause /\ i.policy = j.policy
      /\ \A i \in opened : i.cause = "clock_stalled" => i.policy = "positive_only"
  BY RowIs
<1>3. \A i \in row.incidents : i.cause = "clock_stalled" => i.policy = "positive_only"
  BY <1>2 DEF StallsRestrict
<1> SUFFICES ASSUME y.facts # Down, y.last - y.since >= InteriorStale,
                    y.facts.status \in Running, y.facts.elapsed # Nil, ~ PeriodBoundary(y.facts),
                    row.clock.status = y.facts.status
             PROVE  FixtureHealthPolicy(row) # "trusted"
  BY <1>3 DEF StallsRestrict, Restricted
<1>4. o # Down /\ o \in Facts /\ o.status \in Running /\ o.elapsed # Nil /\ ~ PeriodBoundary(o)
  BY <1>1 DEF Observations
<1>5. y.since = z.since /\ o = z.facts /\ ~ interrupted /\ at - z.last <= GapLimit /\ at - z.since >= InteriorStale
  <2>1. InteriorStale \in Nat \ {0} /\ y.last = at
    BY <1>1, HealthConstants
  <2>2. y.since # at
    BY <2>1
  <2> QED
    BY <1>1, <2>1, <2>2
<1>6. /\ h.usable = h.last /\ h.since # Never /\ h.observed = o.status
      /\ Never < z.since /\ z.since <= z.last
      /\ ~ Advanced(h.clock, o)
      /\ h.clock.status = o.status => h.since <= z.since /\ h.progress <= z.since
  BY <1>4, <1>5 DEF CursorSound
<1>7. /\ new.clock = h.clock /\ new.progress = h.progress
      /\ ~ (\/ h.observed # o.status \/ h.usable = Never \/ h.since = Never \/ at - h.usable > GapLimit
            \/ interrupted \/ (Advanced(h.clock, o) /\ h.clock.status # o.status)
            \/ o.status # new.clock.status \/ o.elapsed = Nil) => new.since = h.since
  BY <1>4, <1>6, CursorsAre
<1>8. h.clock.status = o.status
  BY <1>1, <1>2, <1>4, <1>7
<1>9. h.last \in Nat /\ h.usable \in Nat /\ h.since \in Nat /\ h.progress \in Nat /\ z.since \in Nat
  BY DEF HealthRows, FrozenRuns
<1>10. new.since = h.since
  <2>1. h.usable # Never /\ ~ (at - h.usable > GapLimit)
    BY <1>5, <1>6, <1>9, HealthConstants DEF Never
  <2> HIDE DEF new
  <2> QED
    BY <1>4, <1>5, <1>6, <1>7, <1>8, <2>1
<1>11. h.progress # Never
  <2>1. IsDated(h) /\ o.status # ""
    BY <1>4 DEF CursorSound, Running
  <2> QED
    BY <1>8, <2>1 DEF IsDated
<1>12. FreshnessAfter(h, at, o, interrupted) = "stalled"
  <2>1. Freshness(o, at, h.usable, h.since, h.progress) = "stalled"
    <3>1. h.since <= z.since /\ h.progress <= z.since /\ z.since <= h.usable /\ h.since # Never
      BY <1>6, <1>8
    <3>2. at - h.usable <= GapLimit /\ at - z.since >= InteriorStale
      BY <1>5, <1>6
    <3> HIDE DEF new
    <3> QED
      BY ONLY <1>4, <1>9, <1>11, <3>1, <3>2, FrozenIsStalled, at \in Nat
  <2> QED
    BY <1>4, <1>7, <1>10, <2>1 DEF FreshnessAfter
<1> DEFINE stall == Incident("clock_stalled", at, "positive_only", new.clock)
<1>13. stall \in Called(new.clock, at, o, FreshnessAfter(h, at, o, interrupted), base)
  BY <1>4, <1>12 DEF Called
<1>14. stall.cause = "clock_stalled"
  BY DEF Incident
<1>15. \E i \in row.incidents : i.cause = "clock_stalled"
  <2>1. CASE stall \in opened
    BY <1>2, <1>14, <2>1
  <2>2. CASE stall \notin opened
    <3>1. ~ \A k \in retained : k.cause # stall.cause
      BY <1>13, <2>2 DEF OpenedOf
    <3> QED
      BY <1>2, <1>14, <3>1
  <2> QED
    BY <2>1, <2>2
<1> QED
  BY <1>3, <1>15, IncidentRestricts

-----------------------------------------------------------------------------
(* One committed poll of the provider. *)

\* A fixture put into conflict by a poll is an onset of that poll
\* (collector_provider.go:37).
LEMMA ConflictIsOnset ==
    ASSUME NEW f \in Fixtures, NEW h \in HealthRows, NEW id \in Nat, NEW at \in Nat, NEW o \in Observations,
           NEW interrupted \in BOOLEAN, NEW base \in Facts, NEW seen, NEW old,
           seen[f] = ObserveFixture(h, id, at, o, interrupted, base),
           Conflicted(h, seen[f].row)
    PROVE  \E e \in Episodes(old, at, seen) :
              e.family = "integrity_conflict" /\ e.start = at /\ e.resolved = Never
<1> DEFINE row == seen[f].row
           retained == RetainedOf(h, at, o, interrupted)
           opened == OpenedOf(h, at, o, interrupted, base)
           e == [f |-> f, family |-> "integrity_conflict", start |-> at, resolved |-> Never]
<1>1. ~ (at <= h.last \/ id = h.poll)
  <2>1. row # h
    BY DEF Conflicted
  <2> QED
    BY <2>1, SkippedRowIs
<1>2. at > h.last /\ id # h.poll
  BY <1>1 DEF HealthRows
<1>3. /\ row.incidents = retained \cup opened
      /\ seen[f].opened = {i.cause : i \in opened}
      /\ \A i \in retained : \E j \in h.incidents : i.cause = j.cause
      /\ \A i \in opened : i.start = at
  BY <1>2, RowIs
<1>4. \A i \in row.incidents : CauseFamily(i.cause) = "integrity_conflict" => i \in opened
  <2> SUFFICES ASSUME NEW i \in retained, CauseFamily(i.cause) = "integrity_conflict"
               PROVE  FALSE
    BY <1>3
  <2>1. PICK j \in h.incidents : i.cause = j.cause
    BY <1>3
  <2>2. HasFamily(h, "integrity_conflict")
    BY <2>1 DEF HasFamily
  <2> QED
    BY <2>2 DEF Conflicted
<1>5. PICK i \in row.incidents : CauseFamily(i.cause) = "integrity_conflict"
  BY DEF Conflicted, HasFamily
<1>6. \E c \in seen[f].opened : CauseFamily(c) = "integrity_conflict"
  BY <1>3, <1>4, <1>5
<1>7. FirstOnset(row, "integrity_conflict", at)
  BY <1>3, <1>4 DEF FirstOnset
<1> DEFINE x == <<f, "integrity_conflict">>
           onsets == {y \in Fixtures \X Correlated :
                        /\ \E c \in seen[y[1]].opened : CauseFamily(c) = y[2]
                        /\ FirstOnset(seen[y[1]].row, y[2], at)}
           new == {[f |-> y[1], family |-> y[2], start |-> at, resolved |-> Never] : y \in onsets}
<1>8. x \in Fixtures \X Correlated /\ x[1] = f /\ x[2] = "integrity_conflict"
  BY DEF Correlated
<1> HIDE DEF x
<1>9. x \in onsets
  BY <1>6, <1>7, <1>8
<1> HIDE DEF onsets
<1>10. e \in new
  BY <1>8, <1>9
<1> HIDE DEF new, e
<1>11. e \in Episodes(old, at, seen)
  BY <1>10 DEF Episodes, new, onsets
<1>12. e.family = "integrity_conflict" /\ e.start = at /\ e.resolved = Never
  BY DEF e
<1> QED
  BY <1>11, <1>12

\* The onsets kept are those of fixtures, with their times.
LEMMA EpisodesAreTyped ==
    ASSUME NEW old \in SUBSET Onsets, NEW at \in Nat, NEW seen
    PROVE  Episodes(old, at, seen) \in SUBSET Onsets
<1> DEFINE onsets == {y \in Fixtures \X Correlated :
                        /\ \E c \in seen[y[1]].opened : CauseFamily(c) = y[2]
                        /\ FirstOnset(seen[y[1]].row, y[2], at)}
           new == {[f |-> y[1], family |-> y[2], start |-> at, resolved |-> Never] : y \in onsets}
<1>1. \A e \in old : e \in Onsets /\ [e EXCEPT !.resolved = at] \in Onsets
  BY DEF Onsets
<1>2. \A y \in onsets : [f |-> y[1], family |-> y[2], start |-> at, resolved |-> Never] \in Onsets
  BY DEF Onsets, Never
<1>3. new \subseteq Onsets
  BY <1>2, Zenon
<1> HIDE DEF new
<1> QED
  BY <1>1, <1>3 DEF Episodes, new

\* The count of clean probes, one probe after another (health_recovery.go:98).
NextRun(probes, k, before) ==
    IF k = 0 \/ ~ Clean(probes[k]) THEN 0
    ELSE IF k > 1 /\ probes[k].at - probes[k - 1].at > GapLimit THEN 1
    ELSE before + 1
IsCleanRun(g, probes) == g = [k \in 0..Len(probes) |-> NextRun(probes, k, g[k - 1])]

(* The length of a clean run, probe by probe (health_recovery.go:30).      *)
LEMMA CleanRunIs ==
    ASSUME NEW probes \in Seq(ProviderProbes), Len(probes) <= 3
    PROVE  \A k \in 0..Len(probes) : CleanRun(probes)[k] = NextRun(probes, k, CleanRun(probes)[k - 1])
<1> DEFINE one == NextRun(probes, 1, 0)
           two == NextRun(probes, 2, one)
           three == NextRun(probes, 3, two)
           g == [k \in 0..Len(probes) |-> IF k = 0 THEN 0 ELSE IF k = 1 THEN one
                                          ELSE IF k = 2 THEN two ELSE three]
<1>1. Len(probes) \in Nat /\ Len(probes) <= 3
  BY LenProperties
<1>2. ASSUME NEW k \in 0..Len(probes) PROVE g[k] = NextRun(probes, k, g[k - 1])
  <2>1. k \in {0, 1, 2, 3}
    BY <1>1
  <2>2. CASE k = 0
    BY <2>2 DEF NextRun
  <2> HIDE DEF one, two, three
  <2>3. CASE k = 1
    <3>1. g[k] = one /\ g[k - 1] = 0
      BY <1>1, <2>3
    <3> HIDE DEF g
    <3> QED
      BY <2>3, <3>1 DEF one
  <2>4. CASE k = 2
    <3>1. g[k] = two /\ g[k - 1] = one
      BY <1>1, <2>4
    <3> HIDE DEF g
    <3> QED
      BY <2>4, <3>1 DEF two
  <2>5. CASE k = 3
    <3>1. g[k] = three /\ g[k - 1] = two
      BY <1>1, <2>5
    <3> HIDE DEF g
    <3> QED
      BY <2>5, <3>1 DEF three
  <2> QED
    BY <2>1, <2>2, <2>3, <2>4, <2>5
<1>3. IsCleanRun(g, probes)
  <2>1. g = [k \in 0..Len(probes) |-> g[k]]
    BY Zenon
  <2> HIDE DEF g
  <2> QED
    BY <1>2, <2>1, Zenon DEF IsCleanRun
<1>4. CleanRun(probes) = CHOOSE h : IsCleanRun(h, probes)
  BY Zenon DEF CleanRun, IsCleanRun, NextRun
<1>5. IsCleanRun(CleanRun(probes), probes)
  BY <1>3, <1>4, Zenon
<1> QED
  BY <1>5, Zenon DEF IsCleanRun

\* Three probes that end a restriction are clean and follow one another.
LEMMA RecoveredIsClean ==
    ASSUME NEW probes \in Seq(ProviderProbes), Len(probes) <= 3, ProviderIntegrityRecovered(probes)
    PROVE  /\ Len(probes) = 3
           /\ \A k \in 1..3 : probes[k].complete /\ ~ probes[k].systemic /\ ~ probes[k].affected
           /\ \A k \in 1..2 : probes[k + 1].at - probes[k].at <= GapLimit
<1> DEFINE run == CleanRun(probes)
           n == Len(probes)
<1>1. n \in Nat /\ n <= 3
  BY LenProperties
<1>2. \A k \in 0..n : run[k] = NextRun(probes, k, run[k - 1])
  BY CleanRunIs
<1>3. run[n] >= 3
  BY DEF ProviderIntegrityRecovered
<1> HIDE DEF run
<1>4. run[0] = 0
  BY <1>1, <1>2 DEF NextRun
<1>5. \A k \in 1..n : \/ run[k] = 0 \/ run[k] = 1
                      \/ run[k] = run[k - 1] + 1 /\ Clean(probes[k])
                         /\ (k > 1 => ~ (probes[k].at - probes[k - 1].at > GapLimit))
  BY <1>1, <1>2 DEF NextRun
<1>6. n # 0
  BY <1>1, <1>3, <1>4
<1>7. run[1] \in {0, 1} /\ (run[1] = 1 => Clean(probes[1]))
  <2>1. 1 \in 0..n
    BY <1>1, <1>6
  <2>2. run[1] = NextRun(probes, 1, run[0])
    BY <1>2, <2>1
  <2> QED
    BY <1>4, <2>2 DEF NextRun
<1>8. n = 3
  <2> HIDE DEF n
  <2>1. ASSUME n = 1 PROVE FALSE
    <3>1. run[1] >= 3 /\ run[1] \in {0, 1}
      BY <1>3, <1>7, <2>1
    <3> QED
      BY <3>1
  <2>2. ASSUME n = 2 PROVE FALSE
    <3>1. run[2] = 0 \/ run[2] = 1 \/ run[2] = run[1] + 1
      BY <1>5, <2>2
    <3>2. run[2] >= 3
      BY <1>3, <2>2
    <3> QED
      BY <1>7, <3>1, <3>2
  <2> QED
    BY <1>1, <1>6, <2>1, <2>2
<1>9. /\ run[3] = run[2] + 1 /\ Clean(probes[3]) /\ ~ (probes[3].at - probes[2].at > GapLimit)
      /\ run[2] = run[1] + 1 /\ Clean(probes[2]) /\ ~ (probes[2].at - probes[1].at > GapLimit)
      /\ run[1] = 1
  <2>1. \/ run[3] = 0 \/ run[3] = 1
        \/ run[3] = run[2] + 1 /\ Clean(probes[3]) /\ ~ (probes[3].at - probes[2].at > GapLimit)
    BY <1>5, <1>8
  <2>2. \/ run[2] = 0 \/ run[2] = 1
        \/ run[2] = run[1] + 1 /\ Clean(probes[2]) /\ ~ (probes[2].at - probes[1].at > GapLimit)
    BY <1>5, <1>8
  <2>3. run[3] >= 3
    BY <1>3, <1>8
  <2> QED
    BY <1>7, <2>1, <2>2, <2>3
<1>10. \A k \in 1..3 : probes[k] \in ProviderProbes
  BY <1>8, ElementOfSeq
<1>11. probes[1].at \in Nat /\ probes[2].at \in Nat /\ probes[3].at \in Nat
  BY <1>10 DEF ProviderProbes
<1>12. \A k \in 1..3 : Clean(probes[k])
  BY <1>7, <1>9
<1>13. \A k \in 1..2 : probes[k + 1].at - probes[k].at <= GapLimit
  <2>1. GapLimit \in Nat
    BY HealthConstants
  <2>2. probes[3].at - probes[2].at <= GapLimit /\ probes[2].at - probes[1].at <= GapLimit
    BY <1>9, <1>11, <2>1
  <2> QED
    BY <2>2
<1> QED
  BY <1>8, <1>12, <1>13 DEF Clean

\* A poll and the probe it leaves: clean only if the poll was.
ProbeOf(probe, s, at, seen, complete) ==
    /\ probe.at = at /\ (probe.complete => complete)
    /\ (\E e \in Episodes(s.recent, at, seen) :
           e.family = "integrity_conflict" /\ e.start = at /\ e.resolved = Never) => probe.affected

\* A provider restricted with its last probes, or trusted and without probes.
ProbesAfter(s, r, probes) ==
    /\ \/ r.policy = "positive_only" /\ r.probes = probes
       \/ r.policy = "trusted" /\ r.probes = <<>>
    /\ (s.policy = "positive_only" /\ r.policy = "trusted") => ProviderIntegrityRecovered(probes)

ProviderStep(s, r, at, seen, complete) ==
    \E probe \in ProviderProbes, before \in {<<>>, s.probes} :
       /\ ProbeOf(probe, s, at, seen, complete)
       /\ ProbesAfter(s, r, Newest(3, Append(before, probe)))

\* The provider after a poll: its probes are of its last polls, and it is
\* trusted again only by three clean ones (collector_provider.go:8).
LEMMA ProviderIs ==
    ASSUME NEW s \in Provider, NEW id, NEW at \in Nat, NEW seen, NEW complete \in BOOLEAN,
           s.policy # "positive_only" => s.probes = <<>>,
           NEW r, r = ObserveProvider(s, id, at, seen, complete)
    PROVE  r \in Provider /\ r.last = at /\ ProviderStep(s, r, at, seen, complete)
<1> DEFINE episodes == Episodes(s.recent, at, seen)
           affected == \E e \in episodes : e.family = "integrity_conflict" /\ e.start = at /\ e.resolved = Never
           systemic == affected /\ Cardinality(ConflictFixtures(at, episodes)) >= 2
           trips == systemic /\ s.policy # "positive_only"
           policy == IF systemic THEN "positive_only" ELSE s.policy
           before == IF systemic THEN <<>> ELSE s.probes
           probe == [at |-> at, complete |-> complete, systemic |-> systemic, affected |-> affected]
           probes == Newest(3, Append(before, probe))
           generation == s.generation + IF trips THEN 1 ELSE 0
<1>1. affected \in BOOLEAN /\ systemic \in BOOLEAN
  OBVIOUS
<1>2. s.generation \in Nat /\ s.policy \in {"trusted", "positive_only"} /\ s.probes \in Seq(ProviderProbes)
      /\ s.recent \in SUBSET Onsets
  BY DEF Provider
<1>3. episodes \in SUBSET Onsets
  BY <1>2, EpisodesAreTyped
<1> HIDE DEF episodes
<1>5. policy \in {"trusted", "positive_only"} /\ before \in Seq(ProviderProbes) /\ generation \in Nat
      /\ before \in {<<>>, s.probes} /\ (s.policy = "positive_only" => policy = "positive_only")
  BY <1>2
<1> HIDE DEF affected
<1> HIDE DEF systemic
<1>4. probe \in ProviderProbes /\ probe.at = at /\ (probe.complete => complete) /\ (affected => probe.affected)
  BY <1>1, Zenon DEF ProviderProbes
<1> HIDE DEF before, probe
<1>6. probes \in Seq(ProviderProbes)
  <2>1. Append(before, probe) \in Seq(ProviderProbes)
    BY <1>4, <1>5
  <2> QED
    BY <2>1, NewestOf, 3 \in Nat \ {0}
<1>7. r = IF policy # "positive_only" THEN [s EXCEPT !.last = at, !.recent = episodes]
          ELSE IF ProviderIntegrityRecovered(probes)
          THEN [last |-> at, recent |-> episodes, policy |-> "trusted",
                generation |-> generation + 1, probes |-> <<>>]
          ELSE [last |-> at, recent |-> episodes, policy |-> policy,
                generation |-> generation, probes |-> probes]
  BY Zenon DEF ObserveProvider, episodes, affected, systemic, before, probe
<1> HIDE DEF policy, probes, generation
<1>8. /\ r \in Provider /\ r.last = at
      /\ \/ r.policy = "positive_only" /\ r.probes = probes
         \/ r.policy = "trusted" /\ r.probes = <<>>
      /\ (s.policy = "positive_only" /\ r.policy = "trusted") => ProviderIntegrityRecovered(probes)
  <2>1. CASE policy # "positive_only"
    <3>1. r = [s EXCEPT !.last = at, !.recent = episodes]
      BY <1>7, <2>1
    <3>2. r \in Provider /\ r.last = at /\ r.policy = s.policy /\ r.probes = s.probes
      BY <1>3, <3>1 DEF Provider
    <3> QED
      BY <1>2, <1>5, <2>1, <3>2
  <2>2. CASE policy = "positive_only" /\ ProviderIntegrityRecovered(probes)
    BY <1>3, <1>5, <1>7, <2>2 DEF Provider
  <2>3. CASE policy = "positive_only" /\ ~ ProviderIntegrityRecovered(probes)
    BY <1>3, <1>5, <1>6, <1>7, <2>3 DEF Provider
  <2> QED
    BY <2>1, <2>2, <2>3
<1>9. probes = Newest(3, Append(before, probe))
  BY DEF probes
<1>10. ProbeOf(probe, s, at, seen, complete)
  BY <1>4, Zenon DEF affected, episodes, ProbeOf
<1>11. ProbesAfter(s, r, probes)
  BY <1>8 DEF ProbesAfter
<1> QED
  BY <1>4, <1>5, <1>8, <1>9, <1>10, <1>11, Zenon DEF ProviderStep

\* Probes that follow the sightings go on following them.
LEMMA NewestFollow ==
    ASSUME NEW probes \in Seq(ProviderProbes), NEW sightings \in Seq(Sightings),
           NEW probe \in ProviderProbes, NEW sighting \in Sightings,
           Len(probes) <= 3, Len(sightings) <= 3, Follow(probes, sightings), Matching(probe, sighting)
    PROVE  LET p == Newest(3, Append(probes, probe))
               q == Newest(3, Append(sightings, sighting))
           IN /\ p \in Seq(ProviderProbes) /\ q \in Seq(Sightings)
              /\ Len(p) <= 3 /\ Len(q) <= 3 /\ Follow(p, q)
<1> DEFINE a == Append(probes, probe)
           b == Append(sightings, sighting)
           p == Newest(3, a)
           q == Newest(3, b)
           n == Len(probes)
           m == Len(sightings)
<1>1. n \in Nat /\ m \in Nat /\ n <= m /\ m <= 3
  BY LenProperties DEF Follow
<1>2. /\ a \in Seq(ProviderProbes) /\ Len(a) = n + 1 /\ a[n + 1] = probe /\ \A k \in 1..n : a[k] = probes[k]
      /\ b \in Seq(Sightings) /\ Len(b) = m + 1 /\ b[m + 1] = sighting /\ \A k \in 1..m : b[k] = sightings[k]
  BY AppendProperties
<1> HIDE DEF a, b
<1>3. /\ p \in Seq(ProviderProbes) /\ Len(p) = (IF n + 1 > 3 THEN 3 ELSE n + 1)
      /\ \A k \in 1..Len(p) : p[k] = a[n + 1 - Len(p) + k]
  <2>1. a \in Seq(ProviderProbes) /\ Len(a) = n + 1
    BY <1>2
  <2>2. /\ p \in Seq(ProviderProbes) /\ Len(p) = (IF Len(a) > 3 THEN 3 ELSE Len(a))
        /\ \A k \in 1..Len(p) : p[k] = a[Len(a) - Len(p) + k]
    BY <2>1, NewestOf, 3 \in Nat \ {0}
  <2> HIDE DEF p, n
  <2> QED
    BY ONLY <1>1, <2>1, <2>2
<1>4. /\ q \in Seq(Sightings) /\ Len(q) = (IF m + 1 > 3 THEN 3 ELSE m + 1)
      /\ \A k \in 1..Len(q) : q[k] = b[m + 1 - Len(q) + k]
  <2>1. b \in Seq(Sightings) /\ Len(b) = m + 1
    BY <1>2
  <2>2. /\ q \in Seq(Sightings) /\ Len(q) = (IF Len(b) > 3 THEN 3 ELSE Len(b))
        /\ \A k \in 1..Len(q) : q[k] = b[Len(b) - Len(q) + k]
    BY <2>1, NewestOf, 3 \in Nat \ {0}
  <2> HIDE DEF q, m
  <2> QED
    BY ONLY <1>1, <2>1, <2>2
<1> HIDE DEF p, q, n, m
<1>5. \A k \in 1..(n + 1) : Matching(a[k], b[m - n + k])
  <2> SUFFICES ASSUME NEW k \in 1..(n + 1) PROVE Matching(a[k], b[m - n + k])
    OBVIOUS
  <2>1. CASE k = n + 1
    BY <1>1, <1>2, <2>1
  <2>2. CASE k # n + 1
    <3>1. k \in 1..n /\ m - n + k \in 1..m
      BY <1>1, <2>2
    <3>2. Matching(probes[k], sightings[m - n + k])
      BY <3>1 DEF Follow, n, m
    <3> QED
      BY <1>2, <3>1, <3>2
  <2> QED
    BY <2>1, <2>2
<1>6. Len(p) \in Nat /\ Len(q) \in Nat /\ Len(p) <= Len(q) /\ Len(q) <= 3
  BY <1>1, <1>3, <1>4
<1>7. ASSUME NEW k \in 1..Len(p) PROVE Matching(p[k], q[Len(q) - Len(p) + k])
  <2>1. n + 1 - Len(p) + k \in 1..(n + 1)
    BY <1>1, <1>3
  <2>2. Len(q) - Len(p) + k \in 1..Len(q)
    BY <1>6
  <2>3. m + 1 - Len(q) + (Len(q) - Len(p) + k) = m - n + (n + 1 - Len(p) + k)
    BY <1>1, <1>6
  <2> QED
    BY <1>3, <1>4, <1>5, <2>1, <2>2, <2>3
<1> QED
  BY <1>3, <1>4, <1>6, <1>7 DEF Follow, p, q, a, b

-----------------------------------------------------------------------------
(* The steps. *)

\* Nothing observed yet (collector_types.go:122).
LEMMA HealthInvInitially == HealthInit => HealthInv
<1> SUFFICES ASSUME HealthInit PROVE HealthInv
  OBVIOUS
<1>1. NewHealth \in HealthRows /\ NewHealth.incidents = {} /\ NewHealth.last = 0 /\ NewHealth.poll = 0
      /\ NewHealth.usable = 0 /\ NewHealth.since = 0 /\ NewHealth.progress = 0 /\ IsDated(NewHealth)
  <2>1. NewHealth.clock.status = ""
    BY DEF NewHealth, NoFacts
  <2> QED
    BY <2>1, FactsAreNotDown DEF NewHealth, HealthRows, Never, Statuses, IsDated
<1> DEFINE none == [facts |-> Down, since |-> Never, last |-> Never]
<1>2. none \in FrozenRuns /\ none.facts = Down /\ none.last = 0 /\ none.since = 0
  BY DEF FrozenRuns, Observations, Never
<1> HIDE DEF none
<1>3. /\ health = [f \in Fixtures |-> NewHealth] /\ frozen = [f \in Fixtures |-> none]
      /\ provider = NewProvider /\ polls = <<>> /\ recent = <<>> /\ now = 0 /\ mishaps = 0
      /\ stored = [f \in Fixtures |-> [facts |-> CHOOSE x \in Feed[f] : TRUE, polled |-> Never]]
  BY DEF HealthInit, none, Never
<1>4. NewProvider \in Provider /\ NewProvider.last = 0 /\ NewProvider.probes = <<>>
  BY DEF NewProvider, Provider, Never
<1>5. HealthTypeOK
  <2>1. \A f \in Fixtures : (CHOOSE x \in Feed[f] : TRUE) \in Facts
    BY HealthConstants
  <2>2. stored \in [Fixtures -> [facts : Facts, polled : Nat]]
    BY <1>3, <2>1 DEF Never
  <2>3. polls \in Seq(PollRecords) /\ recent \in Seq(Sightings) /\ DOMAIN polls = {}
    BY <1>3
  <2> QED
    BY <1>1, <1>2, <1>3, <1>4, <2>2, <2>3 DEF HealthTypeOK
<1>6. PollsAreSeenOnce
  BY <1>1, <1>2, <1>3, <1>4 DEF PollsAreSeenOnce
<1>7. FixturesAreSound
  <2> SUFFICES StallsRestrict(NewHealth) /\ CursorSound(NewHealth, none) /\ Restricted(NewHealth, none)
    BY <1>3 DEF FixturesAreSound
  <2> QED
    BY <1>1, <1>2 DEF StallsRestrict, CursorSound, Restricted
<1>8. ProbesAreRecent
  <2>1. provider.probes = <<>> /\ Len(provider.probes) = 0 /\ Len(recent) = 0
    BY <1>3, <1>4
  <2> QED
    BY <2>1 DEF ProbesAreRecent, Follow
<1> QED
  BY <1>5, <1>6, <1>7, <1>8 DEF HealthInv

\* A poll that is fetched is not seen yet.
LEMMA FetchKeepsHealth == HealthInv /\ Fetch => HealthInv'
<1> SUFFICES ASSUME HealthInv, Fetch PROVE HealthInv'
  OBVIOUS
<1>1. PICK gap \in {1, GapLimit + 1}, down \in SUBSET Fixtures, failed \in {{}, Fixtures} :
        /\ Fault((IF gap = 1 THEN 0 ELSE 1) + (IF down = {} THEN 0 ELSE 1)
                 + (IF failed = {} THEN 0 ELSE 1) + Cardinality(Busy))
        /\ \E facts \in {x \in [Fixtures -> Reported] : \A f \in Fixtures : x[f] \in Feed[f]} :
             /\ now' = now + gap
             /\ polls' = Append(polls, [at |-> now + gap, pc |-> "collect", final |-> "none",
                                        obs |-> [f \in Fixtures |-> HealthObservation(f, facts, down)],
                                        interrupted |-> RecordFetchFailure(failed, down)])
  BY Zenon DEF Fetch
<1>2. PICK facts \in {x \in [Fixtures -> Reported] : \A f \in Fixtures : x[f] \in Feed[f]} :
             /\ now' = now + gap
             /\ polls' = Append(polls, [at |-> now + gap, pc |-> "collect", final |-> "none",
                                        obs |-> [f \in Fixtures |-> HealthObservation(f, facts, down)],
                                        interrupted |-> RecordFetchFailure(failed, down)])
  BY <1>1, Zenon
<1>3. UNCHANGED <<health, provider, stored, frozen, recent>>
  BY Zenon DEF Fetch
<1>4. HealthTypeOK /\ PollsAreSeenOnce /\ FixturesAreSound /\ ProbesAreRecent
  BY DEF HealthInv
<1> DEFINE obs == [f \in Fixtures |-> HealthObservation(f, facts, down)]
           poll == [at |-> now + gap, pc |-> "collect", final |-> "none", obs |-> obs,
                    interrupted |-> RecordFetchFailure(failed, down)]
<1>5. obs \in [Fixtures -> Observations]
  <2>1. \A f \in Fixtures : facts[f] \in Facts
    BY HealthConstants
  <2>2. \A f \in Fixtures : HealthObservation(f, facts, down) \in Observations
    BY <2>1 DEF HealthObservation, Observations
  <2> QED
    BY <2>2
<1> HIDE DEF obs
<1>6. now' \in Nat
  BY <1>2, <1>4, HealthConstants DEF HealthTypeOK
<1>7. poll \in PollRecords /\ poll.obs = obs
  <2>1. RecordFetchFailure(failed, down) \in SUBSET Fixtures
    BY DEF RecordFetchFailure
  <2>2. now + gap \in Nat
    BY <1>2, <1>6
  <2> QED
    BY <1>5, <2>1, <2>2 DEF PollRecords
<1>8. polls' = Append(polls, poll)
  BY <1>2 DEF obs
<1> HIDE DEF poll
<1>9. polls \in Seq(PollRecords)
  BY <1>4 DEF HealthTypeOK
<1>10. /\ polls' \in Seq(PollRecords) /\ Len(polls') = Len(polls) + 1 /\ Len(polls) \in Nat
       /\ DOMAIN polls = 1..Len(polls) /\ DOMAIN polls' = 1..(Len(polls) + 1)
       /\ polls'[Len(polls) + 1] = poll /\ \A k \in 1..Len(polls) : polls'[k] = polls[k]
  BY <1>7, <1>8, <1>9, AppendProperties
<1>11. mishaps' \in Nat
  <2>1. Busy \subseteq 1..Len(polls)
    BY <1>10 DEF Busy
  <2>2. IsFiniteSet(Busy) /\ Cardinality(Busy) \in Nat
    <3>1. IsFiniteSet(1..Len(polls))
      BY <1>10, FS_Interval
    <3>2. IsFiniteSet(Busy)
      BY <2>1, <3>1, FS_Subset
    <3> QED
      BY <3>2, FS_CardinalityType
  <2>3. mishaps' = mishaps + ((IF gap = 1 THEN 0 ELSE 1) + (IF down = {} THEN 0 ELSE 1)
                              + (IF failed = {} THEN 0 ELSE 1) + Cardinality(Busy))
    BY <1>1 DEF Fault
  <2>4. mishaps \in Nat
    BY <1>4 DEF HealthTypeOK
  <2>5. (IF gap = 1 THEN 0 ELSE 1) \in Nat /\ (IF down = {} THEN 0 ELSE 1) \in Nat
        /\ (IF failed = {} THEN 0 ELSE 1) \in Nat
    OBVIOUS
  <2> QED
    BY <2>2, <2>3, <2>4, <2>5
<1>12. HealthTypeOK'
  <2>1. \A id \in DOMAIN polls' : polls'[id].pc # "over" => polls'[id].obs \in [Fixtures -> Observations]
    <3> SUFFICES ASSUME NEW id \in 1..(Len(polls) + 1), polls'[id].pc # "over"
                 PROVE  polls'[id].obs \in [Fixtures -> Observations]
      BY <1>10
    <3>1. CASE id = Len(polls) + 1
      BY <1>5, <1>7, <1>10, <3>1
    <3>2. CASE id \in 1..Len(polls)
      BY <1>4, <1>10, <3>2 DEF HealthTypeOK
    <3> QED
      BY <1>10, <3>1, <3>2
  <2> QED
    BY <1>3, <1>4, <1>6, <1>10, <1>11, <2>1 DEF HealthTypeOK
<1>13. PollsAreSeenOnce'
  <2> SUFFICES ASSUME NEW f \in Fixtures
               PROVE  /\ health[f].last = provider.last /\ frozen[f].last = provider.last
                      /\ health[f].poll <= Len(polls')
                      /\ health[f].poll \in DOMAIN polls' => polls'[health[f].poll].at <= provider.last
    BY <1>3 DEF PollsAreSeenOnce
  <2>1. /\ health[f].last = provider.last /\ frozen[f].last = provider.last
        /\ health[f].poll <= Len(polls)
        /\ health[f].poll \in DOMAIN polls => polls[health[f].poll].at <= provider.last
    BY <1>4 DEF PollsAreSeenOnce
  <2>2. health[f].poll \in Nat
    BY <1>4 DEF HealthTypeOK, HealthRows
  <2>3. health[f].poll \in DOMAIN polls' => health[f].poll \in 1..Len(polls)
    BY <1>10, <2>1, <2>2
  <2> QED
    BY <1>10, <2>1, <2>2, <2>3
<1>14. FixturesAreSound'
  BY <1>3, <1>4 DEF FixturesAreSound
<1>15. ProbesAreRecent'
  BY <1>3, <1>4 DEF ProbesAreRecent
<1> QED
  BY <1>12, <1>13, <1>14, <1>15 DEF HealthInv

\* What a committed poll brings to one fixture (provider_health_repo.go:51).
LEMMA CommittedSeen ==
    ASSUME HealthInv, NEW id \in DOMAIN polls, polls[id].pc = "collect", polls[id].at > provider.last,
           NEW f \in Fixtures
    PROVE  /\ id \in Nat /\ polls[id].at \in Nat /\ Usable(id, f) \in Observations
           /\ (f \in polls[id].interrupted) \in BOOLEAN /\ Baseline(f) \in Facts
           /\ health[f] \in HealthRows /\ frozen[f] \in FrozenRuns
           /\ polls[id].at > health[f].last /\ id # health[f].poll /\ frozen[f].last = health[f].last
           /\ Seen(id)[f] = ObserveFixture(health[f], id, polls[id].at, Usable(id, f),
                                           f \in polls[id].interrupted, Baseline(f))
           /\ Seen(id)[f].row \in HealthRows /\ Seen(id)[f].row.last = polls[id].at
           /\ Seen(id)[f].row.poll = id
<1>1. HealthTypeOK /\ PollsAreSeenOnce
  BY DEF HealthInv
<1>2. polls \in Seq(PollRecords) /\ id \in 1..Len(polls) /\ polls[id] \in PollRecords
  BY <1>1, LenProperties, ElementOfSeq DEF HealthTypeOK
<1>3. id \in Nat /\ polls[id].at \in Nat /\ polls[id].obs \in [Fixtures -> Observations]
  <2>1. id \in Nat /\ polls[id].at \in Nat
    BY <1>2 DEF PollRecords
  <2>2. polls[id].pc # "over"
    OBVIOUS
  <2>3. polls[id].obs \in [Fixtures -> Observations]
    BY <1>1, <2>2 DEF HealthTypeOK
  <2> QED
    BY <2>1, <2>3
<1>4. Usable(id, f) \in Observations
  BY <1>3 DEF Usable, Observations
<1>5. Baseline(f) \in Facts /\ health[f] \in HealthRows /\ frozen[f] \in FrozenRuns
  BY <1>1 DEF HealthTypeOK, Baseline
<1>6. health[f].last = provider.last /\ frozen[f].last = provider.last
      /\ (health[f].poll \in DOMAIN polls => polls[health[f].poll].at <= provider.last)
  BY <1>1 DEF PollsAreSeenOnce
<1>7. provider.last \in Nat
  BY <1>1 DEF HealthTypeOK, Provider
<1>8. id # health[f].poll
  BY <1>3, <1>6, <1>7
<1>9. Seen(id)[f] = ObserveFixture(health[f], id, polls[id].at, Usable(id, f),
                                   f \in polls[id].interrupted, Baseline(f))
  BY Zenon DEF Seen
<1>10. (f \in polls[id].interrupted) \in BOOLEAN
  OBVIOUS
<1>11. polls[id].at > health[f].last
  BY <1>6
<1> DEFINE down == f \in polls[id].interrupted
<1> HIDE DEF down
<1>12. down \in BOOLEAN /\ Seen(id)[f] = ObserveFixture(health[f], id, polls[id].at, Usable(id, f), down, Baseline(f))
  BY <1>9, <1>10 DEF down
<1>13. Seen(id)[f].row \in HealthRows /\ Seen(id)[f].row.last = polls[id].at /\ Seen(id)[f].row.poll = id
  BY <1>3, <1>4, <1>5, <1>8, <1>11, <1>12, RowIs
<1> QED
  BY <1>3, <1>4, <1>5, <1>6, <1>8, <1>9, <1>10, <1>11, <1>13

\* A committed poll keeps what the rows, the cursors and the probes know.
LEMMA CommitKeepsHealth ==
    ASSUME HealthInv, NEW id \in DOMAIN polls, polls[id].pc = "collect", Observe(id),
           polls[id].final = "none", polls[id].at > provider.last
    PROVE  /\ health' \in [Fixtures -> HealthRows] /\ frozen' \in [Fixtures -> FrozenRuns]
           /\ provider' \in Provider /\ provider'.last = polls[id].at /\ recent' \in Seq(Sightings)
           /\ \A f \in Fixtures : /\ health'[f].last = polls[id].at /\ frozen'[f].last = polls[id].at
                                  /\ health'[f].poll = id
           /\ FixturesAreSound' /\ ProbesAreRecent'
           /\ (provider.policy = "positive_only" /\ provider'.policy = "trusted") =>
                 \E probes \in Seq(ProviderProbes) :
                    Len(probes) <= 3 /\ Follow(probes, recent') /\ ProviderIntegrityRecovered(probes)
<1> DEFINE at == polls[id].at
           complete == CompletePoll(id)
           affected == \E f \in Fixtures : Conflicted(health[f], Seen(id)[f].row)
           sighting == [at |-> at, complete |-> complete, affected |-> affected]
<1>1. HealthTypeOK /\ FixturesAreSound /\ ProbesAreRecent
  BY DEF HealthInv
<1>2. at \in Nat /\ provider.last \in Nat /\ provider \in Provider /\ recent \in Seq(Sightings)
  <2>1. polls[id] \in PollRecords
    BY <1>1 DEF HealthTypeOK
  <2> QED
    BY <1>1, <2>1 DEF HealthTypeOK, Provider, PollRecords
<1>3. /\ health' = [f \in Fixtures |-> Seen(id)[f].row]
      /\ provider' = ObserveProvider(provider, id, at, Seen(id), complete)
      /\ frozen' = [f \in Fixtures |->
                      FrozenAfter(frozen[f], Usable(id, f), at, f \in polls[id].interrupted)]
      /\ recent' = Newest(3, Append(recent, sighting))
  <2>1. ~ (polls[id].final # "none" \/ at <= provider.last)
    BY <1>2
  <2> QED
    BY <2>1, Zenon DEF Observe
<1>4. ASSUME NEW f \in Fixtures
      PROVE  /\ health'[f] \in HealthRows /\ frozen'[f] \in FrozenRuns
             /\ health'[f].last = at /\ frozen'[f].last = at /\ health'[f].poll = id
             /\ StallsRestrict(health'[f]) /\ CursorSound(health'[f], frozen'[f])
             /\ Restricted(health'[f], frozen'[f])
  <2> DEFINE s == Seen(id)[f]
             o == Usable(id, f)
             down == f \in polls[id].interrupted
             y == FrozenAfter(frozen[f], o, at, down)
  <2>1. /\ id \in Nat /\ o \in Observations /\ down \in BOOLEAN /\ Baseline(f) \in Facts
        /\ health[f] \in HealthRows /\ frozen[f] \in FrozenRuns
        /\ at > health[f].last /\ id # health[f].poll /\ frozen[f].last = health[f].last
        /\ s = ObserveFixture(health[f], id, at, o, down, Baseline(f))
        /\ s.row \in HealthRows /\ s.row.last = at /\ s.row.poll = id
    BY CommittedSeen
  <2>2. health'[f] = s.row /\ frozen'[f] = y
    BY <1>3
  <2>3. StallsRestrict(health[f]) /\ CursorSound(health[f], frozen[f])
    BY <1>1 DEF FixturesAreSound
  <2> HIDE DEF s, o, down, y, at
  <2>4. y = FrozenAfter(frozen[f], o, at, down) /\ at \in Nat
    <3>1. y = FrozenAfter(frozen[f], o, at, down)
      BY Zenon DEF y
    <3> QED
      BY <1>2, <3>1
  <2>5. y \in FrozenRuns /\ y.last = at
    <3>1. frozen[f] \in FrozenRuns /\ o \in Observations /\ down \in BOOLEAN
      BY <2>1
    <3> QED
      BY ONLY <2>4, <3>1, FrozenAfterIs
  <2>6. CursorSound(s.row, y)
    BY <2>1, <2>3, <2>4, CursorsFollow
  <2>7. StallsRestrict(s.row) /\ Restricted(s.row, y)
    BY <2>1, <2>3, <2>4, FrozenRestricts
  <2> QED
    BY <2>1, <2>2, <2>5, <2>6, <2>7
<1>5. health' \in [Fixtures -> HealthRows] /\ frozen' \in [Fixtures -> FrozenRuns]
  <2>1. health' = [f \in Fixtures |-> health'[f]] /\ frozen' = [f \in Fixtures |-> frozen'[f]]
    BY <1>3, Zenon
  <2> QED
    BY <1>4, <2>1
<1>6. FixturesAreSound'
  BY <1>4 DEF FixturesAreSound
<1>7. complete \in BOOLEAN /\ affected \in BOOLEAN
  BY DEF CompletePoll
<1>8. /\ Len(provider.probes) <= 3 /\ Len(recent) <= 3 /\ Follow(provider.probes, recent)
      /\ provider.policy # "positive_only" => provider.probes = <<>>
  BY <1>1 DEF ProbesAreRecent
<1>9. provider' \in Provider /\ provider'.last = at
      /\ ProviderStep(provider, provider', at, Seen(id), complete)
  <2> DEFINE seen == Seen(id)
             p == provider
             q == provider'
  <2>1. /\ q = ObserveProvider(p, id, at, seen, complete) /\ p \in Provider /\ at \in Nat
        /\ complete \in BOOLEAN /\ (p.policy # "positive_only" => p.probes = <<>>)
    BY <1>2, <1>3, <1>7, <1>8
  <2> SUFFICES q \in Provider /\ q.last = at /\ ProviderStep(p, q, at, seen, complete)
    OBVIOUS
  <2> HIDE DEF complete, at, seen, p, q
  <2>2. q \in Provider
    BY <2>1, ProviderIs, SMT
  <2>3. q.last = at
    BY <2>1, ProviderIs, SMT
  <2>4. ProviderStep(p, q, at, seen, complete)
    BY <2>1, ProviderIs, SMT
  <2> QED
    BY <2>2, <2>3, <2>4
<1>10. PICK probe \in ProviderProbes, before \in {<<>>, provider.probes} :
            /\ ProbeOf(probe, provider, at, Seen(id), complete)
            /\ ProbesAfter(provider, provider', Newest(3, Append(before, probe)))
  BY <1>9, Zenon DEF ProviderStep
<1>11. affected => probe.affected
  <2> SUFFICES ASSUME NEW f \in Fixtures, Conflicted(health[f], Seen(id)[f].row)
               PROVE  probe.affected
    BY Zenon
  <2> DEFINE o == Usable(id, f)
             down == f \in polls[id].interrupted
  <2>1. /\ id \in Nat /\ o \in Observations /\ down \in BOOLEAN /\ Baseline(f) \in Facts
        /\ health[f] \in HealthRows
        /\ Seen(id)[f] = ObserveFixture(health[f], id, at, o, down, Baseline(f))
    BY CommittedSeen
  <2> HIDE DEF o, down, at
  <2>2. \E e \in Episodes(provider.recent, at, Seen(id)) :
          e.family = "integrity_conflict" /\ e.start = at /\ e.resolved = Never
    BY <1>2, <2>1, ConflictIsOnset
  <2> QED
    BY <1>10, <2>2, Zenon DEF ProbeOf
<1> HIDE DEF affected, complete, at
<1>12. sighting \in Sightings /\ Matching(probe, sighting)
  <2>1. sighting \in Sightings /\ sighting.at = at /\ (complete => sighting.complete)
        /\ (sighting.affected => affected)
    BY <1>2, <1>7, Zenon DEF Sightings
  <2> QED
    BY <1>10, <1>11, <2>1, Zenon DEF Matching, ProbeOf
<1> HIDE DEF sighting
<1>13. before \in Seq(ProviderProbes) /\ Len(before) <= 3 /\ Follow(before, recent)
  <2>1. provider.probes \in Seq(ProviderProbes) /\ Len(recent) \in Nat
    BY <1>2, LenProperties DEF Provider
  <2>2. CASE before = <<>>
    <3>1. Len(before) = 0 /\ before \in Seq(ProviderProbes)
      BY <2>2
    <3> QED
      BY <2>1, <3>1 DEF Follow
  <2>3. CASE before = provider.probes
    BY <1>8, <2>1, <2>3
  <2> QED
    BY <1>10, <2>2, <2>3
<1> DEFINE probes == Newest(3, Append(before, probe))
<1>14. /\ probes \in Seq(ProviderProbes) /\ recent' \in Seq(Sightings)
       /\ Len(probes) <= 3 /\ Len(recent') <= 3 /\ Follow(probes, recent')
  BY <1>2, <1>3, <1>8, <1>10, <1>12, <1>13, NewestFollow
<1> HIDE DEF probes
<1>15. /\ \/ provider'.policy = "positive_only" /\ provider'.probes = probes
          \/ provider'.policy = "trusted" /\ provider'.probes = <<>>
       /\ (provider.policy = "positive_only" /\ provider'.policy = "trusted")
             => ProviderIntegrityRecovered(probes)
  BY <1>10, Zenon DEF probes, ProbesAfter
<1>16. ProbesAreRecent'
  <2>1. CASE provider'.policy = "positive_only" /\ provider'.probes = probes
    BY <1>14, <2>1 DEF ProbesAreRecent
  <2>2. CASE provider'.policy = "trusted" /\ provider'.probes = <<>>
    <3>1. Len(provider'.probes) = 0 /\ Len(recent') \in Nat
      BY <1>14, <2>2, LenProperties
    <3> QED
      BY <1>14, <2>2, <3>1 DEF ProbesAreRecent, Follow
  <2> QED
    BY <1>15, <2>1, <2>2
<1> QED
  BY <1>4, <1>5, <1>6, <1>9, <1>14, <1>15, <1>16 DEF at

\* A poll has a time.
LEMMA PollsAreTimed ==
    ASSUME NEW s \in Seq(PollRecords), NEW k \in DOMAIN s
    PROVE  s[k] \in PollRecords /\ s[k].at \in Nat
<1>1. s[k] \in PollRecords
  BY LenProperties, ElementOfSeq
<1> QED
  BY <1>1 DEF PollRecords

\* A poll that moves on keeps its time or is over (provider_health_repo.go:143).
LEMMA PollsAfter ==
    ASSUME HealthTypeOK, NEW id \in DOMAIN polls, NEW r \in PollRecords,
           polls' = [polls EXCEPT ![id] = r], r.at <= polls[id].at,
           r.pc # "over" => r.obs \in [Fixtures -> Observations]
    PROVE  /\ polls' \in Seq(PollRecords) /\ Len(polls') = Len(polls) /\ DOMAIN polls' = DOMAIN polls
           /\ \A k \in DOMAIN polls : polls'[k].at <= polls[k].at
           /\ \A k \in DOMAIN polls : polls'[k].pc # "over" => polls'[k].obs \in [Fixtures -> Observations]
<1>1. polls \in Seq(PollRecords)
      /\ \A k \in DOMAIN polls : polls[k].pc # "over" => polls[k].obs \in [Fixtures -> Observations]
  BY DEF HealthTypeOK
<1>2. id \in 1..Len(polls) /\ DOMAIN polls = 1..Len(polls)
  BY <1>1, LenProperties
<1>3. /\ polls' \in Seq(PollRecords) /\ Len(polls') = Len(polls)
      /\ \A k \in 1..Len(polls) : polls'[k] = IF k = id THEN r ELSE polls[k]
  BY <1>1, <1>2, ExceptSeq
<1>4. \A k \in 1..Len(polls) : polls[k].at \in Nat
  BY <1>1, <1>2, PollsAreTimed
<1>5. DOMAIN polls' = DOMAIN polls
  BY <1>2, <1>3, LenProperties
<1>6. ASSUME NEW k \in DOMAIN polls
      PROVE  /\ polls'[k].at <= polls[k].at
             /\ polls'[k].pc # "over" => polls'[k].obs \in [Fixtures -> Observations]
  <2>1. CASE k = id
    BY <1>2, <1>3, <2>1
  <2>2. CASE k # id
    <3>1. polls'[k] = polls[k]
      BY <1>2, <1>3, <2>2
    <3>2. polls[k].at \in Nat
      BY <1>2, <1>4
    <3> QED
      BY <1>1, <3>1, <3>2
  <2> QED
    BY <2>1, <2>2
<1> QED
  BY <1>3, <1>5, <1>6

\* A poll that is collected is committed, or changes nothing but itself.
LEMMA CollectKeepsHealth ==
    ASSUME HealthInv, NEW id \in DOMAIN polls, Collect(id)
    PROVE  HealthInv'
<1> DEFINE final == IF polls[id].final # "none" THEN polls[id].final
                    ELSE IF polls[id].at <= provider.last THEN "ignored" ELSE "taken"
           r == IF final = "ignored" THEN Over ELSE [polls[id] EXCEPT !.pc = "write", !.final = final]
           t == [polls[id] EXCEPT !.final = final]
<1>1. /\ polls[id].pc = "collect" /\ Observe(id) /\ stored' = stored /\ now' = now
      /\ \/ polls' = [polls EXCEPT ![id] = r] /\ mishaps' = mishaps
         \/ Fault(1) /\ polls' = [polls EXCEPT ![id] = t]
  <2>1. polls[id].pc = "collect" /\ Observe(id) /\ stored' = stored /\ now' = now
    BY Zenon DEF Collect
  <2>2. \/ polls' = [polls EXCEPT ![id] = r] /\ mishaps' = mishaps
        \/ Fault(1) /\ polls' = [polls EXCEPT ![id] = t]
    BY DEF Collect
  <2> QED
    BY <2>1, <2>2
<1>2. HealthTypeOK /\ PollsAreSeenOnce /\ FixturesAreSound /\ ProbesAreRecent
  BY DEF HealthInv
<1>3. polls[id] \in PollRecords /\ polls[id].obs \in [Fixtures -> Observations]
  <2>1. polls \in Seq(PollRecords)
    BY <1>2 DEF HealthTypeOK
  <2> QED
    BY <1>1, <1>2, <2>1, ElementOfSeq, LenProperties DEF HealthTypeOK
<1>4. final \in {"none", "taken", "ignored"}
  BY <1>3 DEF PollRecords
<1> HIDE DEF final
<1>5. /\ t \in PollRecords /\ t.at = polls[id].at /\ t.obs = polls[id].obs
      /\ r \in PollRecords /\ r.at <= polls[id].at
      /\ r.pc # "over" => r.obs \in [Fixtures -> Observations]
  <2>0. polls[id].at \in Nat
    BY <1>3 DEF PollRecords
  <2>1. t \in PollRecords /\ t.at = polls[id].at /\ t.obs = polls[id].obs
    BY <1>3, <1>4 DEF PollRecords
  <2>2. CASE final = "ignored"
    <3>1. r = Over /\ Over.at = 0 /\ Over.pc = "over" /\ Over \in PollRecords
      BY <2>2 DEF Over, Never, PollRecords
    <3> HIDE DEF r
    <3> QED
      BY <2>0, <2>1, <3>1
  <2>3. CASE final # "ignored"
    <3>1. r = [polls[id] EXCEPT !.pc = "write", !.final = final]
      BY <2>3
    <3>2. r \in PollRecords /\ r.at = polls[id].at /\ r.obs = polls[id].obs
      BY <1>3, <1>4, <3>1 DEF PollRecords
    <3> HIDE DEF r, t
    <3> QED
      BY <1>3, <2>0, <2>1, <3>2
  <2> QED
    BY <2>2, <2>3
<1>6. PICK s \in {r, t} : polls' = [polls EXCEPT ![id] = s]
  BY <1>1, Zenon
<1>7. mishaps' \in Nat
  BY <1>1, <1>2 DEF HealthTypeOK, Fault
<1> HIDE DEF r, t
<1>8. /\ polls' \in Seq(PollRecords) /\ Len(polls') = Len(polls) /\ DOMAIN polls' = DOMAIN polls
      /\ \A k \in DOMAIN polls : polls'[k].at <= polls[k].at
      /\ \A k \in DOMAIN polls : polls'[k].pc # "over" => polls'[k].obs \in [Fixtures -> Observations]
  <2>1. s \in PollRecords /\ s.at <= polls[id].at /\ (s.pc # "over" => s.obs \in [Fixtures -> Observations])
    <3>1. polls[id].at \in Nat
      BY <1>3 DEF PollRecords
    <3> QED
      BY <1>3, <1>5, <1>6, <3>1
  <2> QED
    BY <1>2, <1>6, <2>1, PollsAfter
<1>9. /\ provider.last \in Nat
      /\ \A k \in DOMAIN polls : polls[k].at \in Nat /\ polls'[k].at \in Nat
  <2>1. polls \in Seq(PollRecords)
    BY <1>2 DEF HealthTypeOK
  <2>2. provider.last \in Nat
    BY <1>2 DEF HealthTypeOK, Provider
  <2> QED
    BY <1>8, <2>1, <2>2, PollsAreTimed
<1>10. CASE polls[id].final # "none" \/ polls[id].at <= provider.last
  <2>1. UNCHANGED <<health, provider, frozen, recent>>
    BY <1>1, <1>10, Zenon DEF Observe
  <2>2. HealthTypeOK'
    BY <1>1, <1>2, <1>7, <1>8, <2>1 DEF HealthTypeOK
  <2>3. PollsAreSeenOnce'
    <3> SUFFICES ASSUME NEW f \in Fixtures, health[f].poll \in DOMAIN polls
                 PROVE  polls'[health[f].poll].at <= provider.last
      BY <1>2, <1>8, <2>1 DEF PollsAreSeenOnce
    <3>1. polls[health[f].poll].at <= provider.last
      BY <1>2 DEF PollsAreSeenOnce
    <3> QED
      BY <1>8, <1>9, <3>1
  <2>4. FixturesAreSound' /\ ProbesAreRecent'
    BY <1>2, <2>1 DEF FixturesAreSound, ProbesAreRecent
  <2> QED
    BY <2>2, <2>3, <2>4 DEF HealthInv
<1>11. CASE polls[id].final = "none" /\ polls[id].at > provider.last
  <2>1. /\ health' \in [Fixtures -> HealthRows] /\ frozen' \in [Fixtures -> FrozenRuns]
        /\ provider' \in Provider /\ provider'.last = polls[id].at /\ recent' \in Seq(Sightings)
        /\ \A f \in Fixtures : /\ health'[f].last = polls[id].at /\ frozen'[f].last = polls[id].at
                               /\ health'[f].poll = id
        /\ FixturesAreSound' /\ ProbesAreRecent'
    BY <1>1, <1>11, CommitKeepsHealth
  <2>2. HealthTypeOK'
    BY <1>1, <1>2, <1>7, <1>8, <2>1 DEF HealthTypeOK
  <2>3. PollsAreSeenOnce'
    <3> SUFFICES ASSUME NEW f \in Fixtures
                 PROVE  /\ health'[f].poll <= Len(polls') /\ polls'[health'[f].poll].at <= provider'.last
      BY <2>1 DEF PollsAreSeenOnce
    <3>1. id \in 1..Len(polls) /\ Len(polls) \in Nat
      BY <1>2, LenProperties DEF HealthTypeOK
    <3> QED
      BY <1>8, <2>1, <3>1
  <2> QED
    BY <2>1, <2>2, <2>3 DEF HealthInv
<1> QED
  BY <1>9, <1>10, <1>11

\* What is written is what the provider may report (reconcile.go:178).
LEMMA MergeIsTyped ==
    ASSUME NEW old \in Facts, NEW new \in Facts
    PROVE  MergePositive(old, new) \in Facts
<1> DEFINE blocked == AssessFixture(old, new) \cap {"phase_regressed", "terminal_regressed", "clock_regressed"} # {}
           timed == ~ blocked /\ new.elapsed # Nil
<1>1. blocked \in BOOLEAN /\ timed \in BOOLEAN
  OBVIOUS
<1>2. MergePositive(old, new) =
        [status |-> IF blocked THEN old.status ELSE new.status,
         elapsed |-> IF timed THEN new.elapsed ELSE old.elapsed,
         extra |-> IF timed THEN new.extra ELSE old.extra,
         score |-> Larger(old.score, new.score), teams |-> old.teams]
  BY Zenon DEF MergePositive
<1> HIDE DEF blocked, timed
<1> QED
  BY <1>1, <1>2 DEF Facts, Larger

\* Reconciliation writes rows and ends the poll.
LEMMA ReconcileKeepsHealth ==
    ASSUME HealthInv, NEW id \in DOMAIN polls, Reconcile(id)
    PROVE  HealthInv'
<1>1. /\ polls[id].pc = "write" /\ polls' = [polls EXCEPT ![id] = Over]
      /\ UNCHANGED <<health, provider, now, frozen, recent>>
      /\ \/ stored' = [f \in Fixtures |-> Written(id, f)] /\ mishaps' = mishaps
         \/ Fault(1) /\ stored' = stored
  BY Zenon DEF Reconcile
<1>2. HealthTypeOK /\ PollsAreSeenOnce /\ FixturesAreSound /\ ProbesAreRecent
  BY DEF HealthInv
<1>3. polls \in Seq(PollRecords) /\ provider.last \in Nat
  BY <1>2 DEF HealthTypeOK, Provider
<1>4. \A k \in DOMAIN polls : polls[k] \in PollRecords /\ polls[k].at \in Nat
  BY <1>3, PollsAreTimed
<1>5. Over \in PollRecords /\ Over.at = 0 /\ Over.pc = "over"
  BY DEF Over, PollRecords, Never
<1>6. /\ polls' \in Seq(PollRecords) /\ Len(polls') = Len(polls) /\ DOMAIN polls' = DOMAIN polls
      /\ \A k \in DOMAIN polls : polls'[k].at <= polls[k].at
      /\ \A k \in DOMAIN polls : polls'[k].pc # "over" => polls'[k].obs \in [Fixtures -> Observations]
  <2>1. Over.at <= polls[id].at
    BY <1>4, <1>5
  <2> QED
    BY <1>1, <1>2, <1>5, <2>1, PollsAfter
<1>7. stored' \in [Fixtures -> [facts : Facts, polled : Nat]]
  <2>1. ASSUME NEW f \in Fixtures PROVE Written(id, f) \in [facts : Facts, polled : Nat]
    <3>1. /\ stored[f] \in [facts : Facts, polled : Nat] /\ polls[id].at \in Nat
          /\ polls[id].obs[f] \in Observations
      BY <1>1, <1>2, <1>4 DEF HealthTypeOK
    <3>2. CASE Written(id, f) = stored[f]
      BY <3>1, <3>2
    <3>3. CASE polls[id].obs[f] # Down /\ \E x \in {polls[id].obs[f], MergePositive(stored[f].facts, polls[id].obs[f])} :
                 Written(id, f) = [polled |-> polls[id].at, facts |-> x]
      <4>1. polls[id].obs[f] \in Facts /\ stored[f].facts \in Facts
        BY <3>1, <3>3 DEF Observations
      <4>2. MergePositive(stored[f].facts, polls[id].obs[f]) \in Facts
        BY <4>1, MergeIsTyped
      <4> QED
        BY <3>1, <3>3, <4>1, <4>2
    <3> QED
      BY <3>2, <3>3, Zenon DEF Written
  <2> QED
    BY <1>1, <1>2, <2>1 DEF HealthTypeOK
<1>8. mishaps' \in Nat
  BY <1>1, <1>2 DEF HealthTypeOK, Fault
<1>9. HealthTypeOK'
  BY <1>1, <1>2, <1>6, <1>7, <1>8 DEF HealthTypeOK
<1>10. PollsAreSeenOnce'
  <2> SUFFICES ASSUME NEW f \in Fixtures, health[f].poll \in DOMAIN polls
               PROVE  polls'[health[f].poll].at <= provider.last
    BY <1>1, <1>2, <1>6 DEF PollsAreSeenOnce
  <2>1. polls[health[f].poll].at <= provider.last
    BY <1>2 DEF PollsAreSeenOnce
  <2>2. polls'[health[f].poll].at \in Nat
    BY <1>6, PollsAreTimed
  <2> QED
    BY <1>3, <1>4, <1>6, <2>1, <2>2
<1>11. FixturesAreSound' /\ ProbesAreRecent'
  BY <1>1, <1>2 DEF FixturesAreSound, ProbesAreRecent
<1> QED
  BY <1>9, <1>10, <1>11 DEF HealthInv

\* Every step keeps what the assessment relies on.
LEMMA HealthInvHolds == HealthSpec => []HealthInv
<1>1. HealthInit => HealthInv
  BY HealthInvInitially
<1>2. HealthInv /\ [HealthNext]_healthVars => HealthInv'
  <2> SUFFICES ASSUME HealthInv, [HealthNext]_healthVars PROVE HealthInv'
    OBVIOUS
  <2>1. CASE Fetch
    BY <2>1, FetchKeepsHealth
  <2>2. ASSUME NEW id \in DOMAIN polls, Collect(id) PROVE HealthInv'
    BY <2>2, CollectKeepsHealth
  <2>3. ASSUME NEW id \in DOMAIN polls, Reconcile(id) PROVE HealthInv'
    BY <2>3, ReconcileKeepsHealth
  <2>4. CASE UNCHANGED healthVars
    BY <2>4 DEF healthVars, HealthInv, HealthTypeOK, PollsAreSeenOnce, FixturesAreSound, ProbesAreRecent
  <2> QED
    BY <2>1, <2>2, <2>3, <2>4, Zenon DEF HealthNext
<1> QED
  BY <1>1, <1>2, PTL DEF HealthSpec

\* FrozenIsRestricted (health.go:8): a running clock that stands still for the
\* interior threshold restricts its fixture.
THEOREM FrozenIsRestrictedHolds == HealthSpec => []FrozenIsRestricted
<1>1. HealthInv => FrozenIsRestricted
  BY Zenon DEF HealthInv, FixturesAreSound, Restricted, FrozenIsRestricted
<1> QED
  BY <1>1, HealthInvHolds, PTL

\* Only a poll that is not late and not yet recorded is committed; every other
\* step leaves the rows, the provider and the histories as they are.
LEMMA OnlyACommitAssesses ==
    ASSUME HealthInv, HealthNext
    PROVE  \/ UNCHANGED <<health, provider, frozen, recent>>
           \/ \E id \in DOMAIN polls : /\ polls[id].pc = "collect" /\ Observe(id)
                                       /\ polls[id].final = "none" /\ polls[id].at > provider.last
<1>1. CASE Fetch
  BY <1>1, Zenon DEF Fetch
<1>2. ASSUME NEW id \in DOMAIN polls, Reconcile(id) PROVE UNCHANGED <<health, provider, frozen, recent>>
  BY <1>2, Zenon DEF Reconcile
<1>3. ASSUME NEW id \in DOMAIN polls, Collect(id)
      PROVE  \/ UNCHANGED <<health, provider, frozen, recent>>
             \/ /\ polls[id].pc = "collect" /\ Observe(id)
                /\ polls[id].final = "none" /\ polls[id].at > provider.last
  <2>1. polls[id].pc = "collect" /\ Observe(id)
    BY <1>3, Zenon DEF Collect
  <2>2. CASE polls[id].final # "none" \/ polls[id].at <= provider.last
    BY <2>1, <2>2, Zenon DEF Observe
  <2>3. CASE polls[id].final = "none" /\ ~ (polls[id].at <= provider.last)
    <3>1. polls[id].at \in Nat /\ provider.last \in Nat
      BY PollsAreTimed DEF HealthInv, HealthTypeOK, Provider
    <3> QED
      BY <2>1, <2>3, <3>1
  <2> QED
    BY <2>2, <2>3
<1> QED
  BY <1>1, <1>2, <1>3, Zenon DEF HealthNext

\* TrustIsEarned (health_recovery.go:97): only three complete polls in a row,
\* without a gap and without a new conflict, end the provider's restriction.
THEOREM TrustIsEarnedHolds == HealthSpec => TrustIsEarned
<1> DEFINE Earned == (provider.policy = "positive_only" /\ provider'.policy = "trusted")
                     => /\ Len(recent') = 3
                        /\ \A k \in 1..3 : recent'[k].complete /\ ~ recent'[k].affected
                        /\ \A k \in 1..2 : recent'[k + 1].at - recent'[k].at <= GapLimit
<1>1. HealthInv /\ [HealthNext]_healthVars => [Earned]_healthVars
  <2> SUFFICES ASSUME HealthInv, HealthNext,
                      provider.policy = "positive_only", provider'.policy = "trusted"
               PROVE  /\ Len(recent') = 3
                      /\ \A k \in 1..3 : recent'[k].complete /\ ~ recent'[k].affected
                      /\ \A k \in 1..2 : recent'[k + 1].at - recent'[k].at <= GapLimit
    OBVIOUS
  <2>1. provider' # provider
    BY Zenon
  <2>2. PICK id \in DOMAIN polls : /\ polls[id].pc = "collect" /\ Observe(id)
                                   /\ polls[id].final = "none" /\ polls[id].at > provider.last
    BY <2>1, OnlyACommitAssesses
  <2>3. PICK probes \in Seq(ProviderProbes) :
          Len(probes) <= 3 /\ Follow(probes, recent') /\ ProviderIntegrityRecovered(probes)
    BY <2>2, CommitKeepsHealth
  <2>4. ProbesAreRecent' /\ recent' \in Seq(Sightings)
    BY <2>2, CommitKeepsHealth
  <2>5. /\ Len(probes) = 3
        /\ \A k \in 1..3 : probes[k].complete /\ ~ probes[k].affected
        /\ \A k \in 1..2 : probes[k + 1].at - probes[k].at <= GapLimit
    BY <2>3, RecoveredIsClean
  <2>6. Len(recent') = 3
    BY <2>3, <2>4, <2>5, LenProperties DEF ProbesAreRecent, Follow
  <2>7. \A k \in 1..3 : Matching(probes[k], recent'[k])
    BY <2>3, <2>5, <2>6 DEF Follow
  <2>8. \A k \in 1..2 : k \in 1..3 /\ k + 1 \in 1..3
    OBVIOUS
  <2>9. \A k \in 1..3 : recent'[k].complete /\ ~ recent'[k].affected /\ probes[k].at = recent'[k].at
    BY <2>5, <2>7 DEF Matching
  <2> QED
    BY <2>5, <2>6, <2>8, <2>9
<1> QED
  BY <1>1, HealthInvHolds, PTL DEF HealthSpec, TrustIsEarned

-----------------------------------------------------------------------------
(* What the recovery of a stalled clock has seen (health_recovery.go:41). *)

Highs == Facts \cup Probes
Recoveries ==
    [at : Nat, advances : 0..2, samples : Nat, phase : Statuses, high : Highs, last : Nat]

Fresh(base, r) == r.advances = 0 /\ r.samples = 0 /\ r.phase = "" /\ r.high = base

(* A sample more of the phase that is held, if one is. *)
Sampled(s, r, p) ==
    r.samples = s.samples \/ (s.phase # "" /\ s.phase = p.status /\ r.samples = s.samples + 1)

(* A telling probe p takes what was known from s to r. *)
Forward(s, r, p) ==
    /\ ForwardPhase(s.high.status, p.status)
    /\ r.phase = p.status /\ r.samples = 1 /\ r.advances = 0 /\ r.high = p /\ r.last = p.at
Backward(s, r) ==
    r.advances = 0 /\ r.samples = 0 /\ r.phase = "" /\ r.high = s.high /\ r.last = s.last
Onward(s, r, p) ==
    /\ ClockProgressed(s.high, p)
    /\ r.high = p /\ r.last = p.at /\ r.phase = s.phase /\ Sampled(s, r, p)
    /\ r.advances = 1 \/ (r.advances = 2 /\ s.advances > 0)
Still(s, r, p) ==
    /\ r.high = s.high /\ r.last = s.last /\ r.phase = s.phase /\ Sampled(s, r, p)
    /\ r.advances = s.advances
Moved(s, r, p) == Forward(s, r, p) \/ Backward(s, r) \/ Onward(s, r, p) \/ Still(s, r, p)

\* The recovery starts knowing nothing but the stalled clock.
LEMMA RecoveryStarts ==
    ASSUME NEW base \in Facts
    PROVE  RecoveryStart(base) \in Recoveries /\ Fresh(base, RecoveryStart(base)) /\ RecoveryStart(base).at = 0
BY DEF RecoveryStart, Recoveries, Fresh, Statuses, Highs, Never

\* One probe forgets everything, or adds to what was known or to a fresh start.
LEMMA RecoveryStepIs ==
    ASSUME NEW base \in Facts, NEW r0 \in Recoveries, NEW p \in Probes,
           NEW r, r = RecoveryStep(base, r0, p)
    PROVE  /\ r \in Recoveries /\ r.at = p.at
           /\ \/ Fresh(base, r)
              \/ /\ Tells(p) /\ (r0.at = 0 \/ p.at - r0.at <= GapLimit)
                 /\ Moved(r0, r, p)
              \/ \E s \in Recoveries : Tells(p) /\ Fresh(base, s) /\ Moved(s, r, p)
<1> DEFINE broken == ~ Tells(p) \/ (r0.at # Never /\ p.at - r0.at > GapLimit)
           s == [(IF broken THEN RecoveryStart(base) ELSE r0) EXCEPT !.at = p.at]
           samples == IF s.phase # "" /\ s.phase = p.status THEN s.samples + 1 ELSE s.samples
           adv == IF s.advances > 0 /\ p.at - s.last <= InteriorStale THEN 2 ELSE 1
           regressed == p.status # s.high.status \/ MaterialClockRegressed(s.high, p)
<1>1. p.at \in Nat /\ p.status \in Statuses /\ p \in Highs
  BY DEF Probes, Highs
<1>2. /\ s \in Recoveries /\ s.at = p.at
      /\ IF broken THEN Fresh(base, s)
         ELSE /\ s.advances = r0.advances /\ s.samples = r0.samples /\ s.phase = r0.phase
              /\ s.high = r0.high /\ s.last = r0.last
  <2>1. CASE broken
    <3> DEFINE n == RecoveryStart(base)
    <3>1. s = [n EXCEPT !.at = p.at]
      BY <2>1
    <3>2. n \in Recoveries /\ Fresh(base, n)
      BY RecoveryStarts
    <3> HIDE DEF s, n
    <3>3. /\ s \in Recoveries /\ s.at = p.at /\ s.advances = n.advances /\ s.samples = n.samples
          /\ s.phase = n.phase /\ s.high = n.high
      BY <1>1, <3>1, <3>2 DEF Recoveries
    <3> QED
      BY <2>1, <3>2, <3>3 DEF Fresh
  <2>2. CASE ~ broken
    <3>1. s = [r0 EXCEPT !.at = p.at]
      BY <2>2
    <3> HIDE DEF s
    <3>2. /\ s \in Recoveries /\ s.at = p.at /\ s.advances = r0.advances /\ s.samples = r0.samples
          /\ s.phase = r0.phase /\ s.high = r0.high /\ s.last = r0.last
      BY <1>1, <3>1 DEF Recoveries
    <3> QED
      BY <2>2, <3>2
  <2> QED
    BY <2>1, <2>2
<1>3. r = IF ~ Tells(p) THEN s
          ELSE IF ForwardPhase(s.high.status, p.status)
          THEN [s EXCEPT !.phase = p.status, !.samples = 1, !.advances = 0, !.high = p, !.last = p.at]
          ELSE IF regressed THEN [s EXCEPT !.advances = 0, !.samples = 0, !.phase = ""]
          ELSE IF ClockProgressed(s.high, p)
          THEN [s EXCEPT !.samples = samples, !.high = p, !.last = p.at, !.advances = adv]
          ELSE [s EXCEPT !.samples = samples]
  BY Zenon DEF RecoveryStep
<1>4. samples \in Nat /\ (samples = s.samples \/ (s.phase # "" /\ s.phase = p.status /\ samples = s.samples + 1))
  <2> HIDE DEF s, broken
  <2>1. s.samples \in Nat
    BY <1>2 DEF Recoveries
  <2>2. CASE s.phase # "" /\ s.phase = p.status
    <3>1. samples = s.samples + 1
      BY <2>2
    <3> HIDE DEF samples
    <3>2. samples \in Nat
      BY <2>1, <3>1
    <3> QED
      BY <2>2, <3>1, <3>2, Zenon
  <2>3. CASE ~ (s.phase # "" /\ s.phase = p.status)
    <3>1. samples = s.samples
      BY <2>3
    <3> HIDE DEF samples
    <3> QED
      BY <2>1, <3>1
  <2> QED
    BY <2>2, <2>3
<1>5. adv \in {1, 2} /\ (adv = 2 => s.advances > 0)
  OBVIOUS
<1>6. ~ broken => Tells(p) /\ (r0.at = 0 \/ p.at - r0.at <= GapLimit)
  <2>1. r0.at \in Nat /\ p.at - r0.at \in Int /\ GapLimit \in Nat
    BY <1>1, HealthConstants DEF Recoveries
  <2> QED
    BY <2>1 DEF Never
<1>7. ~ Tells(p) => broken
  OBVIOUS
<1> HIDE DEF broken, s, samples, adv, regressed
<1>8. r \in Recoveries /\ r.at = p.at /\ (~ Tells(p) => r = s) /\ (Tells(p) => Moved(s, r, p))
  <2>0. s \in Recoveries /\ s.at = p.at /\ "" \in Statuses /\ 0 \in 0..2 /\ 1 \in Nat /\ adv \in 0..2
    BY <1>2, <1>5 DEF Statuses
  <2>1. CASE ~ Tells(p)
    BY <1>2, <1>3, <2>1
  <2>2. CASE Tells(p) /\ ForwardPhase(s.high.status, p.status)
    <3>1. r = [s EXCEPT !.phase = p.status, !.samples = 1, !.advances = 0, !.high = p, !.last = p.at]
      BY <1>3, <2>2
    <3>2. r \in Recoveries /\ r.at = p.at /\ r.phase = p.status /\ r.samples = 1 /\ r.advances = 0
          /\ r.high = p /\ r.last = p.at
      BY ONLY <1>1, <2>0, <3>1 DEF Recoveries
    <3> QED
      BY <2>2, <3>2 DEF Moved, Forward
  <2>3. CASE Tells(p) /\ ~ ForwardPhase(s.high.status, p.status) /\ regressed
    <3>1. r = [s EXCEPT !.advances = 0, !.samples = 0, !.phase = ""]
      BY <1>3, <2>3
    <3>2. r \in Recoveries /\ r.at = p.at /\ Backward(s, r)
      BY ONLY <1>1, <2>0, <3>1 DEF Recoveries, Backward
    <3> QED
      BY <2>3, <3>2 DEF Moved
  <2>4. CASE Tells(p) /\ ~ ForwardPhase(s.high.status, p.status) /\ ~ regressed /\ ClockProgressed(s.high, p)
    <3>1. r = [s EXCEPT !.samples = samples, !.high = p, !.last = p.at, !.advances = adv]
      BY <1>3, <2>4
    <3>2. r \in Recoveries /\ r.at = p.at /\ r.samples = samples /\ r.high = p /\ r.last = p.at
          /\ r.advances = adv /\ r.phase = s.phase
      BY ONLY <1>1, <1>4, <2>0, <3>1 DEF Recoveries
    <3> QED
      BY <1>4, <1>5, <2>4, <3>2 DEF Moved, Onward, Sampled
  <2>5. CASE Tells(p) /\ ~ ForwardPhase(s.high.status, p.status) /\ ~ regressed /\ ~ ClockProgressed(s.high, p)
    <3>1. r = [s EXCEPT !.samples = samples]
      BY <1>3, <2>5
    <3>2. r \in Recoveries /\ r.at = p.at /\ r.samples = samples /\ r.high = s.high /\ r.last = s.last
          /\ r.advances = s.advances /\ r.phase = s.phase
      BY <1>2, <1>4, <3>1 DEF Recoveries
    <3> QED
      BY <1>4, <2>5, <3>2 DEF Moved, Still, Sampled
  <2> QED
    BY <2>1, <2>2, <2>3, <2>4, <2>5
<1>9. CASE broken
  BY <1>2, <1>8, <1>9
<1>10. CASE ~ broken
  <2>1. Moved(s, r, p)
    BY <1>6, <1>8, <1>10
  <2>2. Moved(r0, r, p)
    BY <1>2, <1>10, <2>1 DEF Moved, Forward, Backward, Onward, Still, Sampled
  <2> QED
    BY <1>6, <1>8, <1>10, <2>2
<1> QED
  BY <1>9, <1>10

(* The recovery as the step of one probe after another.                   *)
IsRecovery(g, base, probes, n) ==
    g = [k \in 0..n |-> IF k = 0 THEN RecoveryStart(base) ELSE RecoveryStep(base, g[k - 1], probes[k])]

\* A recovery over any number of probes exists: a shorter one is extended by a step.
LEMMA RecoveryExists ==
    ASSUME NEW base, NEW probes, NEW n \in Nat
    PROVE  \E g : IsRecovery(g, base, probes, n)
<1> DEFINE T == {k \in Nat : ~ \E g : IsRecovery(g, base, probes, k)}
<1>1. ASSUME T # {} PROVE FALSE
  <2>1. PICK k \in T : \A j \in T : ~ (<<j, k>> \in OpToRel(<, Nat))
    BY <1>1, NatLessThanWellFounded, WFMin
  <2>2. CASE k = 0
    <3> DEFINE g == [j \in 0..0 |-> RecoveryStart(base)]
    <3>1. IsRecovery(g, base, probes, 0)
      BY DEF IsRecovery
    <3> QED
      BY <2>1, <2>2, <3>1
  <2>3. CASE k # 0
    <3>0. k \in Nat
      BY Zenon
    <3> HIDE DEF T
    <3>1. k - 1 \in Nat /\ k - 1 < k /\ k \in Nat
      BY <3>0, <2>3
    <3> USE DEF T
    <3>2. k - 1 \notin T
      BY <2>1, <3>1 DEF OpToRel
    <3>3. PICK g : IsRecovery(g, base, probes, k - 1)
      BY <3>1, <3>2
    <3> DEFINE h == [j \in 0..k |-> IF j = k THEN RecoveryStep(base, g[k - 1], probes[k]) ELSE g[j]]
    <3>4. ASSUME NEW j \in 0..k
          PROVE  h[j] = IF j = 0 THEN RecoveryStart(base) ELSE RecoveryStep(base, h[j - 1], probes[j])
      <4>1. CASE j = k
        <5>1. h[j] = RecoveryStep(base, g[k - 1], probes[k]) /\ h[k - 1] = g[k - 1]
          BY <3>1, <4>1
        <5> HIDE DEF h
        <5> QED
          BY <2>3, <4>1, <5>1
      <4>2. CASE j # k
        <5>1. j \in 0..(k - 1)
          BY <3>1, <4>2
        <5>2. g[j] = IF j = 0 THEN RecoveryStart(base) ELSE RecoveryStep(base, g[j - 1], probes[j])
          BY <3>3, <5>1 DEF IsRecovery
        <5>3. h[j] = g[j] /\ (j # 0 => h[j - 1] = g[j - 1])
          BY <3>1, <4>2
        <5> HIDE DEF h
        <5> QED
          BY <5>2, <5>3
      <4> QED
        BY <4>1, <4>2
    <3>5. IsRecovery(h, base, probes, k)
      <4>1. h = [j \in 0..k |-> h[j]]
        OBVIOUS
      <4> HIDE DEF h
      <4> QED
        BY <3>4, <4>1 DEF IsRecovery
    <3> QED
      BY <2>1, <3>5
  <2> QED
    BY <2>2, <2>3
<1> QED
  BY <1>1

\* What the probes have shown is what one after another has shown.
LEMMA RecoveryFollows ==
    ASSUME NEW base, NEW probes, Len(probes) \in Nat, NEW k \in 0..Len(probes)
    PROVE  Recovery(base, probes)[k] =
             IF k = 0 THEN RecoveryStart(base)
             ELSE RecoveryStep(base, Recovery(base, probes)[k - 1], probes[k])
<1> DEFINE n == Len(probes)
           r == Recovery(base, probes)
<1>1. \E g : IsRecovery(g, base, probes, n)
  BY RecoveryExists
<1>2. r = CHOOSE g : IsRecovery(g, base, probes, n)
  BY Zenon DEF Recovery, IsRecovery
<1>3. IsRecovery(r, base, probes, n)
  BY <1>1, <1>2, Zenon
<1> HIDE DEF r
<1>4. r[k] = IF k = 0 THEN RecoveryStart(base) ELSE RecoveryStep(base, r[k - 1], probes[k])
  BY <1>3, Zenon DEF IsRecovery
<1> QED
  BY <1>4, Zenon DEF r

(* From probe j to probe k every poll told the clock, without a gap.      *)
UnbrokenTo(probes, j, k) ==
    \A n \in j..k : Tells(probes[n]) /\ (n > j => probes[n].at - probes[n - 1].at <= GapLimit)

(* The phase s was seen c times, or at least three times, from j to k.    *)
SeenOnce(probes, j, k, s) == \E a \in j..k : probes[a].status = s
SeenTwice(probes, j, k, s) == \E a, b \in j..k : a < b /\ probes[a].status = s /\ probes[b].status = s
SeenThrice(probes, j, k, s) ==
    \E a, b, c \in j..k :
       a < b /\ b < c /\ probes[a].status = s /\ probes[b].status = s /\ probes[c].status = s
Held(probes, j, k, r) ==
    /\ r.samples >= 1 => SeenOnce(probes, j, k, r.phase)
    /\ r.samples >= 2 => SeenTwice(probes, j, k, r.phase)
    /\ r.samples >= 3 => SeenThrice(probes, j, k, r.phase)

(* From j, the first beyond the stalled clock, to k: where the high-water *)
(* reading is from and, if it advanced twice, what it went beyond.        *)
Progressing(base, probes, j, k, r) ==
    /\ UnbrokenTo(probes, j, k) /\ ClockProgressed(base, probes[j])
    /\ Held(probes, j, k, r)
    /\ \E h \in j..k : /\ r.high = probes[h] /\ r.last = probes[h].at
                       /\ r.advances = 2 => \E m \in j..(h - 1) : ClockProgressed(probes[m], probes[h])

Shows(base, probes, k, r) ==
    /\ r \in Recoveries /\ (r.at = IF k = 0 THEN 0 ELSE probes[k].at)
    /\ Fresh(base, r) \/ \E j \in 1..k : Progressing(base, probes, j, k, r)

\* A sighting more: a run with one more probe of the phase.
LEMMA HeldOnce ==
    ASSUME NEW probes, NEW j \in Nat, NEW k \in Nat, j <= k - 1, NEW s, NEW r, NEW p, p = probes[k],
           Held(probes, j, k - 1, s), s.samples \in Nat, r.phase = s.phase, Sampled(s, r, p)
    PROVE  Held(probes, j, k, r)
<1>1. j..(k - 1) \subseteq j..k /\ k \in j..k /\ \A a \in j..(k - 1) : a < k
  OBVIOUS
<1> DEFINE v == s.phase
<1>2. CASE r.samples = s.samples
  <2>1. SeenOnce(probes, j, k - 1, v) => SeenOnce(probes, j, k, v)
    BY <1>1, Zenon DEF SeenOnce
  <2>2. SeenTwice(probes, j, k - 1, v) => SeenTwice(probes, j, k, v)
    BY <1>1, Zenon DEF SeenTwice
  <2>3. SeenThrice(probes, j, k - 1, v) => SeenThrice(probes, j, k, v)
    BY <1>1, Zenon DEF SeenThrice
  <2> QED
    BY <1>2, <2>1, <2>2, <2>3 DEF Held
<1>3. CASE v = p.status /\ r.samples = s.samples + 1
  <2>1. SeenOnce(probes, j, k, v)
    BY <1>1, <1>3, Zenon DEF SeenOnce
  <2>2. SeenOnce(probes, j, k - 1, v) => SeenTwice(probes, j, k, v)
    BY <1>1, <1>3, Zenon DEF SeenOnce, SeenTwice
  <2>3. SeenTwice(probes, j, k - 1, v) => SeenThrice(probes, j, k, v)
    BY <1>1, <1>3, Zenon DEF SeenTwice, SeenThrice
  <2>4. r.samples >= 2 => s.samples >= 1
    BY <1>3
  <2>5. r.samples >= 3 => s.samples >= 2
    BY <1>3
  <2> QED
    BY <2>1, <2>2, <2>3, <2>4, <2>5, Zenon DEF Held
<1> QED
  BY <1>2, <1>3, Zenon DEF Sampled

\* From a fresh start a telling probe is the first beyond the stalled clock, or
\* leaves the start fresh.
LEMMA FreshMoves ==
    ASSUME NEW base \in Facts, NEW probes, NEW k \in Nat \ {0}, NEW s \in Recoveries, NEW r \in Recoveries,
           NEW p \in Probes, p = probes[k], Fresh(base, s), Tells(p), Moved(s, r, p)
    PROVE  Fresh(base, r) \/ Progressing(base, probes, k, k, r)
<1>1. k..k = {k} /\ k..(k - 1) = {}
  OBVIOUS
<1>2. UnbrokenTo(probes, k, k)
  BY <1>1 DEF UnbrokenTo
<1>3. s.advances = 0 /\ s.samples = 0 /\ s.phase = "" /\ s.high = base
  BY DEF Fresh
<1>4. CASE Forward(s, r, p)
  <2>1. r.phase = p.status /\ r.samples = 1 /\ r.advances = 0 /\ r.high = p /\ r.last = p.at
        /\ ForwardPhase(base.status, p.status)
    BY <1>3, <1>4 DEF Forward
  <2>2. ClockProgressed(base, probes[k])
    BY <2>1 DEF ClockProgressed
  <2>3. Held(probes, k, k, r)
    <3>1. SeenOnce(probes, k, k, r.phase)
      BY <1>1, <2>1, Zenon DEF SeenOnce
    <3>2. ~ (r.samples >= 2) /\ ~ (r.samples >= 3)
      BY <2>1
    <3> QED
      BY <3>1, <3>2, Zenon DEF Held
  <2>4. \E h \in k..k : /\ r.high = probes[h] /\ r.last = probes[h].at
                        /\ r.advances = 2 => \E m \in k..(h - 1) : ClockProgressed(probes[m], probes[h])
    BY <1>1, <2>1
  <2> QED
    BY <1>2, <2>2, <2>3, <2>4 DEF Progressing
<1>5. CASE Backward(s, r)
  BY <1>3, <1>5 DEF Backward, Fresh
<1>6. CASE Onward(s, r, p)
  <2>1. r.samples = 0
    BY <1>3, <1>6, Zenon DEF Onward, Sampled
  <2>2. r.high = p /\ r.last = p.at /\ ClockProgressed(base, probes[k])
    BY <1>3, <1>6 DEF Onward
  <2>3. r.advances # 2
    <3>1. r.advances = 1 \/ s.advances > 0
      BY <1>6, Zenon DEF Onward
    <3>2. s.advances = 0
      BY <1>3
    <3> QED
      BY <3>1, <3>2
  <2>4. Held(probes, k, k, r)
    BY <2>1 DEF Held
  <2>5. \E h \in k..k : /\ r.high = probes[h] /\ r.last = probes[h].at
                        /\ r.advances = 2 => \E m \in k..(h - 1) : ClockProgressed(probes[m], probes[h])
    BY <1>1, <2>2, <2>3
  <2> QED
    BY <1>2, <2>2, <2>4, <2>5 DEF Progressing
<1>7. CASE Still(s, r, p)
  BY <1>3, <1>7, Zenon DEF Still, Sampled, Fresh
<1> QED
  BY <1>4, <1>5, <1>6, <1>7 DEF Moved

\* Once beyond the stalled clock, a telling probe without a gap adds to the run.
LEMMA ProgressMoves ==
    ASSUME NEW base \in Facts, NEW probes, NEW k \in Nat, NEW j \in 1..(k - 1),
           NEW s \in Recoveries, NEW r \in Recoveries, NEW p \in Probes, p = probes[k],
           Progressing(base, probes, j, k - 1, s),
           Tells(p), p.at - probes[k - 1].at <= GapLimit, Moved(s, r, p)
    PROVE  Progressing(base, probes, j, k, r)
<1>1. /\ j \in Nat /\ k - 1 \in Nat /\ j <= k - 1 /\ j # k /\ k \in j..k
      /\ \A n \in j..k : n = k \/ n \in j..(k - 1)
      /\ \A n \in j..(k - 1) : n \in j..k
  OBVIOUS
<1>2. UnbrokenTo(probes, j, k)
  <2> SUFFICES ASSUME NEW n \in j..k
               PROVE  Tells(probes[n]) /\ (n > j => probes[n].at - probes[n - 1].at <= GapLimit)
    BY DEF UnbrokenTo
  <2>1. CASE n = k
    BY <2>1
  <2>2. CASE n \in j..(k - 1)
    BY <2>2 DEF Progressing, UnbrokenTo
  <2> QED
    BY <1>1, <2>1, <2>2
<1>3. ClockProgressed(base, probes[j]) /\ Held(probes, j, k - 1, s) /\ s.samples \in Nat
  BY DEF Progressing, Recoveries
<1>4. PICK h \in j..(k - 1) :
        /\ s.high = probes[h] /\ s.last = probes[h].at
        /\ s.advances = 2 => \E m \in j..(h - 1) : ClockProgressed(probes[m], probes[h])
  BY DEF Progressing
<1>5. h \in j..k /\ h \in j..(k - 1)
  BY <1>1
<1>6. CASE Forward(s, r, p)
  <2>1. r.phase = p.status /\ r.samples = 1 /\ r.advances = 0 /\ r.high = p /\ r.last = p.at
    BY <1>6 DEF Forward
  <2>2. Held(probes, j, k, r)
    <3>1. SeenOnce(probes, j, k, r.phase)
      BY <1>1, <2>1, Zenon DEF SeenOnce
    <3>2. ~ (r.samples >= 2) /\ ~ (r.samples >= 3)
      BY <2>1
    <3> QED
      BY <3>1, <3>2, Zenon DEF Held
  <2>3. r.high = probes[k] /\ r.last = probes[k].at /\ r.advances # 2
    BY <2>1
  <2> QED
    BY <1>1, <1>2, <1>3, <2>2, <2>3, Zenon DEF Progressing
<1>7. CASE Backward(s, r)
  <2>1. r.samples = 0 /\ r.advances # 2 /\ r.high = probes[h] /\ r.last = probes[h].at
    <3>1. r.samples = 0 /\ r.advances = 0 /\ r.high = s.high /\ r.last = s.last
      BY <1>7, Zenon DEF Backward
    <3>2. s.high = probes[h] /\ s.last = probes[h].at
      BY <1>4, Zenon
    <3> QED
      BY <3>1, <3>2
  <2>2. Held(probes, j, k, r)
    BY <2>1 DEF Held
  <2> QED
    BY <1>2, <1>3, <1>5, <2>1, <2>2, Zenon DEF Progressing
<1>8. CASE Onward(s, r, p)
  <2>1. r.high = probes[k] /\ r.last = probes[k].at /\ ClockProgressed(probes[h], probes[k])
        /\ r.phase = s.phase /\ Sampled(s, r, p)
    BY <1>4, <1>8 DEF Onward
  <2>2. Held(probes, j, k, r)
    BY <1>1, <1>3, <2>1, HeldOnce
  <2> QED
    BY <1>1, <1>2, <1>3, <1>5, <2>1, <2>2, Zenon DEF Progressing
<1>9. CASE Still(s, r, p)
  <2>1. r.high = probes[h] /\ r.last = probes[h].at /\ r.advances = s.advances
        /\ r.phase = s.phase /\ Sampled(s, r, p)
    BY <1>4, <1>9 DEF Still
  <2>2. Held(probes, j, k, r)
    BY <1>1, <1>3, <2>1, HeldOnce
  <2> QED
    BY <1>2, <1>3, <1>4, <1>5, <2>1, <2>2, Zenon DEF Progressing
<1> QED
  BY <1>6, <1>7, <1>8, <1>9 DEF Moved

\* What a recovery knows, the probes it saw show.
LEMMA RecoveryShows ==
    ASSUME NEW base \in Facts, NEW probes \in Seq(Probes), NEW k \in 0..Len(probes)
    PROVE  Shows(base, probes, k, Recovery(base, probes)[k])
<1> DEFINE n == Len(probes)
           R == Recovery(base, probes)
           T == {i \in 0..n : ~ Shows(base, probes, i, R[i])}
<1>1. n \in Nat
  BY LenProperties
<1>2. \A i \in 0..n : R[i] = IF i = 0 THEN RecoveryStart(base) ELSE RecoveryStep(base, R[i - 1], probes[i])
  BY <1>1, RecoveryFollows
<1>3. ASSUME T # {} PROVE FALSE
  <2>1. T \subseteq Nat
    BY <1>1
  <2>2. PICK i \in T : \A j \in T : ~ (<<j, i>> \in OpToRel(<, Nat))
    BY <1>3, <2>1, NatLessThanWellFounded, WFMin
  <2>3. i \in 0..n /\ i \in Nat /\ ~ Shows(base, probes, i, R[i])
    BY <2>1, <2>2
  <2> HIDE DEF R
  <2>4. CASE i = 0
    <3>1. R[i] = RecoveryStart(base)
      BY <1>2, <2>3, <2>4
    <3> QED
      BY <2>3, <2>4, <3>1, RecoveryStarts DEF Shows
  <2>5. CASE i # 0
    <3> DEFINE s == R[i - 1]
               r == R[i]
               p == probes[i]
    <3>1. i - 1 \in 0..n /\ i - 1 \in Nat /\ i - 1 < i /\ i \in 1..n /\ i \in Nat \ {0}
      BY <1>1, <2>3, <2>5
    <3>2. i - 1 \notin T
      <4> HIDE DEF T
      <4> QED
        BY <2>2, <2>3, <3>1 DEF OpToRel
    <3>3. Shows(base, probes, i - 1, s)
      BY <3>1, <3>2
    <3>4. r = RecoveryStep(base, s, p)
      BY <1>2, <2>3, <2>5
    <3>5. p \in Probes
      BY <3>1, ElementOfSeq
    <3>6. p.at \in Nat \ {0}
      BY <3>5 DEF Probes
    <3> HIDE DEF s, r, T
    <3>7. /\ r \in Recoveries /\ r.at = p.at
          /\ \/ Fresh(base, r)
             \/ /\ Tells(p) /\ (s.at = 0 \/ p.at - s.at <= GapLimit)
                /\ Moved(s, r, p)
             \/ \E t \in Recoveries : Tells(p) /\ Fresh(base, t) /\ Moved(t, r, p)
      <4>1. s \in Recoveries
        BY <3>3 DEF Shows
      <4> HIDE DEF p
      <4> QED
        BY <3>4, <3>5, <4>1, RecoveryStepIs
    <3>8. Fresh(base, r) \/ \E j \in 1..i : Progressing(base, probes, j, i, r)
      <4>1. CASE \E t \in Recoveries : Tells(p) /\ Fresh(base, t) /\ Moved(t, r, p)
        <5>1. Fresh(base, r) \/ Progressing(base, probes, i, i, r)
          BY <3>1, <3>5, <3>7, <4>1, FreshMoves
        <5>2. i \in 1..i
          BY <3>1
        <5> QED
          BY <5>1, <5>2
      <4>2. CASE Tells(p) /\ (s.at = 0 \/ p.at - s.at <= GapLimit) /\ Moved(s, r, p)
        <5>1. CASE Fresh(base, s)
          BY <3>3, <4>1, <4>2, <5>1 DEF Shows
        <5>2. ASSUME NEW j \in 1..(i - 1), Progressing(base, probes, j, i - 1, s)
              PROVE  Progressing(base, probes, j, i, r) /\ j \in 1..i
          <6>1. i - 1 # 0 /\ j \in 1..i /\ i - 1 \in 1..n
            BY <3>1
          <6>2. probes[i - 1] \in Probes
            BY <6>1, ElementOfSeq
          <6>3. s.at = probes[i - 1].at /\ s.at # 0 /\ s \in Recoveries
            BY <3>3, <6>1, <6>2 DEF Shows, Probes
          <6>4. p.at - probes[i - 1].at <= GapLimit
            BY <4>2, <6>3
          <6> QED
            BY <2>3, <3>5, <3>7, <4>2, <5>2, <6>1, <6>3, <6>4, ProgressMoves
        <5> QED
          BY <3>3, <5>1, <5>2, Zenon DEF Shows
      <4> QED
        BY <3>7, <4>1, <4>2
    <3>9. Shows(base, probes, i, r)
      BY <2>5, <3>7, <3>8 DEF Shows
    <3> QED
      BY <2>3, <3>9 DEF r
  <2> QED
    BY <2>4, <2>5
<1>4. k \notin T
  BY <1>3
<1> QED
  BY <1>4

\* A recovery is repeated progress or a phase that held (health_recovery.go:27).
LEMMA RecoveryIsProgress ==
    ASSUME NEW base \in Facts, NEW probes \in Seq(Probes), FreshnessRecovered(base, probes)
    PROVE  /\ Len(probes) > 0 /\ Tells(probes[Len(probes)])
           /\ RepeatedProgress(base, probes) \/ PhaseHeld(base, probes)
<1> DEFINE n == Len(probes)
           r == Recovery(base, probes)[n]
<1>1. n \in Nat /\ DOMAIN probes = 1..n
  BY LenProperties
<1>2. Shows(base, probes, n, r)
  BY <1>1, RecoveryShows
<1>3. IF r.samples >= 3 THEN TRUE ELSE r.advances >= 2 /\ r.at - r.last < InteriorStale
  BY Zenon DEF FreshnessRecovered
<1> HIDE DEF r
<1>4. r \in Recoveries /\ r.samples \in Nat /\ r.advances \in 0..2
  BY <1>2 DEF Shows, Recoveries
<1>5. ~ Fresh(base, r)
  <2>1. Fresh(base, r) => r.samples = 0 /\ r.advances = 0
    BY Zenon DEF Fresh
  <2>2. ~ (r.samples = 0 /\ r.advances = 0)
    BY <1>3
  <2> QED
    BY <2>1, <2>2
<1>6. PICK j \in 1..n : Progressing(base, probes, j, n, r)
  BY <1>2, <1>5 DEF Shows
<1>7. n > 0 /\ n \in j..n /\ r.at = probes[n].at
  BY <1>1, <1>2, <1>6 DEF Shows
<1>8. UnbrokenTo(probes, j, n) /\ ClockProgressed(base, probes[j])
  BY <1>6 DEF Progressing
<1>9. Unbroken(probes, j)
  BY <1>8, Zenon DEF UnbrokenTo, Unbroken
<1>10. Tells(probes[n])
  BY <1>7, <1>8 DEF UnbrokenTo
<1>11. CASE r.samples >= 3
  <2>1. SeenThrice(probes, j, n, r.phase)
    BY <1>6, <1>11 DEF Progressing, Held
  <2>2. PICK a, b, c \in j..n :
          a < b /\ b < c /\ probes[a].status = r.phase /\ probes[b].status = r.phase /\ probes[c].status = r.phase
    BY <2>1 DEF SeenThrice
  <2>3. {j, a, b, c} \subseteq DOMAIN probes /\ j <= a /\ a < b /\ b < c
    BY <1>1, <2>2
  <2>4. PhaseHeld(base, probes)
    BY <1>8, <1>9, <2>2, <2>3, Zenon DEF PhaseHeld
  <2> QED
    BY <1>7, <1>10, <2>4
<1>12. CASE ~ (r.samples >= 3)
  <2>1. r.advances = 2 /\ r.at - r.last < InteriorStale
    BY <1>3, <1>4, <1>12
  <2>2. PICK h \in j..n : r.last = probes[h].at /\ \E m \in j..(h - 1) : ClockProgressed(probes[m], probes[h])
    BY <1>6, <2>1 DEF Progressing
  <2>3. PICK m \in j..(h - 1) : ClockProgressed(probes[m], probes[h])
    BY <2>2
  <2>4. {j, m, h} \subseteq DOMAIN probes /\ j <= m /\ m < h
    BY <1>1, <2>2, <2>3
  <2>5. probes[Len(probes)].at - probes[h].at < InteriorStale
    BY <1>7, <2>1, <2>2
  <2>6. RepeatedProgress(base, probes)
    BY <1>8, <1>9, <2>3, <2>4, <2>5, Zenon DEF RepeatedProgress
  <2> QED
    BY <1>7, <1>10, <2>6
<1> QED
  BY <1>11, <1>12

\* What the last probes show, all of them show.
LEMMA NewestShows ==
    ASSUME NEW base \in Facts, NEW all \in Seq(Probes), NEW n \in Nat \ {0},
           NEW probes, probes = Newest(n, all), Len(probes) > 0
    PROVE  /\ RepeatedProgress(base, probes) => RepeatedProgress(base, all)
           /\ PhaseHeld(base, probes) => PhaseHeld(base, all)
<1> DEFINE d == Len(all) - Len(probes)
<1>1. /\ probes \in Seq(Probes) /\ Len(probes) = (IF Len(all) > n THEN n ELSE Len(all))
      /\ \A k \in 1..Len(probes) : probes[k] = all[Len(all) - Len(probes) + k]
  BY NewestOf
<1>2. Len(probes) \in Nat /\ Len(all) \in Nat /\ DOMAIN probes = 1..Len(probes) /\ DOMAIN all = 1..Len(all)
  BY <1>1, LenProperties
<1>3. d \in Nat /\ Len(all) = d + Len(probes)
  BY <1>1, <1>2
<1>4. \A k \in 1..Len(probes) : probes[k] = all[d + k]
  BY <1>1
<1> HIDE DEF d
<1>5. ASSUME NEW j \in DOMAIN probes
      PROVE  d + j \in DOMAIN all /\ (Unbroken(probes, j) => Unbroken(all, d + j))
  <2>1. d + j \in DOMAIN all /\ j \in Nat /\ j >= 1
    BY <1>2, <1>3
  <2>2. ASSUME Unbroken(probes, j), NEW k \in (d + j)..Len(all)
        PROVE  Tells(all[k]) /\ (k > d + j => all[k].at - all[k - 1].at <= GapLimit)
    <3> DEFINE i == k - d
    <3>1. i \in j..Len(probes) /\ i \in 1..Len(probes) /\ k = d + i /\ i \in Nat
      BY <1>2, <1>3, <2>1
    <3> HIDE DEF i
    <3>2. all[k] = probes[i]
      BY <1>4, <3>1
    <3>3. Tells(probes[i]) /\ (i > j => probes[i].at - probes[i - 1].at <= GapLimit)
      BY <2>2, <3>1 DEF Unbroken
    <3>4. CASE k > d + j
      <4>1. i > j /\ i - 1 \in 1..Len(probes) /\ k - 1 = d + (i - 1)
        BY <1>2, <1>3, <2>1, <3>1, <3>4
      <4>2. all[k - 1] = probes[i - 1]
        BY <1>4, <4>1
      <4> QED
        BY <3>2, <3>3, <4>1, <4>2
    <3> QED
      BY <3>2, <3>3, <3>4
  <2> QED
    BY <2>1, <2>2 DEF Unbroken
<1>6. \A j \in DOMAIN probes : probes[j] = all[d + j]
  BY <1>2, <1>4
<1>7. probes[Len(probes)] = all[Len(all)]
  BY <1>2, <1>3, <1>4
<1>8. \A a \in DOMAIN probes, b \in DOMAIN probes :
        (a <= b => d + a <= d + b) /\ (a < b => d + a < d + b)
  BY <1>2, <1>3
<1>9. ASSUME RepeatedProgress(base, probes) PROVE RepeatedProgress(base, all)
  <2>1. PICK j, m, k \in DOMAIN probes :
        /\ j <= m /\ m < k /\ Unbroken(probes, j)
        /\ ClockProgressed(base, probes[j]) /\ ClockProgressed(probes[m], probes[k])
        /\ probes[Len(probes)].at - probes[k].at < InteriorStale
    BY <1>9 DEF RepeatedProgress
  <2>2. {d + j, d + m, d + k} \subseteq DOMAIN all /\ d + j <= d + m /\ d + m < d + k /\ Unbroken(all, d + j)
    BY <1>5, <1>8, <2>1
  <2>3. /\ ClockProgressed(base, all[d + j]) /\ ClockProgressed(all[d + m], all[d + k])
        /\ all[Len(all)].at - all[d + k].at < InteriorStale
    BY <1>6, <1>7, <2>1
  <2> QED
    BY <2>2, <2>3 DEF RepeatedProgress
<1>10. ASSUME PhaseHeld(base, probes) PROVE PhaseHeld(base, all)
  <2>1. PICK j, m, k, l \in DOMAIN probes :
        /\ j <= m /\ m < k /\ k < l /\ Unbroken(probes, j)
        /\ ClockProgressed(base, probes[j])
        /\ probes[m].status = probes[k].status /\ probes[k].status = probes[l].status
    BY <1>10 DEF PhaseHeld
  <2>2. /\ {d + j, d + m, d + k, d + l} \subseteq DOMAIN all /\ Unbroken(all, d + j)
        /\ d + j <= d + m /\ d + m < d + k /\ d + k < d + l
    BY <1>5, <1>8, <2>1
  <2>3. /\ ClockProgressed(base, all[d + j])
        /\ all[d + m].status = all[d + k].status /\ all[d + k].status = all[d + l].status
    BY <1>6, <2>1
  <2> QED
    BY <2>2, <2>3 DEF PhaseHeld
<1> QED
  BY <1>9, <1>10

(* No incident of a stalled clock that began with i is left. *)
Gone(i, row) == \A k \in row.incidents : k.cause # "clock_stalled" \/ k.start # i.start
EndProbe(at, o) ==
    [at |-> at, usable |-> o # Down, status |-> o.status, elapsed |-> o.elapsed, extra |-> o.extra]

\* An incident of a stalled clock that is gone had recovered: its probes and the
\* observation that ended it show progress.
LEMMA GoneIsRecovered ==
    ASSUME NEW h \in HealthRows, NEW id \in Nat, NEW at \in Nat, NEW o \in Observations,
           NEW interrupted \in BOOLEAN, NEW base \in Facts, at > h.last, id # h.poll,
           NEW i \in h.incidents, i.cause = "clock_stalled",
           NEW s, s = ObserveFixture(h, id, at, o, interrupted, base),
           Gone(i, s.row), NEW probes, probes = Append(i.probes, EndProbe(at, o))
    PROVE  RepeatedProgress(i.base, probes) \/ PhaseHeld(i.base, probes)
<1> DEFINE p == Probed(i, at, o, interrupted)
           said == IF o = Down THEN NoFacts ELSE o
           probe == [at |-> at, usable |-> o # Down /\ ~ interrupted, status |-> said.status,
                     elapsed |-> said.elapsed, extra |-> said.extra]
           all == Append(i.probes, probe)
<1>1. i \in Incidents /\ h.last \in Nat
  BY DEF HealthRows
<1>2. at \in Nat \ {0}
  BY <1>1
<1>3. i.cause \in ClockCauses /\ i.base \in Facts /\ i.probes \in Seq(Probes)
  BY <1>1 DEF ClockCauses, Incidents
<1>4. p \in Incidents /\ p.cause = i.cause /\ p.start = i.start /\ p.base = i.base
  BY <1>1, <1>2, ProbedIs
<1>5. p.probes = Newest(MaxProbes, all)
  <2>1. p = [i EXCEPT !.probes = Newest(MaxProbes, all)]
    BY <1>3, Zenon DEF Probed
  <2> HIDE DEF p, all
  <2> QED
    BY <1>1, <2>1 DEF Incidents
<1>6. s.row.incidents = RetainedOf(h, at, o, interrupted) \cup OpenedOf(h, at, o, interrupted, base)
  <2> HIDE DEF p, said, probe, all
  <2>1. h \in HealthRows /\ id \in Nat /\ at \in Nat /\ o \in Observations /\ interrupted \in BOOLEAN
        /\ base \in Facts /\ at > h.last /\ id # h.poll /\ s = ObserveFixture(h, id, at, o, interrupted, base)
    OBVIOUS
  <2> QED
    BY ONLY <2>1, RowIs
<1>7. Resolved(p, o)
  <2>1. p \notin s.row.incidents
    BY <1>4 DEF Gone
  <2>2. p \notin RetainedOf(h, at, o, interrupted)
    BY <1>6, <2>1, Zenon
  <2> QED
    BY <2>2, Zenon DEF RetainedOf, ProbedOf
<1> HIDE DEF p
<1>8. FreshnessRecovered(i.base, p.probes)
  BY <1>3, <1>4, <1>7 DEF Resolved
<1>9. said.status \in Statuses /\ said.elapsed \in Nat \cup {Nil} /\ said.extra \in Nat
  <2>1. said \in Facts
    BY FactsAreNotDown DEF Observations
  <2> HIDE DEF said
  <2> QED
    BY <2>1 DEF Facts
<1>10. probe \in Probes /\ all \in Seq(Probes)
  <2> HIDE DEF said
  <2>1. probe \in Probes
    BY <1>2, <1>9 DEF Probes
  <2> HIDE DEF probe
  <2> QED
    BY <1>3, <2>1
<1>11. /\ p.probes \in Seq(Probes) /\ Len(p.probes) > 0 /\ Tells(p.probes[Len(p.probes)])
       /\ RepeatedProgress(i.base, p.probes) \/ PhaseHeld(i.base, p.probes)
  <2>1. p.probes \in Seq(Probes)
    BY <1>4 DEF Incidents
  <2> QED
    BY <1>3, <1>8, <2>1, RecoveryIsProgress
<1>12. MaxProbes \in Nat \ {0}
  BY HealthConstants
<1>13. RepeatedProgress(i.base, all) \/ PhaseHeld(i.base, all)
  <2> HIDE DEF all
  <2> QED
    BY <1>3, <1>5, <1>10, <1>11, <1>12, NewestShows
<1>14. p.probes[Len(p.probes)] = probe
  <2>1. Len(all) = Len(i.probes) + 1 /\ all[Len(i.probes) + 1] = probe /\ Len(i.probes) \in Nat
    <3> HIDE DEF probe
    <3> QED
      BY <1>3, <1>10, AppendProperties, LenProperties
  <2> HIDE DEF all, probe
  <2>2. \A k \in 1..Len(p.probes) : p.probes[k] = all[Len(all) - Len(p.probes) + k]
    <3>1. all \in Seq(Probes)
      BY <1>10
    <3>2. \A k \in 1..Len(Newest(MaxProbes, all)) :
            Newest(MaxProbes, all)[k] = all[Len(all) - Len(Newest(MaxProbes, all)) + k]
      BY ONLY <1>12, <3>1, NewestOf
    <3> QED
      BY <1>5, <3>2
  <2>3. Len(p.probes) \in 1..Len(p.probes) /\ Len(p.probes) \in Nat
    BY <1>11, LenProperties
  <2>4. Len(all) - Len(p.probes) + Len(p.probes) = Len(i.probes) + 1
    BY <2>1, <2>3
  <2> QED
    BY <2>1, <2>2, <2>3, <2>4, Zenon
<1>15. o # Down /\ ~ interrupted
  <2>1. probe.usable
    BY <1>11, <1>14 DEF Tells
  <2> QED
    BY <2>1
<1>16. probes = all
  BY <1>15 DEF EndProbe
<1> QED
  BY <1>13, <1>16

\* StallNeedsProgress (health_recovery.go:27): the restriction of a stalled clock
\* ends only by repeated progress beyond it or a phase beyond it that held.
THEOREM StallNeedsProgressHolds == HealthSpec => StallNeedsProgress
<1> DEFINE probesOf(f, i) ==
             Append(i.probes, [at |-> frozen'[f].last, usable |-> frozen'[f].facts # Down,
                               status |-> frozen'[f].facts.status, elapsed |-> frozen'[f].facts.elapsed,
                               extra |-> frozen'[f].facts.extra])
           Shown == \A f \in Fixtures : \A i \in health[f].incidents :
                      (/\ i.cause = "clock_stalled"
                       /\ \A j \in health'[f].incidents : j.cause # "clock_stalled" \/ j.start # i.start)
                      => LET z == frozen'[f]
                             probes == Append(i.probes, [at |-> z.last, usable |-> z.facts # Down,
                                                         status |-> z.facts.status, elapsed |-> z.facts.elapsed,
                                                         extra |-> z.facts.extra])
                         IN RepeatedProgress(i.base, probes) \/ PhaseHeld(i.base, probes)
<1>1. HealthInv /\ [HealthNext]_healthVars => [Shown]_healthVars
  <2> SUFFICES ASSUME HealthInv, HealthNext, NEW f \in Fixtures, NEW i \in health[f].incidents,
                      i.cause = "clock_stalled",
                      \A j \in health'[f].incidents : j.cause # "clock_stalled" \/ j.start # i.start
               PROVE  RepeatedProgress(i.base, probesOf(f, i)) \/ PhaseHeld(i.base, probesOf(f, i))
    BY Zenon
  <2>1. health' # health
    BY Zenon
  <2>2. PICK id \in DOMAIN polls : /\ polls[id].pc = "collect" /\ Observe(id)
                                   /\ polls[id].final = "none" /\ polls[id].at > provider.last
    BY <2>1, OnlyACommitAssesses
  <2> DEFINE s == Seen(id)[f]
             at == polls[id].at
             o == Usable(id, f)
             down == f \in polls[id].interrupted
  <2>3. /\ id \in Nat /\ at \in Nat /\ o \in Observations /\ down \in BOOLEAN /\ Baseline(f) \in Facts
        /\ health[f] \in HealthRows /\ at > health[f].last /\ id # health[f].poll
        /\ s = ObserveFixture(health[f], id, at, o, down, Baseline(f))
    BY <2>2, CommittedSeen
  <2>4. health'[f] = s.row /\ frozen'[f] = FrozenAfter(frozen[f], o, at, down)
    <3>1. ~ (polls[id].final # "none" \/ at <= provider.last)
      BY <2>2, <2>3 DEF HealthInv, HealthTypeOK, Provider
    <3>2. /\ health' = [g \in Fixtures |-> Seen(id)[g].row]
          /\ frozen' = [g \in Fixtures |->
                          FrozenAfter(frozen[g], Usable(id, g), at, g \in polls[id].interrupted)]
      BY <2>2, <3>1, Zenon DEF Observe
    <3> QED
      BY <3>2, Zenon
  <2>5. frozen'[f].last = at /\ frozen'[f].facts = o
    BY <2>4 DEF FrozenAfter
  <2> DEFINE probes == Append(i.probes, EndProbe(at, o))
  <2>6. probesOf(f, i) = probes
    BY <2>5 DEF EndProbe
  <2>7. Gone(i, s.row)
    BY <2>4 DEF Gone
  <2> HIDE DEF s, at, o, down
  <2>8. probes = Append(i.probes, EndProbe(at, o))
    OBVIOUS
  <2>10. i \in health[f].incidents /\ i.cause = "clock_stalled"
    OBVIOUS
  <2> HIDE DEF probes, probesOf
  <2>9. RepeatedProgress(i.base, probes) \/ PhaseHeld(i.base, probes)
    BY ONLY <2>3, <2>7, <2>8, <2>10, GoneIsRecovered
  <2> QED
    BY <2>6, <2>9
<1> QED
  BY <1>1, HealthInvHolds, PTL DEF HealthSpec, StallNeedsProgress

-----------------------------------------------------------------------------
(* OperatorReplay: what the replay tools keep.                            *)

Replays == Operations \cup Repairs

(* An identity runs only after its row was registered.                    *)
RunsAreRegistered ==
    /\ Registered(Original)
    /\ \A w \in Ids : ~Registered(w) => runs[w].state = None

(* A tool past its preparation works on a registered row; one that is     *)
(* about to prepare a repair was given an allowlist under the ceiling.    *)
ToolsFollowRows ==
    \A t \in Operators :
        /\ tools[t].pc = "prepare" => tools[t].id \in Replays
        /\ tools[t].pc = "prepare" /\ tools[t].id \in Repairs /\ tools[t].allow # {} =>
              Cardinality(tools[t].allow) \in 1..MaxCandidatesPerEvent
        /\ tools[t].pc \in {"start", "wait", "read", "verified"} => Registered(tools[t].id)

(* No replay owns a tweet nobody has found.                               *)
AbsentIsNobodys == \A c \in Candidates : candidates[c].class = "absent" => candidates[c].owner = Original

(* A run that has restored drives every pending verdict its row reopened. *)
RunsCoverOwned ==
    \A w \in Replays, c \in Candidates :
        /\ runs[w].state = "running"
        /\ candidates[c].owner = w /\ candidates[c].class = "pending"
        => c \in runs[w].mine

(* A removed event has nothing open and nothing pending.                  *)
RemovedIsSettled ==
    removed => /\ \A w \in Ids : ~Open(w)
               /\ \A c \in Candidates : candidates[c].class # "pending"

(* An event replay is opened after the discovery is over.                 *)
ReplayFollowsDiscovery == \A w \in Operations : Open(w) => checklist[Original].state = "done"

(* What an open repair was given, and who may have taken rows from it.    *)
RepairsKeepSelection ==
    \A w \in Repairs :
        Open(w) => /\ checklist[w].selected >= 1
                   /\ checklist[w].allow # {} =>
                        Cardinality(checklist[w].allow) \in 1..MaxCandidatesPerEvent
                   /\ \A c \in checklist[w].allow : candidates[c].owner \in Repairs

ReplayInv ==
    /\ TypeOK
    /\ RunsAreRegistered
    /\ ToolsFollowRows
    /\ AbsentIsNobodys
    /\ RunsCoverOwned
    /\ RemovedIsSettled
    /\ ReplayFollowsDiscovery
    /\ RepairsKeepSelection
    /\ ClosedIsSettled
    /\ OneEventReplay

-----------------------------------------------------------------------------
(* Type correctness. *)

(* Every subset of the candidates is counted by a number of the row.      *)
LEMMA SubsetsAreCounted ==
    ASSUME NEW S \in SUBSET Candidates
    PROVE  /\ Cardinality(S) \in 0..Cardinality(Candidates)
           /\ S # {} => Cardinality(S) >= 1
           /\ Cardinality(Candidates) \in Nat
  <1>1. IsFiniteSet(S) /\ Cardinality(S) <= Cardinality(Candidates)
    BY ReplayAssumption, FS_Subset
  <1>2. Cardinality(S) \in Nat /\ Cardinality(Candidates) \in Nat
    BY <1>1, ReplayAssumption, FS_CardinalityType
  <1>3. S # {} => Cardinality(S) # 0
    BY <1>1, FS_EmptySet
  <1> QED BY <1>1, <1>2, <1>3

(* The variables are typed in the initial state.                          *)
LEMMA InitTyped == Init => TypeOK
  <1>1. Cardinality(Candidates) \in Nat /\ Original \in Ids
    BY SubsetsAreCounted DEF Ids
  <1>2. 0 \in 0..Cardinality(Candidates) /\ 0 \in 0..MaxFaults
    BY <1>1, ReplayAssumption
  <1>3. NoRow \in ChecklistRow /\ [NoRow EXCEPT !.state = "open", !.mode = "original"] \in ChecklistRow
    BY <1>2 DEF NoRow, ChecklistRow, None
  <1>4. NoRun \in Run /\ [NoRun EXCEPT !.state = "restoring"] \in Run
    BY DEF NoRun, Run, None
  <1>5. Idle \in Tool
    BY <1>1 DEF Idle, Tool, None
  <1>6. [class |-> "absent", owner |-> Original, attached |-> FALSE] \in CandidateRow
    BY <1>1 DEF CandidateRow
  <1> QED BY <1>2, <1>3, <1>4, <1>5, <1>6 DEF Init, TypeOK

(* A registration opens the row of its own identity and no other          *)
(* (event_replay.go:160-181, candidate_replay.go:193-219).                *)
LEMMA RegisteredRow ==
    ASSUME checklist \in [Ids -> ChecklistRow], NEW w \in Ids, NEW mode, NEW allow, NEW S,
           Reopen(w, mode, allow, S)
    PROVE  checklist'[w] = OpenRow(mode, allow, S) /\ \A v \in Ids \ {w} : checklist'[v] = checklist[v]
  BY Zenon DEF Reopen

(* It makes the verdicts it selected pending and its own, and leaves the  *)
(* other candidates alone (event_replay.go:183-212,                       *)
(* candidate_replay.go:258-325).                                          *)
LEMMA ReopenedCandidates ==
    ASSUME candidates \in [Candidates -> CandidateRow], NEW w \in Ids, NEW mode, NEW allow,
           NEW S \in SUBSET Candidates, Reopen(w, mode, allow, S)
    PROVE  /\ candidates' \in [Candidates -> CandidateRow]
           /\ \A c \in S : candidates'[c].owner = w /\ candidates'[c].class = "pending"
           /\ \A c \in Candidates \ S : candidates'[c] = candidates[c]
  <1> DEFINE Row(c) == [candidates[c] EXCEPT !.class = "pending", !.owner = w]
  <1>1. \A c \in Candidates : Row(c) \in CandidateRow /\ Row(c).owner = w /\ Row(c).class = "pending"
    BY DEF CandidateRow
  <1>2. candidates' = [c \in Candidates |-> IF c \in S THEN Row(c) ELSE candidates[c]]
    BY Zenon DEF Reopen
  <1> HIDE DEF Row
  <1> QED BY <1>1, <1>2

(* The variables keep their types in every step of a run, of a tool and of *)
(* the monitor.                                                           *)
LEMMA StepTyped == TypeOK /\ [Next]_vars => TypeOK'
  <1> SUFFICES ASSUME TypeOK, [Next]_vars PROVE TypeOK'
    OBVIOUS
  <1>f. faults < MaxFaults => faults + 1 \in 0..MaxFaults
    BY ReplayAssumption DEF TypeOK
  <1>0. 0 \in 0..Cardinality(Candidates) /\ Original \in Ids /\ Operations \subseteq Ids /\ Repairs \subseteq Ids
    BY SubsetsAreCounted DEF Ids
  <1>n. \A state \in {None, "restoring", "closing", "failed"} : [NoRun EXCEPT !.state = state] \in Run
    BY DEF NoRun, Run, None
  <1>i. Idle \in Tool
    BY <1>0 DEF Idle, Tool, None
  <1> USE DEF TypeOK
  <1>1. ASSUME NEW w \in Ids, RunStep(w)
        PROVE  TypeOK'
    <2>1. CASE Restore(w)
      <3>1. Restored(w) \in Run
        BY DEF Restored, OfClass, Run
      <3> QED BY <2>1, <3>1 DEF Restore
    <2>6. CASE RecordProgress(w)
      <3>1. [checklist[w] EXCEPT !.searched = TRUE] \in ChecklistRow
        BY DEF ChecklistRow
      <3> QED BY <2>6, <3>1 DEF RecordProgress
    <2>2. CASE CloseRow(w)
      <3>1. [checklist[w] EXCEPT !.state = "done"] \in ChecklistRow
        BY DEF ChecklistRow
      <3> QED BY <2>2, <3>1, <1>n DEF CloseRow
    <2>3. CASE Return(w)
      <3>1. [runs[w] EXCEPT !.state = "completed"] \in Run
        BY DEF Run
      <3> QED BY <2>3, <3>1 DEF Return
    <2>4. ASSUME NEW c \in Candidates, SearchTweets(w, c)
          PROVE  TypeOK'
      <3>1. [runs[w] EXCEPT !.seen = @ \cup {c}, !.mine = @ \cup {c}] \in Run
        BY DEF Run
      <3>2. \A class \in {candidates[c].class, "removed", "pending"} :
                [candidates[c] EXCEPT !.class = class] \in CandidateRow
        BY DEF CandidateRow
      <3>3. \E class \in {candidates[c].class, "removed", "pending"} :
                candidates' = [candidates EXCEPT ![c].class = class]
        BY <2>4 DEF SearchTweets
      <3> QED BY <2>4, <3>1, <3>2, <3>3 DEF SearchTweets
    <2>5. ASSUME NEW c \in Candidates, NEW verdict \in Verdicts, Settle(w, c, verdict)
          PROVE  TypeOK'
      <3>1. [runs[w] EXCEPT !.mine = @ \ {c}] \in Run
        BY DEF Run
      <3>2. candidates[c].attached \in BOOLEAN
        BY DEF CandidateRow
      <3>3. (candidates[c].attached \/ verdict = "accepted") \in BOOLEAN
        OBVIOUS
      <3>4. [candidates[c] EXCEPT !.class = verdict, !.attached = @ \/ verdict = "accepted"] \in CandidateRow
        BY <3>3 DEF CandidateRow
      <3> QED BY <2>5, <3>1, <3>4 DEF Settle
    <2> QED BY <1>1, <2>1, <2>2, <2>3, <2>4, <2>5, <2>6 DEF RunStep
  <1>2. ASSUME NEW w \in Ids, RunFails(w)
        PROVE  TypeOK'
    BY <1>2, <1>f, <1>n DEF RunFails
  <1>3. ASSUME NEW t \in Operators, ToolStep(t)
        PROVE  TypeOK'
    <2> DEFINE w == tools[t].id
    <2>w. w \in Ids /\ tools[t].mode \in Modes \cup {None, "repair"} /\ tools[t].allow \in SUBSET Candidates
      BY DEF Tool
    <2>s. \A pc \in {"idle", "prepare", "start", "wait", "read", "verified"} :
              Step(t, pc) \in [Operators -> Tool]
      <3>1. \A pc \in {"idle", "prepare", "start", "wait", "read", "verified"} :
                [Idle EXCEPT !.pc = pc, !.id = tools[t].id] \in Tool
        BY <1>i, <2>w DEF Tool
      <3> QED BY <3>1 DEF Step
    <2>i. [tools EXCEPT ![t] = Idle] \in [Operators -> Tool]
      BY <1>i
    <2>r. ASSUME NEW allow \in SUBSET Candidates, NEW S \in SUBSET Candidates,
                 NEW mode \in Modes \cup {None, "original", "repair"}, Reopen(w, mode, allow, S)
          PROVE  /\ checklist' \in [Ids -> ChecklistRow]
                 /\ candidates' \in [Candidates -> CandidateRow]
      <3>1. OpenRow(mode, allow, S) \in ChecklistRow
        BY SubsetsAreCounted DEF OpenRow, ChecklistRow
      <3>3. checklist' \in [Ids -> ChecklistRow]
        <4>1. checklist' = [checklist EXCEPT ![w] = OpenRow(mode, allow, S)]
          BY <2>r DEF Reopen
        <4> QED BY <2>w, <3>1, <4>1
      <3>4. candidates' \in [Candidates -> CandidateRow]
        BY <2>r, <2>w, ReopenedCandidates
      <3> QED BY <3>3, <3>4
    <2>1. CASE PrepareEventReplay(t)
      <3>0. UNCHANGED <<fixture, removed, runs, faults>>
        BY <2>1 DEF PrepareEventReplay
      <3>1. CASE Refuse(t) \/ AttachTo(t, w)
        BY <2>s, <2>i, <3>0, <3>1 DEF Refuse, AttachTo
      <3>2. CASE Reopen(w, tools[t].mode, {}, RetryCandidates(tools[t].mode)) /\ tools' = Step(t, "start")
        <4>1. RetryCandidates(tools[t].mode) \in SUBSET Candidates
          BY DEF RetryCandidates, TransientReplayPredicate, OfClass
        <4> QED BY <2>s, <2>r, <2>w, <3>0, <3>2, <4>1
      <3> QED BY <2>1, <3>1, <3>2 DEF PrepareEventReplay
    <2>2. CASE PrepareCandidateReplay(t)
      <3>0. UNCHANGED <<fixture, removed, runs, faults>>
        BY <2>2 DEF PrepareCandidateReplay
      <3>1. CASE Refuse(t) \/ AttachTo(t, w)
        BY <2>s, <2>i, <3>0, <3>1 DEF Refuse, AttachTo
      <3>2. CASE Reopen(w, "repair", tools[t].allow, Selected(tools[t].allow)) /\ tools' = Step(t, "start")
        <4>1. Selected(tools[t].allow) \in SUBSET Candidates
          BY DEF Selected, OfClass
        <4> QED BY <2>s, <2>r, <2>w, <3>0, <3>2, <4>1
      <3> QED BY <2>2, <3>1, <3>2 DEF PrepareCandidateReplay
    <2>3. CASE StartWorkflow(t)
      BY <2>3, <2>s, <2>w, <1>n DEF StartWorkflow, Started
    <2>4. CASE WaitForRun(t) \/ ReadResult(t)
      BY <2>4, <2>s, <2>i DEF WaitForRun, ReadResult
    <2> QED BY <1>3, <2>1, <2>2, <2>3, <2>4 DEF ToolStep
  <1>4. ASSUME NEW t \in Operators, StopTool(t)
        PROVE  TypeOK'
    BY <1>4, <1>i, <1>f DEF StopTool
  <1>5. ASSUME NEW t \in Operators, NEW request \in Requests, Invoke(t, request)
        PROVE  TypeOK'
    <2>1. /\ request.id \in Ids /\ request.mode \in Modes \cup {None, "repair"}
          /\ request.allow \in SUBSET Candidates
      <3>1. CASE request \in EventRequests
        BY <1>0, <3>1 DEF EventRequests
      <3>2. CASE request \in RepairRequests
        BY <1>0, <3>2 DEF RepairRequests
      <3> QED BY <3>1, <3>2, ReplayAssumption
    <2>2. [pc |-> "prepare", id |-> request.id, mode |-> request.mode, allow |-> request.allow] \in Tool
      BY <2>1 DEF Tool
    <2>3. tools' \in [Operators -> Tool] /\ UNCHANGED <<fixture, removed, candidates, checklist, runs, faults>>
      BY <1>5, <2>2 DEF Invoke, PlanEventReplay, ListCandidateReplayEvents, Take
    <2> QED BY <2>3
  <1>6. CASE Respawn
    BY <1>6, <1>0, <1>n DEF Respawn, Started
  <1>7. CASE RemoveEvent
    <2>1. \A c \in Candidates : \A class : class = "removed" \/ class = candidates[c].class =>
              [candidates[c] EXCEPT !.class = class] \in CandidateRow
      BY DEF CandidateRow
    <2>2. \A w \in Ids : \A state : state = "done" \/ state = checklist[w].state =>
              [checklist[w] EXCEPT !.state = state] \in ChecklistRow
      BY DEF ChecklistRow
    <2> QED BY <1>7, <2>1, <2>2 DEF RemoveEvent
  <1>8. CASE CompleteFixture
    BY <1>8 DEF CompleteFixture
  <1>9. CASE UNCHANGED vars
    BY <1>9 DEF vars
  <1> QED BY <1>1, <1>2, <1>3, <1>4, <1>5, <1>6, <1>7, <1>8, <1>9 DEF Next

-----------------------------------------------------------------------------
(* Facts about identities and about the steps of a tool. *)

(* The discovery's identity is not one of a replay, and a replay is of one *)
(* tool.                                                                  *)
LEMMA IdentitiesDiffer ==
    /\ Original \in Ids /\ Original \notin Replays /\ Replays \subseteq Ids
    /\ Operations \cap Repairs = {} /\ Ids = {Original} \cup Replays
  BY ReplayAssumption DEF Ids, Replays

(* What a preparation did: it refused, attached to its row, or registered *)
(* its row and reopened verdicts of an event that is not removed          *)
(* (candidate_replay.go:158-325, event_replay.go:130-224).                *)
LEMMA PrepareCases ==
    ASSUME TypeOK, ToolsFollowRows, NEW t \in Operators, PrepareEventReplay(t) \/ PrepareCandidateReplay(t)
    PROVE  /\ tools[t].pc = "prepare" /\ tools[t].id \in Replays
           /\ UNCHANGED <<fixture, removed, runs, faults>>
           /\ \/ Refuse(t)
              \/ Registered(tools[t].id) /\ AttachTo(t, tools[t].id)
              \/ \E mode \in Modes \cup {None, "repair"}, allow \in SUBSET Candidates, S \in SUBSET Candidates :
                    /\ Reopen(tools[t].id, mode, allow, S) /\ tools' = Step(t, "start")
                    /\ ~removed /\ ~Registered(tools[t].id)
                    /\ tools[t].id \in Operations =>
                          checklist[Original].state = "done" /\ \A v \in Ids \ {tools[t].id} : ~Open(v)
                    /\ tools[t].id \in Repairs =>
                          /\ S # {} /\ allow = tools[t].allow
                          /\ allow # {} => S = allow
                    /\ \A c \in S : candidates[c].class # "absent"
  <1>w. /\ tools[t].mode \in Modes \cup {None, "repair"} /\ tools[t].allow \in SUBSET Candidates
    BY DEF TypeOK, Tool
  <1>1. CASE PrepareEventReplay(t)
    <2> DEFINE mode == tools[t].mode
               S == RetryCandidates(mode)
    <2>1. tools[t].id \in Operations /\ tools[t].pc = "prepare" /\ UNCHANGED <<fixture, removed, runs, faults>>
      BY <1>1 DEF PrepareEventReplay
    <2>2. \/ Refuse(t)
          \/ Registered(tools[t].id) /\ AttachTo(t, tools[t].id)
          \/ /\ LoadEventReplayPlan(tools[t].id, mode) /\ ~Registered(tools[t].id)
             /\ Reopen(tools[t].id, mode, {}, S) /\ tools' = Step(t, "start")
      BY <1>1 DEF PrepareEventReplay
    <2>3. S \in SUBSET Candidates /\ \A c \in S : candidates[c].class # "absent"
      BY DEF RetryCandidates, TransientReplayPredicate, OfClass
    <2>4. LoadEventReplayPlan(tools[t].id, mode) =>
              ~removed /\ checklist[Original].state = "done" /\ \A v \in Ids \ {tools[t].id} : ~Open(v)
      BY DEF LoadEventReplayPlan
    <2>5. tools[t].id \in Replays /\ tools[t].id \notin Repairs
      BY <2>1, IdentitiesDiffer DEF Replays
    <2> HIDE DEF S
    <2> QED BY <1>w, <2>1, <2>2, <2>3, <2>4, <2>5
  <1>2. CASE PrepareCandidateReplay(t)
    <2> DEFINE allow == tools[t].allow
               S == Selected(allow)
    <2>1. tools[t].id \in Repairs /\ tools[t].pc = "prepare" /\ UNCHANGED <<fixture, removed, runs, faults>>
      BY <1>2 DEF PrepareCandidateReplay
    <2>2. \/ Refuse(t)
          \/ Registered(tools[t].id) /\ AttachTo(t, tools[t].id)
          \/ /\ ~removed /\ ~Registered(tools[t].id)
             /\ S # {} /\ (allow # {} => S = allow)
             /\ Reopen(tools[t].id, "repair", allow, S) /\ tools' = Step(t, "start")
      BY <1>2 DEF PrepareCandidateReplay
    <2>3. S \in SUBSET Candidates /\ \A c \in S : candidates[c].class # "absent"
      BY DEF Selected, OfClass
    <2>4. tools[t].id \in Replays /\ tools[t].id \notin Operations
      BY <2>1, IdentitiesDiffer DEF Replays
    <2> HIDE DEF S
    <2> QED BY <1>w, <2>1, <2>2, <2>3, <2>4
  <1> QED BY <1>1, <1>2

-----------------------------------------------------------------------------
(* The invariant, group of actions by group of actions. *)

(* The rows the invariant relates to each other.                          *)
RowsInv ==
    /\ RunsAreRegistered
    /\ AbsentIsNobodys
    /\ RunsCoverOwned
    /\ RemovedIsSettled
    /\ ReplayFollowsDiscovery
    /\ RepairsKeepSelection
    /\ OneEventReplay
    /\ \A w \in Replays : checklist[w].state = "done" =>
         \A c \in Candidates : candidates[c].owner = w => candidates[c].class # "pending"

(* A tool that reports success read a closed row.                         *)
VerifiedIsClosed == \A t \in Operators : tools[t].pc = "verified" => checklist[tools[t].id].state = "done"

(* The two halves of ClosedIsSettled are kept apart in the proof.         *)
LEMMA ReplayInvParts == ReplayInv <=> TypeOK /\ ToolsFollowRows /\ RowsInv /\ VerifiedIsClosed
  BY DEF ReplayInv, RowsInv, VerifiedIsClosed, ClosedIsSettled, Replays

(* A step that leaves the event alone keeps what its rows say.            *)
LEMMA RowsUnchanged ==
    ASSUME RowsInv, UNCHANGED <<removed, candidates, checklist, runs>>
    PROVE  RowsInv'
  BY DEF RowsInv, RunsAreRegistered, AbsentIsNobodys, RunsCoverOwned, RemovedIsSettled, ReplayFollowsDiscovery,
         RepairsKeepSelection, OneEventReplay, Registered, Open

(* A step of the Temporal execution of an identity, from its restart to   *)
(* its return, changes nothing but that execution.                        *)
LEMMA RunsOnly ==
    ASSUME TypeOK, RowsInv, NEW w \in Ids, NEW run \in Run, runs' = [runs EXCEPT ![w] = run],
           Registered(w), UNCHANGED <<removed, candidates, checklist>>,
           run.state = "running" => \A c \in Candidates : candidates[c].class = "pending" => c \in run.mine
    PROVE  RowsInv'
  <1> USE DEF RowsInv, TypeOK
  <1>1. RunsAreRegistered'
    BY DEF RunsAreRegistered, Registered
  <1>2. RunsCoverOwned'
    <2> SUFFICES ASSUME NEW v \in Replays, NEW c \in Candidates, runs'[v].state = "running",
                        candidates[c].owner = v, candidates[c].class = "pending"
                 PROVE  c \in runs'[v].mine
      BY DEF RunsCoverOwned
    <2>1. CASE v = w
      BY <2>1
    <2>2. CASE v # w
      BY <2>2, IdentitiesDiffer DEF RunsCoverOwned
    <2> QED BY <2>1, <2>2
  <1>3. AbsentIsNobodys' /\ RemovedIsSettled' /\ ReplayFollowsDiscovery' /\ RepairsKeepSelection' /\ OneEventReplay'
    BY DEF AbsentIsNobodys, RemovedIsSettled, ReplayFollowsDiscovery, RepairsKeepSelection, OneEventReplay, Open
  <1> QED BY <1>1, <1>2, <1>3

(* A search finds a tweet or meets one that has its row already: the row  *)
(* of another run's tweet stays as it is (candidate_repo.go:27-58).       *)
LEMMA SearchKeepsRows ==
    ASSUME TypeOK, RowsInv, NEW w \in Ids, NEW c \in Candidates, SearchTweets(w, c)
    PROVE  RowsInv'
  <1> USE DEF RowsInv, TypeOK
  <1>1. /\ runs' = [runs EXCEPT ![w].seen = @ \cup {c}, ![w].mine = @ \cup {c}] /\ runs[w].state = "running"
        /\ UNCHANGED <<removed, checklist>>
    BY DEF SearchTweets
  <1>2. \A v \in Ids : runs'[v].state = runs[v].state /\ runs[v].mine \subseteq runs'[v].mine
    BY <1>1 DEF Run
  <1>3. /\ \A d \in Candidates : candidates'[d].owner = candidates[d].owner
        /\ \A d \in Candidates : candidates[d].class # "absent" => candidates'[d].class = candidates[d].class
        /\ \A d \in Candidates : candidates[d].class = "absent" =>
              candidates'[d].class = "absent" \/ candidates'[d].class = (IF removed THEN "removed" ELSE "pending")
    BY DEF SearchTweets, CandidateRow
  <1>4. RunsAreRegistered'
    BY <1>1, <1>2 DEF RunsAreRegistered, Registered
  <1>5. AbsentIsNobodys'
    BY <1>3 DEF AbsentIsNobodys
  <1>6. RunsCoverOwned'
    BY <1>2, <1>3, IdentitiesDiffer DEF RunsCoverOwned, AbsentIsNobodys
  <1>7. RemovedIsSettled'
    BY <1>1, <1>3 DEF RemovedIsSettled, Open
  <1>8. ReplayFollowsDiscovery' /\ OneEventReplay'
    BY <1>1 DEF ReplayFollowsDiscovery, OneEventReplay, Open
  <1>9. RepairsKeepSelection'
    <2>1. \A v \in Repairs : checklist[v].allow \subseteq Candidates
      BY IdentitiesDiffer DEF ChecklistRow, Replays
    <2> QED BY <1>1, <1>3, <2>1 DEF RepairsKeepSelection, Open
  <1>10. \A v \in Replays : checklist'[v].state = "done" =>
            \A d \in Candidates : candidates'[d].owner = v => candidates'[d].class # "pending"
    BY <1>1, <1>3, IdentitiesDiffer DEF AbsentIsNobodys
  <1> QED BY <1>4, <1>5, <1>6, <1>7, <1>8, <1>9, <1>10

(* A verdict settles one pending row and leaves its owner                 *)
(* (candidate_repo.go:206-250).                                           *)
LEMMA SettleKeepsRows ==
    ASSUME TypeOK, RowsInv, NEW w \in Ids, NEW c \in Candidates, NEW verdict \in Verdicts, Settle(w, c, verdict)
    PROVE  RowsInv'
  <1> USE DEF RowsInv, TypeOK
  <1>1. runs' = [runs EXCEPT ![w].mine = @ \ {c}] /\ UNCHANGED <<removed, checklist>>
    BY DEF Settle
  <1>2. \A v \in Ids : runs'[v].state = runs[v].state /\ runs[v].mine \ {c} \subseteq runs'[v].mine
    BY <1>1 DEF Run
  <1>3. verdict # "pending" /\ verdict # "absent"
    BY DEF Verdicts
  <1>4. /\ \A d \in Candidates : candidates'[d].owner = candidates[d].owner
        /\ \A d \in Candidates \ {c} : candidates'[d].class = candidates[d].class
        /\ candidates'[c].class = (IF removed THEN candidates[c].class ELSE verdict)
    BY DEF Settle, CandidateRow
  <1>5. RunsAreRegistered'
    BY <1>1, <1>2 DEF RunsAreRegistered, Registered
  <1>6. AbsentIsNobodys'
    BY <1>3, <1>4 DEF AbsentIsNobodys
  <1>7. RunsCoverOwned'
    BY <1>2, <1>3, <1>4, IdentitiesDiffer DEF RunsCoverOwned, RemovedIsSettled
  <1>8. RemovedIsSettled'
    BY <1>1, <1>3, <1>4 DEF RemovedIsSettled, Open
  <1>9. ReplayFollowsDiscovery' /\ OneEventReplay'
    BY <1>1 DEF ReplayFollowsDiscovery, OneEventReplay, Open
  <1>10. RepairsKeepSelection'
    <2>1. \A v \in Repairs : checklist[v].allow \subseteq Candidates
      BY IdentitiesDiffer DEF ChecklistRow, Replays
    <2> QED BY <1>1, <1>4, <2>1 DEF RepairsKeepSelection, Open
  <1>11. \A v \in Replays : checklist'[v].state = "done" =>
            \A d \in Candidates : candidates'[d].owner = v => candidates'[d].class # "pending"
    BY <1>1, <1>3, <1>4
  <1> QED BY <1>5, <1>6, <1>7, <1>8, <1>9, <1>10, <1>11

(* The recorded attempt of a search leaves what the row is: open or done, *)
(* its selection and its mode (discovery/candidates.go:185-265).          *)
LEMMA ProgressKeepsRows ==
    ASSUME TypeOK, RowsInv, NEW w \in Ids, RecordProgress(w)
    PROVE  RowsInv'
  <1> USE DEF RowsInv, TypeOK
  <1>1. UNCHANGED <<removed, candidates, runs>>
    BY DEF RecordProgress
  <1>2. \A v \in Ids : /\ checklist'[v].state = checklist[v].state
                      /\ checklist'[v].allow = checklist[v].allow
                      /\ checklist'[v].selected = checklist[v].selected
    BY DEF RecordProgress, ChecklistRow
  <1>3. \A v \in Ids : Open(v)' = Open(v) /\ Registered(v)' = Registered(v)
    BY <1>2 DEF Open, Registered
  <1>4. RunsAreRegistered' /\ AbsentIsNobodys' /\ RunsCoverOwned' /\ RemovedIsSettled'
    BY <1>1, <1>3, IdentitiesDiffer DEF RunsAreRegistered, AbsentIsNobodys, RunsCoverOwned, RemovedIsSettled
  <1>5. ReplayFollowsDiscovery' /\ OneEventReplay'
    BY <1>2, <1>3, IdentitiesDiffer DEF ReplayFollowsDiscovery, OneEventReplay, Replays
  <1>6. RepairsKeepSelection'
    BY <1>1, <1>2, <1>3, IdentitiesDiffer DEF RepairsKeepSelection, Replays
  <1>7. \A v \in Replays : checklist'[v].state = "done" =>
            \A d \in Candidates : candidates'[d].owner = v => candidates'[d].class # "pending"
    BY <1>1, <1>2, IdentitiesDiffer
  <1> QED BY <1>4, <1>5, <1>6, <1>7

(* A run closes its row when nothing it drives is left, and so none of    *)
(* what its row reopened (event_repo_tracking.go:30-83).                  *)
LEMMA CloseKeepsRows ==
    ASSUME TypeOK, RowsInv, NEW w \in Ids, CloseRow(w)
    PROVE  RowsInv'
  <1> USE DEF RowsInv, TypeOK
  <1>1. /\ runs[w].state = "running" /\ runs[w].mine = {} /\ UNCHANGED <<removed, candidates>>
        /\ runs' = [runs EXCEPT ![w] = [NoRun EXCEPT !.state = "closing"]]
        /\ checklist' = [checklist EXCEPT ![w].state = "done"]
    BY DEF CloseRow
  <1>2. runs'[w].state = "closing" /\ \A v \in Ids \ {w} : runs'[v] = runs[v]
    BY <1>1 DEF NoRun
  <1>3. /\ checklist'[w].state = "done" /\ \A v \in Ids \ {w} : checklist'[v] = checklist[v]
        /\ \A v \in Ids : checklist'[v].allow = checklist[v].allow /\ checklist'[v].selected = checklist[v].selected
    BY <1>1 DEF ChecklistRow
  <1>4. RunsAreRegistered'
    BY <1>2, <1>3, IdentitiesDiffer DEF RunsAreRegistered, Registered, None
  <1>5. AbsentIsNobodys'
    BY <1>1 DEF AbsentIsNobodys
  <1>6. RunsCoverOwned'
    BY <1>1, <1>2, IdentitiesDiffer DEF RunsCoverOwned
  <1>7. \A v \in Ids : Open(v)' => Open(v) /\ v # w
    BY <1>3 DEF Open
  <1>8. RemovedIsSettled'
    BY <1>1, <1>7 DEF RemovedIsSettled
  <1>9. ReplayFollowsDiscovery'
    BY <1>3, <1>7, IdentitiesDiffer DEF ReplayFollowsDiscovery, Replays
  <1>10. OneEventReplay'
    BY <1>7, IdentitiesDiffer DEF OneEventReplay, Replays
  <1>11. RepairsKeepSelection'
    <2>1. Repairs \subseteq Ids
      BY DEF Ids
    <2> QED BY <1>1, <1>3, <1>7, <2>1 DEF RepairsKeepSelection
  <1>12. \A v \in Replays : checklist'[v].state = "done" =>
            \A d \in Candidates : candidates'[d].owner = v => candidates'[d].class # "pending"
    BY <1>1, <1>3, IdentitiesDiffer DEF RunsCoverOwned
  <1> QED BY <1>4, <1>5, <1>6, <1>8, <1>9, <1>10, <1>11, <1>12

(* A preparation registers its row and takes the verdicts it reopens, in  *)
(* one transaction (candidate_replay.go:198-325, event_replay.go:160-224). *)
LEMMA ReopenKeepsRows ==
    ASSUME TypeOK, RowsInv, NEW w \in Replays, NEW mode, NEW allow \in SUBSET Candidates,
           NEW S \in SUBSET Candidates, Reopen(w, mode, allow, S), UNCHANGED <<removed, runs>>,
           ~removed, ~Registered(w), \A c \in S : candidates[c].class # "absent",
           w \in Operations => checklist[Original].state = "done" /\ \A v \in Ids \ {w} : ~Open(v),
           w \in Repairs => S # {} /\ (allow # {} => S = allow /\ Cardinality(allow) \in 1..MaxCandidatesPerEvent)
    PROVE  RowsInv'
  <1> USE DEF RowsInv, TypeOK
  <1>0. w \in Ids /\ w # Original
    BY IdentitiesDiffer
  <1>r. checklist'[w] = OpenRow(mode, allow, S) /\ \A v \in Ids \ {w} : checklist'[v] = checklist[v]
    BY <1>0, RegisteredRow
  <1>1. /\ checklist'[w].state = "open" /\ checklist'[w].allow = allow /\ checklist'[w].selected = Cardinality(S)
        /\ \A v \in Ids \ {w} : checklist'[v] = checklist[v]
    BY <1>r DEF OpenRow
  <1>2. /\ \A c \in S : candidates'[c].owner = w /\ candidates'[c].class = "pending"
        /\ \A c \in Candidates \ S : candidates'[c] = candidates[c]
    BY <1>0, ReopenedCandidates
  <1>3. runs[w].state = None
    BY <1>0 DEF RunsAreRegistered
  <1>4. RunsAreRegistered'
    BY <1>0, <1>1, IdentitiesDiffer DEF RunsAreRegistered, Registered, None
  <1>5. AbsentIsNobodys'
    BY <1>2 DEF AbsentIsNobodys
  <1>6. RunsCoverOwned'
    BY <1>2, <1>3 DEF RunsCoverOwned, None
  <1>7. RemovedIsSettled'
    BY DEF RemovedIsSettled
  <1>8. ReplayFollowsDiscovery'
    BY <1>0, <1>1, IdentitiesDiffer DEF ReplayFollowsDiscovery, Open, Replays
  <1>9. OneEventReplay'
    BY <1>0, <1>1, IdentitiesDiffer DEF OneEventReplay, Open, Replays
  <1>10. RepairsKeepSelection'
    <2> SUFFICES ASSUME NEW v \in Repairs, Open(v)'
                 PROVE  /\ checklist'[v].selected >= 1
                        /\ checklist'[v].allow # {} =>
                              Cardinality(checklist'[v].allow) \in 1..MaxCandidatesPerEvent
                        /\ \A c \in checklist'[v].allow : candidates'[c].owner \in Repairs
      BY DEF RepairsKeepSelection
    <2>1. CASE v = w
      BY <1>1, <1>2, <2>1, SubsetsAreCounted
    <2>2. CASE v # w
      <3>1. v \in Ids /\ checklist'[v] = checklist[v] /\ checklist[v].allow \subseteq Candidates
        BY <1>1, <2>2, IdentitiesDiffer DEF Replays, ChecklistRow
      <3>2. Open(v)
        BY <3>1 DEF Open
      <3>3. w \in Repairs
        BY <2>2, <3>1, <3>2 DEF Replays
      <3>4. \A c \in Candidates : candidates'[c].owner = w \/ candidates'[c].owner = candidates[c].owner
        BY <1>2
      <3> QED BY <3>1, <3>2, <3>3, <3>4 DEF RepairsKeepSelection
    <2> QED BY <2>1, <2>2
  <1>11. \A v \in Replays : checklist'[v].state = "done" =>
            \A d \in Candidates : candidates'[d].owner = v => candidates'[d].class # "pending"
    BY <1>1, <1>2, IdentitiesDiffer
  <1> QED BY <1>4, <1>5, <1>6, <1>7, <1>8, <1>9, <1>10, <1>11

(* A removal closes every row and settles every pending verdict           *)
(* (candidate_repo.go:252-284).                                           *)
LEMMA RemoveKeepsRows ==
    ASSUME TypeOK, RowsInv, RemoveEvent
    PROVE  RowsInv'
  <1> USE DEF RowsInv, TypeOK
  <1>1. /\ UNCHANGED runs
        /\ \A c \in Candidates : /\ candidates'[c].owner = candidates[c].owner
                                 /\ candidates'[c].class = IF candidates[c].class = "pending" THEN "removed"
                                                           ELSE candidates[c].class
    BY DEF RemoveEvent, CandidateRow
  <1>2. \A w \in Ids : /\ checklist'[w].state = (IF checklist[w].state = "open" THEN "done" ELSE checklist[w].state)
    BY DEF RemoveEvent, ChecklistRow
  <1>3. RunsAreRegistered'
    BY <1>1, <1>2, IdentitiesDiffer DEF RunsAreRegistered, Registered, None
  <1>4. AbsentIsNobodys' /\ RunsCoverOwned'
    BY <1>1 DEF AbsentIsNobodys, RunsCoverOwned
  <1>5. \A w \in Ids : ~Open(w)'
    BY <1>2 DEF Open
  <1>6. RemovedIsSettled'
    BY <1>1, <1>5 DEF RemovedIsSettled
  <1>7. ReplayFollowsDiscovery' /\ OneEventReplay' /\ RepairsKeepSelection'
    BY <1>5, IdentitiesDiffer DEF ReplayFollowsDiscovery, OneEventReplay, RepairsKeepSelection, Replays
  <1>8. \A v \in Replays : checklist'[v].state = "done" =>
            \A d \in Candidates : candidates'[d].owner = v => candidates'[d].class # "pending"
    BY <1>1
  <1> QED BY <1>3, <1>4, <1>6, <1>7, <1>8

-----------------------------------------------------------------------------
(* The tools. *)

(* The registration of a replay writes its own row and no other.          *)
LEMMA RowRegistered ==
    ASSUME TypeOK, NEW w \in Ids, NEW mode \in Modes \cup {None, "repair"},
           NEW allow \in SUBSET Candidates, NEW S \in SUBSET Candidates, Reopen(w, mode, allow, S)
    PROVE  checklist'[w].state = "open" /\ \A v \in Ids : v # w => checklist'[v] = checklist[v]
  <1>1. checklist'[w] = OpenRow(mode, allow, S) /\ \A v \in Ids \ {w} : checklist'[v] = checklist[v]
    BY RegisteredRow DEF TypeOK
  <1> QED BY <1>1 DEF OpenRow

(* A row that is registered stays registered and a closed one stays       *)
(* closed: no tool and no run reopens an identity                         *)
(* (event_replay.go:160-224, candidate_replay.go:198-325).                *)
LEMMA RowsOnlyAdvance ==
    ASSUME TypeOK, ToolsFollowRows, [Next]_vars
    PROVE  \A w \in Ids : /\ Registered(w) => Registered(w)'
                          /\ checklist[w].state = "done" => checklist'[w].state = "done"
  <1> USE DEF TypeOK
  <1>1. CASE UNCHANGED checklist
    BY <1>1 DEF Registered
  <1>2. ASSUME NEW w \in Ids, CloseRow(w)
        PROVE  \A v \in Ids : /\ Registered(v) => Registered(v)'
                              /\ checklist[v].state = "done" => checklist'[v].state = "done"
    BY <1>2 DEF CloseRow, Registered, ChecklistRow, None
  <1>6. ASSUME NEW w \in Ids, RecordProgress(w)
        PROVE  \A v \in Ids : /\ Registered(v) => Registered(v)'
                              /\ checklist[v].state = "done" => checklist'[v].state = "done"
    BY <1>6 DEF RecordProgress, Registered, ChecklistRow
  <1>3. CASE RemoveEvent
    <2>1. \A w \in Ids : checklist'[w].state = IF checklist[w].state = "open" THEN "done" ELSE checklist[w].state
      BY <1>3 DEF RemoveEvent, ChecklistRow
    <2> QED BY <2>1 DEF Registered, None
  <1>4. ASSUME NEW t \in Operators, PrepareEventReplay(t) \/ PrepareCandidateReplay(t)
        PROVE  \A v \in Ids : /\ Registered(v) => Registered(v)'
                              /\ checklist[v].state = "done" => checklist'[v].state = "done"
    <2>1. \/ UNCHANGED checklist
          \/ \E mode \in Modes \cup {None, "repair"}, allow, S \in SUBSET Candidates :
                Reopen(tools[t].id, mode, allow, S) /\ ~Registered(tools[t].id)
      BY <1>4, PrepareCases DEF Refuse, AttachTo
    <2>2. CASE UNCHANGED checklist
      BY <2>2 DEF Registered
    <2>i. tools[t].id \in Ids
      BY DEF Tool
    <2>3. (\E mode \in Modes \cup {None, "repair"}, allow, S \in SUBSET Candidates :
                Reopen(tools[t].id, mode, allow, S)) =>
              \A v \in Ids : v # tools[t].id => checklist'[v] = checklist[v]
      BY <2>i, RowRegistered
    <2>4. ~Registered(tools[t].id) => checklist[tools[t].id].state # "done"
      BY DEF Registered, None
    <2> QED BY <2>1, <2>2, <2>3, <2>4 DEF Registered
  <1>5. \/ UNCHANGED checklist
        \/ \E w \in Ids : CloseRow(w) \/ RecordProgress(w)
        \/ RemoveEvent
        \/ \E t \in Operators : PrepareEventReplay(t) \/ PrepareCandidateReplay(t)
    BY DEF Next, vars, RunStep, Restore, Return, SearchTweets, Settle, RunFails, ToolStep, StartWorkflow,
           WaitForRun, ReadResult, StopTool, Invoke, PlanEventReplay, ListCandidateReplayEvents, Respawn,
           CompleteFixture
  <1> QED BY <1>1, <1>2, <1>3, <1>4, <1>5, <1>6

(* One tool moves and the others stay: what it moves to must be right.    *)
LEMMA OneToolMoves ==
    ASSUME TypeOK, ToolsFollowRows, VerifiedIsClosed, [Next]_vars, NEW t \in Operators,
           \A u \in Operators \ {t} : tools'[u] = tools[u],
           tools'[t].pc = "prepare" => tools'[t].id \in Replays,
           tools'[t].pc = "prepare" /\ tools'[t].id \in Repairs /\ tools'[t].allow # {} =>
              Cardinality(tools'[t].allow) \in 1..MaxCandidatesPerEvent,
           tools'[t].pc \in {"start", "wait", "read", "verified"} => checklist'[tools'[t].id].state # None,
           tools'[t].pc = "verified" => checklist'[tools'[t].id].state = "done"
    PROVE  ToolsFollowRows' /\ VerifiedIsClosed'
  <1>1. \A u \in Operators : tools[u].id \in Ids
    BY DEF TypeOK, Tool
  <1>2. \A u \in Operators \ {t} :
            /\ Registered(tools[u].id) => checklist'[tools'[u].id].state # None
            /\ checklist[tools[u].id].state = "done" => checklist'[tools'[u].id].state = "done"
    BY <1>1, RowsOnlyAdvance DEF Registered
  <1>3. VerifiedIsClosed'
    BY <1>2 DEF VerifiedIsClosed
  <1>4. ToolsFollowRows'
    BY <1>2 DEF ToolsFollowRows, Registered
  <1> QED BY <1>3, <1>4

(* A tool starts, waits for and reads only a row that it registered or    *)
(* found, and reports success only for a closed one                       *)
(* (event_replay.go:226-261, candidate_replay.go:342-397).                *)
LEMMA ToolsKept ==
    ASSUME TypeOK, ToolsFollowRows, VerifiedIsClosed, [Next]_vars
    PROVE  ToolsFollowRows' /\ VerifiedIsClosed'
  <1>t. \A t \in Operators : tools[t].id \in Ids
    BY DEF TypeOK, Tool
  <1>i. Idle \in Tool /\ Idle.pc = "idle"
    BY IdentitiesDiffer DEF Idle, Tool, None
  <1>s. ASSUME NEW t \in Operators, NEW pc \in {"start", "wait", "read", "verified"}, tools' = Step(t, pc)
        PROVE  /\ \A u \in Operators \ {t} : tools'[u] = tools[u]
               /\ tools'[t].pc = pc /\ tools'[t].id = tools[t].id
    BY <1>s DEF TypeOK, Step, Idle
  <1>a. ASSUME NEW t \in Operators, NEW pc \in {"start", "wait", "read"}, tools' = Step(t, pc),
               checklist'[tools[t].id].state # None
        PROVE  ToolsFollowRows' /\ VerifiedIsClosed'
    <2>1. /\ \A u \in Operators \ {t} : tools'[u] = tools[u]
          /\ tools'[t].pc = pc /\ tools'[t].id = tools[t].id
      BY <1>a, <1>s
    <2>2. tools'[t].pc # "prepare" /\ tools'[t].pc # "verified"
      BY <2>1
    <2> QED BY <1>a, <2>1, <2>2, OneToolMoves
  <1>b. ASSUME NEW t \in Operators, tools' = [tools EXCEPT ![t] = Idle]
        PROVE  ToolsFollowRows' /\ VerifiedIsClosed'
    <2>1. tools'[t].pc = "idle" /\ \A u \in Operators \ {t} : tools'[u] = tools[u]
      BY <1>b, <1>i DEF TypeOK
    <2> QED BY <2>1, OneToolMoves
  <1>1. CASE UNCHANGED tools
    <2>1. VerifiedIsClosed'
      BY <1>1, <1>t, RowsOnlyAdvance DEF VerifiedIsClosed
    <2>2. \A t \in Operators : Registered(tools[t].id) => Registered(tools[t].id)'
      BY <1>1, <1>t, RowsOnlyAdvance DEF Registered
    <2>3. ToolsFollowRows'
      BY <1>1, <2>2 DEF ToolsFollowRows, Registered
    <2> QED BY <2>1, <2>3
  <1>2. ASSUME NEW t \in Operators, PrepareEventReplay(t) \/ PrepareCandidateReplay(t)
        PROVE  ToolsFollowRows' /\ VerifiedIsClosed'
    <2>1. CASE Refuse(t)
      BY <1>b, <2>1 DEF Refuse
    <2>2. CASE Registered(tools[t].id) /\ AttachTo(t, tools[t].id)
      <3>1. \E pc \in {"start", "read"} : tools' = Step(t, pc)
        BY <2>2 DEF AttachTo
      <3>2. checklist'[tools[t].id].state # None
        BY <2>2 DEF AttachTo, Registered
      <3> QED BY <1>a, <3>1, <3>2
    <2>3. CASE /\ \E mode \in Modes \cup {None, "repair"}, allow, S \in SUBSET Candidates :
                    Reopen(tools[t].id, mode, allow, S)
               /\ tools' = Step(t, "start")
      <3>1. checklist'[tools[t].id].state # None
        BY <1>t, <2>3, RowRegistered DEF None
      <3> QED BY <1>a, <2>3, <3>1
    <2> QED BY <1>2, <2>1, <2>2, <2>3, PrepareCases
  <1>3. ASSUME NEW t \in Operators, StartWorkflow(t)
        PROVE  ToolsFollowRows' /\ VerifiedIsClosed'
    <2>1. checklist'[tools[t].id].state # None
      BY <1>3 DEF StartWorkflow, ToolsFollowRows, Registered
    <2> QED BY <1>3, <1>a, <2>1 DEF StartWorkflow
  <1>4. ASSUME NEW t \in Operators, WaitForRun(t)
        PROVE  ToolsFollowRows' /\ VerifiedIsClosed'
    <2>1. checklist'[tools[t].id].state # None
      BY <1>4 DEF WaitForRun, ToolsFollowRows, Registered
    <2> QED BY <1>4, <1>a, <1>b, <2>1 DEF WaitForRun
  <1>5. ASSUME NEW t \in Operators, ReadResult(t)
        PROVE  ToolsFollowRows' /\ VerifiedIsClosed'
    <2>1. CASE tools' = [tools EXCEPT ![t] = Idle]
      BY <1>b, <2>1
    <2>2. CASE tools' = Step(t, "verified") /\ checklist[tools[t].id].state = "done"
      <3>1. UNCHANGED checklist
        BY <1>5 DEF ReadResult
      <3>2. /\ \A u \in Operators \ {t} : tools'[u] = tools[u]
            /\ tools'[t].pc = "verified" /\ tools'[t].id = tools[t].id
        BY <1>s, <2>2
      <3>3. checklist'[tools'[t].id].state = "done" /\ checklist'[tools'[t].id].state # None
        BY <2>2, <3>1, <3>2 DEF None
      <3> QED BY <3>2, <3>3, OneToolMoves
    <2>3. \/ tools' = [tools EXCEPT ![t] = Idle]
          \/ tools' = Step(t, "verified") /\ checklist[tools[t].id].state = "done"
      BY <1>5 DEF ReadResult, VerifyReplayResult, CheckedReplayResult
    <2> QED BY <2>1, <2>2, <2>3
  <1>6. ASSUME NEW t \in Operators, StopTool(t)
        PROVE  ToolsFollowRows' /\ VerifiedIsClosed'
    BY <1>6, <1>b DEF StopTool
  <1>7. ASSUME NEW t \in Operators, NEW request \in Requests, Invoke(t, request)
        PROVE  ToolsFollowRows' /\ VerifiedIsClosed'
    <2>1. request.id \in Replays
      <3>1. CASE request \in EventRequests
        BY <3>1 DEF EventRequests, Replays
      <3>2. CASE request \in RepairRequests
        BY <3>2 DEF RepairRequests, Replays
      <3> QED BY <3>1, <3>2, ReplayAssumption
    <2>2. /\ tools'[t].pc = "prepare" /\ tools'[t].id = request.id /\ tools'[t].allow = request.allow
          /\ \A u \in Operators \ {t} : tools'[u] = tools[u]
      BY <1>7 DEF Invoke, PlanEventReplay, ListCandidateReplayEvents, Take, TypeOK
    <2>3. request.id \in Repairs /\ request.allow # {} => Cardinality(request.allow) \in 1..MaxCandidatesPerEvent
      BY <1>7, IdentitiesDiffer DEF Invoke, PlanEventReplay, ListCandidateReplayEvents, EligibleCandidates
    <2> QED BY <2>1, <2>2, <2>3, OneToolMoves
  <1>8. \/ UNCHANGED tools
        \/ \E t \in Operators : ToolStep(t) \/ StopTool(t) \/ \E request \in Requests : Invoke(t, request)
    BY DEF Next, vars, RunStep, Restore, RecordProgress, Return, CloseRow, SearchTweets, Settle, RunFails,
           Respawn, RemoveEvent, CompleteFixture
  <1> QED BY <1>1, <1>2, <1>3, <1>4, <1>5, <1>6, <1>7, <1>8 DEF ToolStep

-----------------------------------------------------------------------------
(* The invariant of the specification. *)

(* Every step of a run, of a tool, of the monitor and of a fault keeps    *)
(* what the rows of the event say.                                        *)
LEMMA RowsKept ==
    ASSUME TypeOK, ToolsFollowRows, RowsInv, [Next]_vars
    PROVE  RowsInv'
  <1>n. \A state \in {None, "restoring", "closing", "failed"} :
            [NoRun EXCEPT !.state = state] \in Run /\ [NoRun EXCEPT !.state = state].state = state
    BY DEF NoRun, Run, None
  <1>l. \A w \in Ids : runs[w].state # None => Registered(w)
    BY DEF RowsInv, RunsAreRegistered
  <1>s. ASSUME NEW w \in Ids, Registered(w), runs' = Started(w), UNCHANGED <<removed, candidates, checklist>>
        PROVE  RowsInv'
    <2>1. CASE runs' = runs
      BY <1>s, <2>1, RowsUnchanged
    <2>2. CASE runs' = [runs EXCEPT ![w] = [NoRun EXCEPT !.state = "restoring"]]
      <3>1. /\ [NoRun EXCEPT !.state = "restoring"] \in Run
            /\ [NoRun EXCEPT !.state = "restoring"].state # "running"
        BY <1>n
      <3> QED BY <1>s, <2>2, <3>1, RunsOnly
    <2> QED BY <1>s, <2>1, <2>2 DEF Started
  <1>1. ASSUME NEW w \in Ids, RunStep(w)
        PROVE  RowsInv'
    <2>1. CASE Restore(w)
      <3>1. PICK run \in Run : run = Restored(w)
        BY DEF Restored, OfClass, Run
      <3>2. \A c \in Candidates : candidates[c].class = "pending" => c \in run.mine
        BY <3>1 DEF Restored, OfClass
      <3>3. Registered(w)
        BY <2>1, <1>l DEF Restore, None
      <3>4. runs' = [runs EXCEPT ![w] = run] /\ UNCHANGED <<removed, candidates, checklist>>
        BY <2>1, <3>1 DEF Restore
      <3> QED BY <3>2, <3>3, <3>4, RunsOnly
    <2>2. CASE Return(w)
      <3>1. PICK run \in Run : run = [runs[w] EXCEPT !.state = "completed"]
        BY DEF TypeOK, Run
      <3>2. run.state # "running"
        BY <3>1 DEF TypeOK, Run
      <3>3. Registered(w)
        BY <2>2, <1>l DEF Return, None
      <3>4. runs' = [runs EXCEPT ![w] = run] /\ UNCHANGED <<removed, candidates, checklist>>
        BY <2>2, <3>1 DEF Return, TypeOK
      <3> QED BY <3>2, <3>3, <3>4, RunsOnly
    <2> QED BY <1>1, <2>1, <2>2, ProgressKeepsRows, CloseKeepsRows, SearchKeepsRows, SettleKeepsRows DEF RunStep
  <1>2. ASSUME NEW w \in Ids, RunFails(w)
        PROVE  RowsInv'
    <2>1. /\ [NoRun EXCEPT !.state = "failed"] \in Run
          /\ [NoRun EXCEPT !.state = "failed"].state # "running"
      BY <1>n
    <2>2. Registered(w)
      BY <1>2, <1>l DEF RunFails, Live, None
    <2>3. /\ runs' = [runs EXCEPT ![w] = [NoRun EXCEPT !.state = "failed"]]
          /\ UNCHANGED <<removed, candidates, checklist>>
      BY <1>2 DEF RunFails
    <2> QED BY <2>1, <2>2, <2>3, RunsOnly
  <1>3. ASSUME NEW t \in Operators, PrepareEventReplay(t) \/ PrepareCandidateReplay(t)
        PROVE  RowsInv'
    <2>1. /\ tools[t].pc = "prepare" /\ tools[t].id \in Replays
          /\ UNCHANGED <<fixture, removed, runs, faults>>
      BY <1>3, PrepareCases
    <2>2. CASE Refuse(t) \/ AttachTo(t, tools[t].id)
      BY <2>1, <2>2, RowsUnchanged DEF Refuse, AttachTo
    <2>3. ASSUME NEW mode \in Modes \cup {None, "repair"}, NEW allow \in SUBSET Candidates,
                 NEW S \in SUBSET Candidates,
                 Reopen(tools[t].id, mode, allow, S), ~removed, ~Registered(tools[t].id),
                 tools[t].id \in Operations =>
                    checklist[Original].state = "done" /\ \A v \in Ids \ {tools[t].id} : ~Open(v),
                 tools[t].id \in Repairs => S # {} /\ allow = tools[t].allow /\ (allow # {} => S = allow),
                 \A c \in S : candidates[c].class # "absent"
          PROVE  RowsInv'
      <3>1. PICK w \in Replays : w = tools[t].id
        BY <2>1
      <3>2. /\ Reopen(w, mode, allow, S) /\ ~Registered(w)
            /\ w \in Operations => checklist[Original].state = "done" /\ \A v \in Ids \ {w} : ~Open(v)
            /\ w \in Repairs => S # {} /\ (allow # {} => S = allow)
        BY <2>3, <3>1
      <3>3. w \in Repairs /\ allow # {} => Cardinality(allow) \in 1..MaxCandidatesPerEvent
        BY <2>1, <2>3, <3>1 DEF ToolsFollowRows
      <3> QED BY <2>1, <2>3, <3>2, <3>3, ReopenKeepsRows
    <2> QED BY <1>3, <2>2, <2>3, PrepareCases
  <1>4. ASSUME NEW t \in Operators, StartWorkflow(t)
        PROVE  RowsInv'
    <2>1. PICK w \in Ids : w = tools[t].id
      BY DEF TypeOK, Tool
    <2>2. Registered(w) /\ runs' = Started(w) /\ UNCHANGED <<removed, candidates, checklist>>
      BY <1>4, <2>1 DEF StartWorkflow, ToolsFollowRows
    <2> QED BY <1>s, <2>2
  <1>5. CASE Respawn
    <2>1. Original \in Ids /\ Registered(Original)
      BY IdentitiesDiffer DEF RowsInv, RunsAreRegistered
    <2> QED BY <1>5, <1>s, <2>1 DEF Respawn
  <1>6. CASE UNCHANGED <<removed, candidates, checklist, runs>>
    BY <1>6, RowsUnchanged
  <1>7. \/ \E w \in Ids : RunStep(w) \/ RunFails(w)
        \/ \E t \in Operators : PrepareEventReplay(t) \/ PrepareCandidateReplay(t) \/ StartWorkflow(t)
        \/ Respawn \/ RemoveEvent
        \/ UNCHANGED <<removed, candidates, checklist, runs>>
    BY DEF Next, vars, ToolStep, WaitForRun, ReadResult, StopTool, Invoke, PlanEventReplay,
           ListCandidateReplayEvents, CompleteFixture
  <1> QED BY <1>1, <1>2, <1>3, <1>4, <1>5, <1>6, <1>7, RemoveKeepsRows

(* The invariant holds when the monitor has started the discovery.        *)
LEMMA InitReplayInv == Init => ReplayInv
  <1> SUFFICES ASSUME Init PROVE ReplayInv
    OBVIOUS
  <1>1. TypeOK
    BY InitTyped
  <1>2. /\ checklist[Original].state = "open" /\ \A w \in Replays : checklist[w].state = None
        /\ \A w \in Replays : runs[w].state = None
        /\ \A c \in Candidates : candidates[c].class = "absent" /\ candidates[c].owner = Original
        /\ \A t \in Operators : tools[t].pc = "idle"
        /\ ~removed
    BY IdentitiesDiffer DEF Init, NoRow, NoRun, Idle
  <1>3. RunsAreRegistered
    BY <1>2, IdentitiesDiffer DEF RunsAreRegistered, Registered, None
  <1>4. ToolsFollowRows /\ VerifiedIsClosed
    BY <1>2 DEF ToolsFollowRows, VerifiedIsClosed
  <1>5. AbsentIsNobodys /\ RunsCoverOwned /\ RemovedIsSettled
    BY <1>2 DEF AbsentIsNobodys, RunsCoverOwned, RemovedIsSettled
  <1>6. \A w \in Replays : ~Open(w)
    BY <1>2 DEF Open, None
  <1>7. ReplayFollowsDiscovery /\ RepairsKeepSelection /\ OneEventReplay
    BY <1>6, IdentitiesDiffer DEF ReplayFollowsDiscovery, RepairsKeepSelection, OneEventReplay, Replays
  <1>8. \A w \in Replays : checklist[w].state = "done" =>
           \A c \in Candidates : candidates[c].owner = w => candidates[c].class # "pending"
    BY <1>2
  <1> QED BY <1>1, <1>3, <1>4, <1>5, <1>7, <1>8, ReplayInvParts DEF RowsInv

(* The inductive invariant of the replay tools: runs, rows, verdicts and  *)
(* tools agree however the tools, the runs, the monitor, a removal and    *)
(* the faults interleave.                                                 *)
THEOREM ReplayInvariance == Spec => []ReplayInv
  <1>1. ReplayInv /\ [Next]_vars => ReplayInv'
    <2> SUFFICES ASSUME ReplayInv, [Next]_vars PROVE ReplayInv'
      OBVIOUS
    <2>1. TypeOK /\ ToolsFollowRows /\ RowsInv /\ VerifiedIsClosed
      BY ReplayInvParts
    <2>2. TypeOK' /\ ToolsFollowRows' /\ RowsInv' /\ VerifiedIsClosed'
      BY <2>1, StepTyped, RowsKept, ToolsKept
    <2> QED BY <2>2 DEF ReplayInv, RowsInv, VerifiedIsClosed, ClosedIsSettled, Replays
  <1> QED BY InitReplayInv, <1>1, PTL DEF Spec

(* Rows, runs and tools keep their types.                                 *)
THEOREM ReplayTypes == Spec => []TypeOK
  <1>1. ReplayInv => TypeOK
    BY DEF ReplayInv
  <1> QED BY <1>1, ReplayInvariance, PTL

(* A closed row of a replay leaves nothing it reopened pending, and a tool *)
(* reports success only for a closed row.                                 *)
THEOREM ClosedRowsSettled == Spec => []ClosedIsSettled
  <1>1. ReplayInv => ClosedIsSettled
    BY DEF ReplayInv
  <1> QED BY <1>1, ReplayInvariance, PTL

(* The discovery and the event replays never hold the event together.     *)
THEOREM EventReplaysExclude == Spec => []OneEventReplay
  <1>1. ReplayInv => OneEventReplay
    BY DEF ReplayInv
  <1> QED BY <1>1, ReplayInvariance, PTL

(* An open replay can be carried on by repeating its command, but for the *)
(* four refusals the property names: an open repair or a recorded search  *)
(* stops an event replay, the ceiling or a lost row a repair.             *)
THEOREM OpenRowsResumable == Spec => []OpenIsResumable
  <1>1. ASSUME ReplayInv PROVE OpenIsResumable
    <2>1. ASSUME NEW w \in Operations, Open(w), ~SearchRecorded(w), \A v \in Repairs : ~Open(v)
          PROVE  LoadEventReplayPlan(w, checklist[w].mode)
      <3>1. w \in Ids /\ Registered(w)
        BY <2>1 DEF Ids, Open, Registered, None
      <3>2. ~removed /\ checklist[Original].state = "done"
        BY <1>1, <2>1, <3>1 DEF ReplayInv, RemovedIsSettled, ReplayFollowsDiscovery
      <3>3. \A v \in Ids \ {w} : ~Open(v)
        BY <1>1, <2>1 DEF ReplayInv, OneEventReplay, Ids
      <3> QED BY <2>1, <3>1, <3>2, <3>3 DEF LoadEventReplayPlan, ValidateStoredReplayMetadata
    <2>2. ASSUME NEW w \in Repairs, Open(w), ~GrownPastCeiling(w), ~LostToRepair(w)
          PROVE  CanRepeatRepair(w)
      <3>1. /\ Registered(w) /\ w \in Ids
            /\ checklist[w].allow \in SUBSET Candidates /\ checklist[w].selected \in Nat
        BY <1>1, <2>2, SubsetsAreCounted DEF Ids, Open, Registered, None, ReplayInv, TypeOK, ChecklistRow
      <3>2. \A c \in checklist[w].allow : candidates[c].owner = w
        BY <1>1, <2>2 DEF ReplayInv, RepairsKeepSelection, LostToRepair
      <3>3. VerifyCandidateAllowlist(w, checklist[w].allow)
        BY <3>1, <3>2 DEF VerifyCandidateAllowlist
      <3>4. CASE checklist[w].allow = {}
        <4>1. checklist[w].selected \in 1..MaxCandidatesPerEvent
          BY <1>1, <2>2, <3>1, <3>4, ReplayAssumption DEF ReplayInv, RepairsKeepSelection, GrownPastCeiling
        <4>2. EligibleCandidates(w, checklist[w].allow) = checklist[w].selected
          BY <3>1, <3>4 DEF EligibleCandidates
        <4> QED BY <3>3, <4>1, <4>2 DEF CanRepeatRepair
      <3>5. CASE checklist[w].allow # {}
        <4>1. EligibleCandidates(w, checklist[w].allow) = Cardinality(checklist[w].allow)
          BY <3>5 DEF EligibleCandidates
        <4>2. Cardinality(checklist[w].allow) \in 1..MaxCandidatesPerEvent
          BY <1>1, <2>2, <3>5 DEF ReplayInv, RepairsKeepSelection
        <4> QED BY <3>3, <4>1, <4>2 DEF CanRepeatRepair
      <3> QED BY <3>4, <3>5
    <2> QED BY <2>1, <2>2 DEF OpenIsResumable
  <1> QED BY <1>1, ReplayInvariance, PTL

(* A row never goes back: what a replay or the discovery has closed is not *)
(* reopened under the same identity, and no registration is lost          *)
(* (event_replay.go:160-224, candidate_replay.go:198-325).                *)
THEOREM ClosedStaysClosed ==
    Spec => [][\A w \in Ids : /\ Registered(w) => Registered(w)'
                              /\ checklist[w].state = "done" => checklist'[w].state = "done"]_vars
  <1> DEFINE Advance == \A w \in Ids : /\ Registered(w) => Registered(w)'
                                       /\ checklist[w].state = "done" => checklist'[w].state = "done"
  <1>1. ReplayInv /\ [Next]_vars => [Advance]_vars
    BY RowsOnlyAdvance DEF ReplayInv
  <1> HIDE DEF Advance
  <1>2. Spec => [][Advance]_vars
    BY <1>1, ReplayInvariance, PTL DEF Spec
  <1> QED BY <1>2 DEF Advance

=============================================================================
