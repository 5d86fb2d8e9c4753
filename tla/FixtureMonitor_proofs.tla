------------------------- MODULE FixtureMonitor_proofs -------------------------
(***************************************************************************)
(* Proofs that FixtureMonitor keeps its inductive invariant, for every     *)
(* value of its constants, and the safety properties that follow.          *)
(***************************************************************************)
EXTENDS FixtureMonitor, FiniteSetTheorems, TLAPS

(* The set of polls is finite, so vote sets have a cardinality, and a poll  *)
(* that had not voted adds one to it.                                       *)
LEMMA VoteSets ==
    ASSUME NEW S \in SUBSET Polls
    PROVE  /\ IsFiniteSet(S)
           /\ Cardinality(S) \in Nat
           /\ Cardinality({}) = 0
           /\ \A q \in Polls \ S : Cardinality(S \cup {q}) = Cardinality(S) + 1
<1>1. IsFiniteSet(Polls)
  BY ConstantsAssumption, FS_Interval DEF Polls
<1>2. IsFiniteSet(S)
  BY <1>1, FS_Subset
<1>3. Cardinality(S) \in Nat
  BY <1>2, FS_CardinalityType
<1>4. \A q \in Polls \ S : Cardinality(S \cup {q}) = Cardinality(S) + 1
  BY <1>2, FS_AddElement
<1>5. Cardinality({}) = 0
  BY FS_EmptySet
<1> QED
  BY <1>2, <1>3, <1>4, <1>5

(* The planner builds a well-formed plan from a well-formed snapshot.       *)
LEMMA PlannedType ==
    ASSUME TypeOK, NEW id \in Polls, NEW feed \in Feeds, NEW seen \in Fixtures,
           NEW now \in Times, NEW matched \in SUBSET LiveRows
    PROVE  Planned(id, feed, seen, now, matched) \in Plans
<1> USE ConstantsAssumption
<1>1. LiveRows \subseteq Rows
  BY DEF LiveRows
<1>2. \A n : \A p \in Players : FreshRows(p, n) \subseteq Rows
  BY DEF FreshRows
<1>3. UNION {FreshRows(p, feed.goals[p] - Cardinality(RowsOf(p, matched))) :
             p \in Players} \subseteq Rows
  BY <1>2
<1>4. feed \in FeedType
  OBVIOUS
<1>5. LocalPolicy(feed, seen, matched) \in Policies
  BY <1>4 DEF LocalPolicy, Policies
<1>6. TerminalSince(seen, feed.terminal, id) \in Times
  BY <1>4 DEF TerminalSince, Fixtures, Polls, Times
<1>7. /\ (feed.unknown /\ ~placeholder) \in BOOLEAN
      /\ (~feed.unknown /\ placeholder) \in BOOLEAN
      /\ feed.terminal \in BOOLEAN
  BY <1>4 DEF FeedType
<1>8. seen.lastPolled \in Times
  BY DEF Fixtures
<1>9. {r \in LiveRows \ matched : r[1] \notin feed.held} \in SUBSET Rows
  BY <1>1
<1> QED
  BY <1>1, <1>3, <1>5, <1>6, <1>7, <1>8, <1>9 DEF Planned, Plans

-----------------------------------------------------------------------------
(* Type correctness. *)

LEMMA OffTypes ==
    /\ CollectOff \in CollectAttempts
    /\ ReconcileOff \in ReconcileAttempts
    /\ NoResult \in Results
    /\ NoObservation \in Observations
    /\ PollIdle.removed = {}
BY ConstantsAssumption
   DEF CollectOff, CollectAttempts, ReconcileOff, ReconcileAttempts, NoResult,
       Results, NoObservation, Observations, NoSnapshot, Fixtures, NoPlan, Plans,
       Times, Policies, PollIdle

(* The state is well formed after every step of every handler.              *)
LEMMA TypeStep ==
    ASSUME TypeOK, [Next]_vars
    PROVE  TypeOK'
<1> USE ConstantsAssumption, OffTypes DEF TypeOK
<1>1. ASSUME NEW kickoff \in BOOLEAN, NEW feed \in Feeds \cup {NoFeed},
             StartPoll(kickoff, feed)
      PROVE  TypeOK'
  <2>1. clock < MaxClock /\ clock' = clock + 1
    BY <1>1 DEF StartPoll
  <2>2. clock + 1 \in Polls /\ clock + 1 \in Times /\ 1 \in Tries
    BY <2>1 DEF Times, Polls, Tries
  <2>3. fixture' \in Fixtures
    BY <1>1 DEF StartPoll, Fixtures
  <2>4. CASE UNCHANGED <<poll, collect>>
    BY <1>1, <2>1, <2>2, <2>3, <2>4 DEF StartPoll, events, health, FeedKnown
  <2>5. CASE ~UNCHANGED <<poll, collect>>
    <3>1. /\ poll' = [PollIdle EXCEPT !.phase = "collect", !.id = clock + 1,
                                      !.try = 1, !.feed = feed]
          /\ collect' = [collect EXCEPT ![<<clock + 1, 1>>] =
                            [CollectOff EXCEPT !.pc = "started",
                                               !.fetched = feed # NoFeed]]
      BY <1>1, <2>5 DEF StartPoll
    <3>2. /\ poll' \in PollType
          /\ poll'.id = clock + 1 /\ poll'.try = 1
      <4>1. poll' = [phase |-> "collect", id |-> clock + 1, try |-> 1, feed |-> feed,
                     gen |-> 0, removed |-> {}]
        BY <3>1 DEF PollIdle
      <4>2. 1 \in 0..MaxAttempts
        OBVIOUS
      <4> QED
        BY <2>2, <4>1, <4>2 DEF PollType
    <3>3. [CollectOff EXCEPT !.pc = "started", !.fetched = feed # NoFeed] \in CollectAttempts
      BY DEF CollectOff, CollectAttempts, Times, NoObservation, Observations
    <3>4. collect' \in [Polls \X Tries -> CollectAttempts]
      BY <3>1, <3>3
    <3>5. FeedKnown'
      BY <1>1, <3>1 DEF StartPoll, FeedKnown, PollIdle
    <3> QED
      BY <1>1, <2>1, <2>2, <2>3, <3>2, <3>4, <3>5 DEF StartPoll, events, health
  <2> QED
    BY <2>4, <2>5
<1>2. ASSUME NEW late \in BOOLEAN, RetryCollect(late)
      PROVE  TypeOK'
  <2>1. poll.try + 1 \in 0..MaxAttempts
    BY <1>2 DEF RetryCollect, Tries
  <2>2. collect' \in [Polls \X Tries -> CollectAttempts]
    BY <1>2, ZenonT(40) DEF RetryCollect, CollectAttempts
  <2>3. poll' \in PollType /\ poll'.id \in Polls /\ poll'.try \in Tries
    BY <1>2, <2>1 DEF RetryCollect, PollType
  <2>4. FeedKnown'
    BY <1>2 DEF RetryCollect, FeedKnown, PollType
  <2> QED
    BY <1>2, <2>2, <2>3, <2>4 DEF RetryCollect, events, health
<1>3. ASSUME NEW late \in BOOLEAN, RetryReconcile(late)
      PROVE  TypeOK'
  <2>1. poll.try + 1 \in 0..MaxAttempts
    BY <1>3 DEF RetryReconcile, Tries
  <2>2. [ReconcileOff EXCEPT !.pc = "started", !.feed = poll.feed, !.gen = poll.gen]
           \in ReconcileAttempts
    BY DEF ReconcileOff, ReconcileAttempts, PollType
  <2>3. reconcile' \in [Polls \X Tries -> ReconcileAttempts]
    BY <1>3, <2>2 DEF RetryReconcile
  <2>4. poll' \in PollType /\ poll'.id \in Polls /\ poll'.try \in Tries
    BY <1>3, <2>1 DEF RetryReconcile, PollType
  <2>5. FeedKnown'
    BY <1>3, <2>2 DEF RetryReconcile, FeedKnown, PollType, ReconcileOff
  <2> QED
    BY <1>3, <2>3, <2>4, <2>5 DEF RetryReconcile, events, health
<1>4. ASSUME NEW late \in BOOLEAN, GiveUp(late)
      PROVE  TypeOK'
  <2>1. poll' \in PollType /\ poll'.phase = "idle"
    BY <1>4 DEF GiveUp, PollIdle, PollType, Times
  <2>2. /\ collect' \in [Polls \X Tries -> CollectAttempts]
        /\ reconcile' \in [Polls \X Tries -> ReconcileAttempts]
    BY <1>4 DEF GiveUp
  <2>3. FeedKnown'
    BY <1>4, <2>1 DEF GiveUp, FeedKnown, ReconcileOff
  <2> QED
    BY <1>4, <2>1, <2>2, <2>3 DEF GiveUp, events, health
<1>5. ASSUME NEW a \in Polls \X Tries, HealthComparison(a)
      PROVE  TypeOK'
  <2>1. collect' \in [Polls \X Tries -> CollectAttempts]
    <3>1. fixture.lastPolled \in Times /\ 0 \in Times
      BY DEF Fixtures, Times
    <3>2. PICK usable \in BOOLEAN :
             collect' = [collect EXCEPT ![a] =
                           [@ EXCEPT !.pc = "read", !.usable = usable,
                                     !.base = IF usable THEN fixture.lastPolled ELSE 0]]
      BY <1>5 DEF HealthComparison
    <3>3. [collect[a] EXCEPT !.pc = "read", !.usable = usable,
                             !.base = IF usable THEN fixture.lastPolled ELSE 0]
             \in CollectAttempts
      <4>1. collect[a] \in CollectAttempts
        OBVIOUS
      <4> HIDE DEF TypeOK
      <4> QED
        BY <3>1, <4>1 DEF CollectAttempts
    <3> QED
      BY <3>2, <3>3
  <2> QED
    BY <1>5, <2>1 DEF HealthComparison, events, health, FeedKnown
<1>6. ASSUME NEW a \in Polls \X Tries, NEW pp \in ProviderPolicies,
             NEW fp \in FixturePolicies, Observe(a, pp, fp)
      PROVE  TypeOK'
  <2>1. \A result \in Observations :
           CollectResult(a, result) => collect' \in [Polls \X Tries -> CollectAttempts]
    <3> SUFFICES ASSUME NEW result \in Observations, CollectResult(a, result)
                 PROVE  collect' \in [Polls \X Tries -> CollectAttempts]
      OBVIOUS
    <3>1. [CollectOff EXCEPT !.pc = "committed", !.result = result] \in CollectAttempts
      BY DEF CollectOff, CollectAttempts, Times
    <3> QED
      BY <3>1 DEF CollectResult
  <2>2. \A result \in Observations, at \in Times :
           RecordObservation(a, result, at)
              => /\ collect' \in [Polls \X Tries -> CollectAttempts]
                 /\ observed' \in [Polls -> Observations]
    BY <2>1 DEF RecordObservation
  <2>3. a[1] \in Polls /\ a[1] \in Times
    BY DEF Polls, Times
  <2>4. /\ provider' \in [at : Times, gen : Nat, policy : {"trusted", "positive_only"}]
        /\ fixtureHealth' \in [poll : Times, policy : Policies]
        /\ observed' \in [Polls -> Observations]
        /\ collect' \in [Polls \X Tries -> CollectAttempts]
    <3>1. CASE observed[a[1]].kind # "none"
      BY <1>6, <2>1, <2>3, <3>1 DEF Observe, health
    <3>2. CASE observed[a[1]].kind = "none" /\ a[1] <= provider.at
      <4>1. [kind |-> "ignored", gen |-> provider.gen] \in Observations
        BY DEF Observations
      <4>2. RecordObservation(a, [kind |-> "ignored", gen |-> provider.gen], provider.at)
        BY <1>6, <2>3, <3>2 DEF Observe, Times
      <4> QED
        BY <1>6, <2>2, <2>3, <3>2, <4>1, <4>2 DEF Observe, Times
    <3>3. CASE observed[a[1]].kind = "none" /\ a[1] > provider.at
      <4> DEFINE gen == IF pp = provider.policy THEN provider.gen ELSE provider.gen + 1
      <4>1. gen \in Nat
        OBVIOUS
      <4>2. [kind |-> "observed", gen |-> gen] \in Observations
        BY <4>1 DEF Observations
      <4>3. RecordObservation(a, [kind |-> "observed", gen |-> gen], a[1])
        BY <1>6, <2>3, <3>3 DEF Observe, Times
      <4>4. /\ observed' \in [Polls -> Observations]
            /\ collect' \in [Polls \X Tries -> CollectAttempts]
        BY <2>2, <2>3, <4>2, <4>3
      <4>5. /\ provider' = [at |-> a[1], gen |-> gen, policy |-> pp]
            /\ fixtureHealth' = [poll |-> a[1], policy |-> IF collect[a].usable
                                                           THEN fp ELSE "rejected"]
        BY <1>6, <2>3, <3>3 DEF Observe, Times
      <4> QED
        BY <2>3, <4>1, <4>4, <4>5 DEF Policies
    <3> QED
      BY <2>3, <3>1, <3>2, <3>3 DEF Times, Polls
  <2> QED
    BY <1>6, <2>4 DEF Observe, events, FeedKnown
<1>7. ASSUME CollectReturns
      PROVE  TypeOK'
  <2> DEFINE a == <<poll.id, poll.try>>
  <2>1. collect' \in [Polls \X Tries -> CollectAttempts]
    BY <1>7 DEF CollectReturns
  <2>2. CASE poll.feed # NoFeed /\ collect[a].result.kind = "observed"
    <3>1. a \in Polls \X Tries
      BY <1>7 DEF CollectReturns
    <3>2. collect[a].result.gen \in Nat
      BY <3>1 DEF CollectAttempts, Observations
    <3>3. /\ poll' = [poll EXCEPT !.phase = "reconcile", !.try = 1,
                                   !.gen = collect[a].result.gen]
          /\ reconcile' = [reconcile EXCEPT ![<<poll.id, 1>>] =
                [ReconcileOff EXCEPT !.pc = "started", !.feed = poll.feed,
                                     !.gen = collect[a].result.gen]]
      BY <1>7, <2>2 DEF CollectReturns
    <3>4. poll' \in PollType /\ poll'.id \in Polls /\ poll'.try \in Tries
      <4>1. 1 \in 0..MaxAttempts /\ 1 \in Tries /\ poll.id \in Polls
        BY <3>1 DEF Tries
      <4> QED
        BY <3>2, <3>3, <4>1 DEF PollType
    <3>5. [ReconcileOff EXCEPT !.pc = "started", !.feed = poll.feed,
                               !.gen = collect[a].result.gen] \in ReconcileAttempts
      BY <3>2 DEF ReconcileOff, ReconcileAttempts, PollType
    <3>6. reconcile' \in [Polls \X Tries -> ReconcileAttempts]
      BY <3>3, <3>5
    <3>7. FeedKnown'
      BY <2>2, <3>3 DEF FeedKnown, PollType, ReconcileOff
    <3> QED
      BY <1>7, <2>1, <3>4, <3>6, <3>7 DEF CollectReturns, events, health
  <2>3. CASE ~(poll.feed # NoFeed /\ collect[a].result.kind = "observed")
    BY <1>7, <2>1, <2>3
    DEF CollectReturns, events, health, PollIdle, PollType, Times, FeedKnown
  <2> QED
    BY <2>2, <2>3
<1>8. ASSUME NEW a \in Polls \X Tries, ReadFixture(a)
      PROVE  TypeOK'
  <2>1. [reconcile[a] EXCEPT !.pc = "fixtureRead", !.seen = fixture, !.now = clock]
           \in ReconcileAttempts
    <3>1. reconcile[a] \in ReconcileAttempts /\ fixture \in Fixtures /\ clock \in Times
      OBVIOUS
    <3> HIDE DEF TypeOK
    <3> QED
      BY <3>1 DEF ReconcileAttempts
  <2>2. reconcile' \in [Polls \X Tries -> ReconcileAttempts]
    BY <1>8, <2>1 DEF ReadFixture
  <2>3. FeedKnown'
    BY <1>8 DEF ReadFixture, FeedKnown
  <2> QED
    BY <1>8, <2>2, <2>3 DEF ReadFixture, events, health
<1>9. ASSUME NEW a \in Polls \X Tries, NEW matched \in SUBSET LiveRows,
             PlanMutation(a, matched)
      PROVE  TypeOK'
  <2> DEFINE plan == Planned(a[1], reconcile[a].feed, reconcile[a].seen,
                             reconcile[a].now, matched)
  <2>1. /\ reconcile[a].seen \in Fixtures /\ reconcile[a].now \in Times
        /\ reconcile[a].gen \in Nat /\ reconcile[a].feed \in Feeds \cup {NoFeed}
    BY DEF ReconcileAttempts
  <2>2. reconcile[a].feed \in Feeds
    BY <1>9, <2>1 DEF PlanMutation, FeedKnown
  <2>3. plan \in Plans
    BY <2>1, <2>2, PlannedType DEF TypeOK
  <2>4. [ReconcileOff EXCEPT !.pc = "planned", !.gen = reconcile[a].gen, !.plan = plan]
           \in ReconcileAttempts
    BY <2>1, <2>3 DEF ReconcileOff, ReconcileAttempts
  <2>5. reconcile' \in [Polls \X Tries -> ReconcileAttempts]
    BY <1>9, <2>4 DEF PlanMutation
  <2>6. FeedKnown'
    BY <1>9 DEF PlanMutation, FeedKnown, ReconcileOff
  <2> QED
    BY <1>9, <2>5, <2>6 DEF PlanMutation, events, health
<1>10. ASSUME NEW a \in Polls \X Tries, NEW adopt \in BOOLEAN, ApplyActive(a, adopt)
       PROVE  TypeOK'
  <2>1. \A result \in Results :
           CommitResult(a, result)
              => /\ receipts' \in [Polls -> Results]
                 /\ reconcile' \in [Polls \X Tries -> ReconcileAttempts]
    <3> SUFFICES ASSUME NEW result \in Results, CommitResult(a, result)
                 PROVE  /\ receipts' \in [Polls -> Results]
                        /\ reconcile' \in [Polls \X Tries -> ReconcileAttempts]
      OBVIOUS
    <3>1. [ReconcileOff EXCEPT !.pc = "committed", !.result = result] \in ReconcileAttempts
      BY DEF ReconcileOff, ReconcileAttempts
    <3> QED
      BY <3>1 DEF CommitResult
  <2>0. FeedKnown'
    <3>1. \A b \in Polls \X Tries \ {a} : reconcile'[b] = reconcile[b]
      BY <1>10, ZenonT(40) DEF ApplyActive, CommitResult, CommitPlan
    <3>2. reconcile'[a].pc = "committed"
      <4>1. PICK result : reconcile' = [reconcile EXCEPT ![a] =
                              [ReconcileOff EXCEPT !.pc = "committed", !.result = result]]
        BY <1>10 DEF ApplyActive, CommitResult, CommitPlan
      <4> QED
        BY <4>1 DEF ReconcileOff
    <3> QED
      BY <1>10, <3>1, <3>2 DEF ApplyActive, FeedKnown
  <2>2. CASE receipts[a[1]].kind # "none"
    <3>1. receipts[a[1]] \in Results
      OBVIOUS
    <3>2. [ReconcileOff EXCEPT !.pc = "committed", !.result = receipts[a[1]]]
             \in ReconcileAttempts
      BY <3>1 DEF ReconcileOff, ReconcileAttempts
    <3>3. reconcile' = [reconcile EXCEPT ![a] =
              [ReconcileOff EXCEPT !.pc = "committed", !.result = receipts[a[1]]]]
      BY <1>10, <2>2 DEF ApplyActive
    <3> QED
      BY <1>10, <2>0, <2>2, <3>2, <3>3 DEF ApplyActive, events, health
  <2>3. ASSUME NEW kind \in {"stale", "rejected"},
               CommitResult(a, [NoResult EXCEPT !.kind = kind]),
               UNCHANGED <<fixture, events, checklist>>
        PROVE  TypeOK'
    <3>1. [NoResult EXCEPT !.kind = kind] \in Results
      BY DEF NoResult, Results
    <3> QED
      BY <1>10, <2>0, <2>1, <2>3, <3>1 DEF ApplyActive, events, health
  <2>4. ASSUME NEW policy \in {"trusted", "positive_only"}, CommitPlan(a, policy, adopt)
        PROVE  TypeOK'
    <3> DEFINE plan == reconcile[a].plan
    <3>1. plan \in Plans /\ a[1] \in Polls /\ a[1] \in Times
      BY DEF ReconcileAttempts, Polls, Times
    <3>2. status' \in [Rows -> {"absent", "live", "removed"}]
      BY <2>4 DEF CommitPlan
    <3>3. count' \in [Rows -> 0..Threshold]
      <4> DEFINE absences == IF policy = "trusted" THEN Absent(plan, a[1]) ELSE {}
      <4>1. ASSUME NEW r \in Rows
            PROVE  DebounceCount(plan, a[1], absences, r) \in 0..Threshold
        <5>1. count[r] \in 0..Threshold
          OBVIOUS
        <5> HIDE DEF absences, TypeOK
        <5> QED
          BY <5>1 DEF DebounceCount
      <4>2. count' = [r \in Rows |-> DebounceCount(plan, a[1], absences, r)]
        BY <2>4 DEF CommitPlan
      <4> QED
        BY <4>1, <4>2
    <3>4. triggered' \in [Rows -> BOOLEAN]
      BY <2>4 DEF CommitPlan
    <3>5. votes' \in [Rows -> SUBSET Polls] /\ drops' \in [Rows -> SUBSET Polls]
      BY <2>4, <3>1 DEF CommitPlan
    <3>6. placeholder' \in BOOLEAN
      BY <2>4, <3>1 DEF CommitPlan, Plans
    <3>7. checklist' \in [Rows -> {"none", "open", "done", "event_removed"}]
      BY <2>4 DEF CommitPlan, CommittedChecklist
    <3>8. fixture' \in Fixtures
      <4>1. UpdatedFixture(plan, a[1], policy, adopt) \in Fixtures
        BY <3>1 DEF UpdatedFixture, Fixtures, Plans
      <4>2. [UpdatedFixture(plan, a[1], policy, adopt) EXCEPT !.state = "completed"]
               \in Fixtures
        BY <4>1 DEF Fixtures
      <4> QED
        BY <2>4, <4>1, <4>2 DEF CommitPlan
    <3>9. /\ receipts' \in [Polls -> Results]
          /\ reconcile' \in [Polls \X Tries -> ReconcileAttempts]
      <4>1. BecomesStable(plan, a[1]) \subseteq Rows
        BY <3>1 DEF BecomesStable, Present, Plans
      <4>2. BecomesRemoved(plan, a[1]) \subseteq Rows
        BY <3>1 DEF BecomesRemoved, Absent, Plans
      <4>3. PICK result \in Results : CommitResult(a, result)
        BY <2>4, <4>1, <4>2 DEF CommitPlan, Results
      <4> QED
        BY <2>1, <4>3
    <3> QED
      BY <1>10, <2>0, <3>2, <3>3, <3>4, <3>5, <3>6, <3>7, <3>8, <3>9
      DEF ApplyActive, health
  <2>5. DecideMutation(reconcile[a].plan.local) \in Policies
    BY DEF DecideMutation, RestrictPolicies, Policies
  <2> QED
    BY <1>10, <2>2, <2>3, <2>4, <2>5 DEF ApplyActive, Policies
<1>11. ASSUME NEW a \in Polls \X Tries, NEW spawned \in SUBSET Rows,
              SpawnEvents(a, spawned)
       PROVE  TypeOK'
  <2>1. [reconcile[a] EXCEPT !.pc = "spawned"] \in ReconcileAttempts
    <3>1. reconcile[a] \in ReconcileAttempts
      OBVIOUS
    <3> HIDE DEF TypeOK
    <3> QED
      BY <3>1 DEF ReconcileAttempts
  <2>2. reconcile' \in [Polls \X Tries -> ReconcileAttempts]
    BY <1>11, <2>1 DEF SpawnEvents
  <2>3. FeedKnown'
    BY <1>11 DEF SpawnEvents, FeedKnown, ReconcileOff
  <2> QED
    BY <1>11, <2>2, <2>3 DEF SpawnEvents, events, health
<1>12. ASSUME ReconcileReturns
       PROVE  TypeOK'
  <2> DEFINE a == <<poll.id, poll.try>>
  <2>1. a \in Polls \X Tries
    BY <1>12 DEF ReconcileReturns
  <2>2. reconcile[a].result.removed \in SUBSET Rows
    BY <2>1 DEF ReconcileAttempts, Results
  <2>3. poll' \in PollType /\ poll'.id \in Polls /\ poll'.try \in Tries
    BY <1>12, <2>1, <2>2 DEF ReconcileReturns, PollType
  <2>4. FeedKnown'
    BY <1>12 DEF ReconcileReturns, FeedKnown, ReconcileOff, PollType
  <2> QED
    BY <1>12, <2>3, <2>4 DEF ReconcileReturns, events, health
<1>13. ASSUME NEW cancelled \in SUBSET Rows, NEW done \in SUBSET Rows,
              DestroyRemoved(cancelled, done)
       PROVE  TypeOK'
  <2>1. poll' \in PollType /\ poll'.phase = "idle"
    BY <1>13 DEF DestroyRemoved, PollIdle, PollType, Times
  <2> QED
    BY <1>13, <2>1 DEF DestroyRemoved, events, health, attempts, FeedKnown
<1>14. ASSUME NEW r \in Rows, CompleteDownstream(r)
       PROVE  TypeOK'
  BY <1>14 DEF CompleteDownstream, events, health, attempts, FeedKnown
<1>15. ASSUME NEW r \in Rows, DiscoveryFails(r)
       PROVE  TypeOK'
  BY <1>15 DEF DiscoveryFails, events, health, attempts, FeedKnown
<1>16. ASSUME StartIngest
       PROVE  TypeOK'
  <2>1. clock + 1 \in Times /\ fixture.lastPolled \in Times
    BY <1>16 DEF StartIngest, Polls, Times, Fixtures
  <2> QED
    BY <1>16, <2>1 DEF StartIngest, events, health, attempts, FeedKnown
<1>17. ASSUME NEW terminal \in BOOLEAN, CommitIngest(terminal)
       PROVE  TypeOK'
  <2>1. fixture' \in Fixtures
    <3>1. CASE fixture' = [fixture EXCEPT
                             !.terminal = IF Mode = "enforce" THEN @ \/ terminal ELSE terminal,
                             !.lastPolled = ingest.at]
      <4>1. fixture \in Fixtures /\ ingest.at \in Times
        OBVIOUS
      <4> HIDE DEF TypeOK
      <4> QED
        BY <3>1, <4>1 DEF Fixtures
    <3> QED
      BY <1>17, <3>1 DEF CommitIngest
  <2> QED
    BY <1>17, <2>1 DEF CommitIngest, events, health, attempts, Times, FeedKnown
<1>18. ASSUME UNCHANGED vars
       PROVE  TypeOK'
  BY <1>18 DEF vars, FeedKnown
<1> HIDE DEF TypeOK
<1> QED
  BY <1>1, <1>2, <1>3, <1>4, <1>5, <1>6, <1>7, <1>8, <1>9, <1>10, <1>11, <1>12,
     <1>13, <1>14, <1>15, <1>16, <1>17, <1>18 DEF Next

LEMMA TypeInit == Init => TypeOK
<1> SUFFICES ASSUME Init
             PROVE  TypeOK
  OBVIOUS
<1>1. /\ collect \in [Polls \X Tries -> CollectAttempts]
      /\ reconcile \in [Polls \X Tries -> ReconcileAttempts]
      /\ receipts \in [Polls -> Results]
      /\ observed \in [Polls -> Observations]
  BY OffTypes DEF Init
<1>2. poll \in PollType /\ poll.phase = "idle" /\ FeedKnown
  BY ConstantsAssumption DEF Init, PollIdle, PollType, Times, FeedKnown, ReconcileOff
<1>3. /\ status \in [Rows -> {"absent", "live", "removed"}]
      /\ count \in [Rows -> 0..Threshold]
      /\ triggered \in [Rows -> BOOLEAN]
      /\ votes \in [Rows -> SUBSET Polls]
      /\ drops \in [Rows -> SUBSET Polls]
  BY ConstantsAssumption DEF Init
<1>4. /\ checklist \in [Rows -> {"none", "open", "done", "event_removed"}]
      /\ discovery \in [Rows -> {"none", "running", "failed", "completed"}]
      /\ destroyed \in SUBSET Rows
      /\ placeholder \in BOOLEAN
  BY DEF Init
<1>5. /\ clock \in Times
      /\ fixture \in Fixtures
      /\ provider \in [at : Times, gen : Nat, policy : {"trusted", "positive_only"}]
      /\ fixtureHealth \in [poll : Times, policy : Policies]
      /\ ingest \in [at : Times, base : Times]
  BY ConstantsAssumption DEF Init, Times, Fixtures, Policies
<1> QED
  BY <1>1, <1>2, <1>3, <1>4, <1>5 DEF TypeOK

(* Every reachable state of the monitor is well formed.                     *)
THEOREM TypeCorrect == Spec => []TypeOK
BY TypeInit, TypeStep, PTL DEF Spec
-----------------------------------------------------------------------------
(* The inductive invariant. *)

LEMMA InitInv == Init => IndInv
<1> SUFFICES ASSUME Init
             PROVE  IndInv
  OBVIOUS
<1>1. TypeOK
  BY TypeInit
<1>2. Cardinality({}) = 0
  BY FS_EmptySet
<1>3. /\ VotesBelowBaseline /\ OneVotePerPoll /\ ChecklistMatchesEvent
      /\ ConfirmedByThreePolls /\ CompletedIsSettled /\ EffectsFollowRows
  BY DEF Init, VotesBelowBaseline, OneVotePerPoll, ChecklistMatchesEvent,
         ConfirmedByThreePolls, CompletedIsSettled, EffectsFollowRows
<1>4. CounterMeaning
  BY <1>2 DEF Init, CounterMeaning
<1>5. PlansAreSound /\ ResultsHold
  BY DEF Init, PlansAreSound, ResultsHold, ResultHolds, NoResult, ReconcileOff, PollIdle
<1> QED
  BY <1>1, <1>3, <1>4, <1>5 DEF IndInv

(* Steps that write no event row and no checklist row: the baseline may     *)
(* advance, attempts may start, plan, end or hand over a result.            *)
LEMMA QuietStep ==
    ASSUME IndInv, TypeOK',
           UNCHANGED <<events, checklist>>,
           fixture.lastPolled <= fixture'.lastPolled,
           fixture'.state = "completed" => fixture.state = "completed",
           \A a \in Polls \X Tries :
              \/ reconcile'[a] = reconcile[a]
              \/ /\ \/ reconcile'[a].pc \notin {"fixtureRead", "planned"}
                    \/ PlansAreSound!(a)'
                 /\ ResultHolds(reconcile'[a].result),
           \A p \in Polls : ResultHolds(receipts'[p]),
           \/ poll'.removed \in {{}, poll.removed}
           \/ \E a \in Polls \X Tries : poll'.removed = reconcile[a].result.removed,
           \A r \in Rows : discovery'[r] # "none" => discovery[r] # "none",
           destroyed' \subseteq destroyed \cup poll.removed
    PROVE  IndInv'
<1> USE DEF IndInv
<1>1. /\ status' = status /\ count' = count /\ triggered' = triggered
      /\ votes' = votes /\ drops' = drops /\ placeholder' = placeholder
      /\ checklist' = checklist
  BY DEF events
<1>2. fixture.lastPolled \in Nat /\ fixture'.lastPolled \in Nat
  BY DEF TypeOK, Fixtures, Times
<1>3. VotesBelowBaseline'
  <2> SUFFICES ASSUME NEW r \in Rows, NEW q \in votes[r] \cup drops[r]
               PROVE  q <= fixture'.lastPolled
    BY <1>1 DEF VotesBelowBaseline
  <2>1. q <= fixture.lastPolled /\ q \in Nat
    BY DEF VotesBelowBaseline, TypeOK, Polls
  <2> QED
    BY <1>2, <2>1
<1>4. /\ CounterMeaning' /\ ConfirmedByThreePolls' /\ OneVotePerPoll'
      /\ ChecklistMatchesEvent'
  BY <1>1 DEF CounterMeaning, ConfirmedByThreePolls, OneVotePerPoll, ChecklistMatchesEvent
<1>5. PlansAreSound'
  <2> SUFFICES ASSUME NEW a \in Polls \X Tries,
                      reconcile'[a] = reconcile[a],
                      reconcile[a].pc \in {"fixtureRead", "planned"}
               PROVE  PlansAreSound!(a)'
    <3>1. PlansAreSound' <=> \A a \in Polls \X Tries : PlansAreSound!(a)'
      BY DEF PlansAreSound
    <3> QED
      BY <3>1
  <2>1. /\ reconcile[a].seen.lastPolled \in Nat
        /\ reconcile[a].plan.base \in Nat
    BY DEF TypeOK, ReconcileAttempts, Fixtures, Plans, Times
  <2>2. PlansAreSound!(a)
    BY DEF PlansAreSound
  <2> QED
    BY <1>1, <1>2, <2>1, <2>2
<1>6. ResultsHold'
  BY <1>1 DEF ResultsHold, ResultHolds, NoResult
<1>7. CompletedIsSettled' /\ EffectsFollowRows'
  BY <1>1 DEF CompletedIsSettled, EffectsFollowRows, ResultsHold
<1> QED
  BY <1>3, <1>4, <1>5, <1>6, <1>7

(* The rows a committing plan touches, once its staleness test has passed:  *)
(* the poll has not voted before, the rows it votes on are live, and no row *)
(* is voted on twice.                                                       *)
LEMMA FreshCommit ==
    ASSUME IndInv, NEW a \in Polls \X Tries, reconcile[a].pc = "planned", FreshPlan(a)
    PROVE  LET plan == reconcile[a].plan
               id   == a[1]
           IN /\ id \in Polls /\ id \in Nat
              /\ \A r \in Rows : \A q \in votes[r] \cup drops[r] : q < id
              /\ \A r \in Rows : id \notin votes[r] /\ id \notin drops[r]
              /\ \A r \in plan.insert : r \in Rows /\ status[r] = "absent"
              /\ \A r \in plan.present \cup plan.absent : r \in Rows /\ status[r] = "live"
              /\ plan.present \cap plan.absent = {}
              /\ Present(plan, id) = plan.present
              /\ Absent(plan, id) = plan.absent
<1> DEFINE plan == reconcile[a].plan
           id == a[1]
<1>1. /\ id \in Polls /\ id \in Nat /\ id > fixture.lastPolled
      /\ fixture.lastPolled = plan.base /\ fixture.lastPolled \in Nat
  BY DEF FreshPlan, Polls, IndInv, TypeOK, Fixtures, Times
<1>2. plan \in Plans
  BY DEF IndInv, TypeOK, ReconcileAttempts
<1>3. \A r \in Rows : \A q \in votes[r] \cup drops[r] : q < id
  <2> SUFFICES ASSUME NEW r \in Rows, NEW q \in votes[r] \cup drops[r]
               PROVE  q < id
    OBVIOUS
  <2>1. q \in Nat /\ q <= fixture.lastPolled
    BY DEF IndInv, TypeOK, Polls, VotesBelowBaseline
  <2> QED
    BY <1>1, <2>1
<1>4. \A r \in Rows : id \notin votes[r] /\ id \notin drops[r]
  BY <1>1, <1>3
<1>5. /\ \A r \in plan.insert : r \in Rows /\ status[r] = "absent"
      /\ \A r \in plan.present \cup plan.absent : r \in Rows /\ status[r] = "live"
      /\ plan.present \cap plan.absent = {}
  BY <1>1, <1>2 DEF IndInv, PlansAreSound, Plans
<1>6. Present(plan, id) = plan.present /\ Absent(plan, id) = plan.absent
  BY <1>4, <1>5 DEF Present, Absent
<1> QED
  BY <1>1, <1>3, <1>4, <1>5, <1>6

(* The new values of one row, by what the plan says about it.               *)
LEMMA CommittedRow ==
    ASSUME IndInv, NEW a \in Polls \X Tries, reconcile[a].pc = "planned", FreshPlan(a),
           NEW policy \in {"trusted", "positive_only"}, NEW adopt \in BOOLEAN,
           CommitPlan(a, policy, adopt), NEW r \in Rows
    PROVE  LET plan == reconcile[a].plan
               id   == a[1]
               fresh == r \in plan.insert
               up    == r \in plan.present
               down  == policy = "trusted" /\ r \in plan.absent
           IN /\ fresh => /\ ~up /\ ~down
                          /\ status[r] = "absent" /\ status'[r] = "live" /\ count'[r] = 1
                          /\ votes'[r] = votes[r] \cup {id} /\ drops'[r] = drops[r]
                          /\ triggered'[r] = triggered[r] /\ checklist'[r] = checklist[r]
              /\ up => /\ ~down
                       /\ status[r] = "live" /\ status'[r] = "live"
                       /\ count'[r] = IF count[r] < Threshold THEN count[r] + 1 ELSE Threshold
                       /\ votes'[r] = votes[r] \cup {id} /\ drops'[r] = drops[r]
                       /\ triggered'[r] = (triggered[r] \/ count[r] + 1 >= Threshold)
                       /\ checklist'[r] = IF triggered'[r] /\ ~triggered[r] /\ checklist[r] = "none"
                                          THEN "open" ELSE checklist[r]
              /\ down => /\ status[r] = "live"
                         /\ status'[r] = IF count[r] <= 1 THEN "removed" ELSE "live"
                         /\ count'[r] = IF count[r] > 0 THEN count[r] - 1 ELSE 0
                         /\ votes'[r] = votes[r] /\ drops'[r] = drops[r] \cup {id}
                         /\ triggered'[r] = triggered[r]
                         /\ checklist'[r] = IF count[r] <= 1 /\ checklist[r] = "open"
                                            THEN "event_removed" ELSE checklist[r]
              /\ ~fresh /\ ~up /\ ~down =>
                         /\ status'[r] = status[r] /\ count'[r] = count[r]
                         /\ votes'[r] = votes[r] /\ drops'[r] = drops[r]
                         /\ triggered'[r] = triggered[r] /\ checklist'[r] = checklist[r]
<1> DEFINE plan == reconcile[a].plan
           id == a[1]
           fresh == r \in plan.insert
           up == r \in plan.present
           absences == IF policy = "trusted" THEN Absent(plan, id) ELSE {}
           down == policy = "trusted" /\ r \in plan.absent
           stable == BecomesStable(plan, id)
           removed == IF policy = "trusted" THEN BecomesRemoved(plan, id) ELSE {}
<1>1. /\ \A q \in plan.insert : status[q] = "absent"
      /\ \A q \in plan.present \cup plan.absent : status[q] = "live"
      /\ plan.present \cap plan.absent = {}
      /\ Present(plan, id) = plan.present
      /\ Absent(plan, id) = plan.absent
  BY FreshCommit
<1>2. /\ fresh => ~up /\ ~down
      /\ up => ~down
      /\ r \in absences <=> down
      /\ r \in stable <=> up /\ count[r] + 1 >= Threshold /\ ~triggered[r]
      /\ r \in removed <=> down /\ count[r] <= 1
  BY <1>1 DEF BecomesStable, BecomesRemoved
<1>3. /\ status'[r] = IF fresh THEN "live" ELSE IF r \in removed THEN "removed" ELSE status[r]
      /\ count'[r] = DebounceCount(plan, id, absences, r)
      /\ triggered'[r] = (triggered[r] \/ r \in stable)
      /\ votes'[r] = IF fresh \/ up THEN votes[r] \cup {id} ELSE votes[r]
      /\ drops'[r] = IF r \in absences THEN drops[r] \cup {id} ELSE drops[r]
      /\ checklist'[r] = IF r \in stable /\ checklist[r] = "none" THEN "open"
                         ELSE IF r \in removed /\ checklist[r] = "open" THEN "event_removed"
                         ELSE checklist[r]
  BY DEF CommitPlan, ApplyInserts, CommittedChecklist
<1>4. count'[r] = IF fresh THEN 1
                  ELSE IF up THEN (IF count[r] < Threshold THEN count[r] + 1 ELSE Threshold)
                  ELSE IF down THEN (IF count[r] > 0 THEN count[r] - 1 ELSE 0)
                  ELSE count[r]
  BY <1>1, <1>2, <1>3 DEF DebounceCount, ApplyInserts
<1>5. triggered[r] \in BOOLEAN
  BY DEF IndInv, TypeOK
<1> HIDE DEF absences, stable, removed
<1>6. CASE fresh
  BY <1>1, <1>2, <1>3, <1>4, <1>5, <1>6
<1>7. CASE up
  BY <1>1, <1>2, <1>3, <1>4, <1>5, <1>7
<1>8. CASE down
  BY <1>1, <1>2, <1>3, <1>4, <1>5, <1>8
<1>9. CASE ~fresh /\ ~up /\ ~down
  BY <1>1, <1>2, <1>3, <1>4, <1>5, <1>9
<1> QED
  BY <1>6, <1>7, <1>8, <1>9

(* One row after a commit: what the counter means, how many polls voted and *)
(* what the checklist says survive each of the four cases.                  *)
LEMMA CommittedRowInv ==
    ASSUME IndInv, TypeOK', NEW a \in Polls \X Tries, reconcile[a].pc = "planned",
           FreshPlan(a), NEW policy \in {"trusted", "positive_only"},
           NEW adopt \in BOOLEAN, CommitPlan(a, policy, adopt), NEW r \in Rows
    PROVE  /\ \A q \in votes'[r] \cup drops'[r] : q <= a[1]
           /\ CounterMeaning!(r)'
           /\ ConfirmedByThreePolls!(r)'
           /\ OneVotePerPoll!(r)'
           /\ ChecklistMatchesEvent!(r)'
           /\ status[r] = "removed" => status'[r] = "removed"
           /\ triggered[r] => triggered'[r]
<1> DEFINE plan == reconcile[a].plan
           id == a[1]
           fresh == r \in plan.insert
           up == r \in plan.present
           down == policy = "trusted" /\ r \in plan.absent
           V == Cardinality(votes[r])
           D == Cardinality(drops[r])
<1>1. /\ status[r] \in {"absent", "live", "removed"}
      /\ count[r] \in 0..Threshold /\ triggered[r] \in BOOLEAN
      /\ votes[r] \in SUBSET Polls /\ drops[r] \in SUBSET Polls
      /\ checklist[r] \in {"none", "open", "done", "event_removed"}
      /\ Threshold \in Nat \ {0, 1}
  BY ConstantsAssumption DEF IndInv, TypeOK
<1>2. /\ id \in Polls /\ id \in Nat
      /\ \A q \in votes[r] \cup drops[r] : q < id
      /\ id \notin votes[r] /\ id \notin drops[r]
  BY FreshCommit
<1>3. /\ V \in Nat /\ D \in Nat /\ Cardinality({}) = 0
      /\ Cardinality(votes[r] \cup {id}) = V + 1
      /\ Cardinality(drops[r] \cup {id}) = D + 1
  BY <1>1, <1>2, VoteSets
<1>4. /\ CounterMeaning!(r) /\ ConfirmedByThreePolls!(r)
      /\ OneVotePerPoll!(r) /\ ChecklistMatchesEvent!(r)
  BY DEF IndInv, CounterMeaning, ConfirmedByThreePolls, OneVotePerPoll, ChecklistMatchesEvent
<1>5. \A q \in votes[r] \cup drops[r] : q \in Nat
  BY <1>1 DEF Polls
<1>6. CASE fresh
  <2>1. /\ status[r] = "absent" /\ status'[r] = "live" /\ count'[r] = 1
        /\ votes'[r] = votes[r] \cup {id} /\ drops'[r] = drops[r]
        /\ triggered'[r] = triggered[r] /\ checklist'[r] = checklist[r]
    BY <1>6, CommittedRow
  <2> QED
    BY <1>1, <1>2, <1>3, <1>4, <1>5, <2>1
<1>7. CASE up
  <2>1. /\ status[r] = "live" /\ status'[r] = "live"
        /\ count'[r] = IF count[r] < Threshold THEN count[r] + 1 ELSE Threshold
        /\ votes'[r] = votes[r] \cup {id} /\ drops'[r] = drops[r]
        /\ triggered'[r] = (triggered[r] \/ count[r] + 1 >= Threshold)
        /\ checklist'[r] = IF triggered'[r] /\ ~triggered[r] /\ checklist[r] = "none"
                           THEN "open" ELSE checklist[r]
    BY <1>7, CommittedRow
  <2> QED
    BY <1>1, <1>2, <1>3, <1>4, <1>5, <2>1
<1>8. CASE down
  <2>1. /\ status[r] = "live"
        /\ status'[r] = IF count[r] <= 1 THEN "removed" ELSE "live"
        /\ count'[r] = IF count[r] > 0 THEN count[r] - 1 ELSE 0
        /\ votes'[r] = votes[r] /\ drops'[r] = drops[r] \cup {id}
        /\ triggered'[r] = triggered[r]
        /\ checklist'[r] = IF count[r] <= 1 /\ checklist[r] = "open"
                           THEN "event_removed" ELSE checklist[r]
    BY <1>8, CommittedRow
  <2> QED
    BY <1>1, <1>2, <1>3, <1>4, <1>5, <2>1
<1>9. CASE ~fresh /\ ~up /\ ~down
  <2>1. /\ status'[r] = status[r] /\ count'[r] = count[r]
        /\ votes'[r] = votes[r] /\ drops'[r] = drops[r]
        /\ triggered'[r] = triggered[r] /\ checklist'[r] = checklist[r]
    BY <1>9, CommittedRow
  <2> QED
    BY <1>1, <1>2, <1>3, <1>4, <1>5, <2>1
<1> QED
  BY <1>6, <1>7, <1>8, <1>9

(* The transaction of a fresh plan keeps the whole invariant.  Every other  *)
(* plan is stale from here on: the baseline has moved past its own.         *)
LEMMA CommitStep ==
    ASSUME IndInv, TypeOK', NEW a \in Polls \X Tries, reconcile[a].pc = "planned",
           FreshPlan(a), NEW policy \in {"trusted", "positive_only"},
           NEW adopt \in BOOLEAN, CommitPlan(a, policy, adopt),
           UNCHANGED <<poll, discovery, destroyed>>
    PROVE  IndInv'
<1> DEFINE plan == reconcile[a].plan
           id == a[1]
           removed == IF policy = "trusted" THEN BecomesRemoved(plan, id) ELSE {}
           result == [kind |-> "applied", stable |-> BecomesStable(plan, id),
                      removed |-> removed]
           Held(s) == /\ \A r \in s.stable : triggered'[r]
                      /\ \A r \in s.removed : status'[r] = "removed"
<1>1. /\ id \in Nat /\ fixture.lastPolled \in Nat /\ fixture.lastPolled < id
      /\ fixture.state = "active"
      /\ fixture \in Fixtures
  BY SMTT(30) DEF FreshPlan, IndInv, TypeOK, Fixtures, Times, Polls
<1>2. fixture'.lastPolled = id
  <2>1. \/ fixture' = UpdatedFixture(plan, id, policy, adopt)
        \/ fixture' = [UpdatedFixture(plan, id, policy, adopt) EXCEPT !.state = "completed"]
    BY DEF CommitPlan
  <2> QED
    BY <1>1, <2>1 DEF UpdatedFixture, Fixtures
<1>3. VotesBelowBaseline'
  BY <1>2, CommittedRowInv DEF VotesBelowBaseline
<1>4. CounterMeaning'
  BY CommittedRowInv DEF CounterMeaning
<1>5. ConfirmedByThreePolls' /\ OneVotePerPoll' /\ ChecklistMatchesEvent'
  BY CommittedRowInv DEF ConfirmedByThreePolls, OneVotePerPoll, ChecklistMatchesEvent
<1>6. /\ reconcile' = [reconcile EXCEPT ![a] =
                         [ReconcileOff EXCEPT !.pc = "committed", !.result = result]]
      /\ receipts' = [p \in Polls |-> IF p + Retention < id THEN NoResult
                                      ELSE IF p = id THEN result ELSE receipts[p]]
  BY DEF CommitPlan, CommitResult
<1>7. /\ reconcile \in [Polls \X Tries -> ReconcileAttempts]
      /\ receipts \in [Polls -> Results]
      /\ poll \in PollType
  BY DEF IndInv, TypeOK
<1>8. /\ reconcile'[a].pc = "committed" /\ reconcile'[a].result = result
      /\ \A b \in Polls \X Tries : b # a => reconcile'[b] = reconcile[b]
  BY <1>6, <1>7 DEF ReconcileOff
<1>9. PlansAreSound'
  <2> SUFFICES ASSUME NEW b \in Polls \X Tries, b # a
               PROVE  PlansAreSound!(b)'
    BY <1>8 DEF PlansAreSound
  <2>1. PlansAreSound!(b)
    BY DEF IndInv, PlansAreSound
  <2>2. reconcile'[b] = reconcile[b]
    BY <1>8
  <2>3. reconcile[b].seen.lastPolled \in Nat /\ reconcile[b].plan.base \in Nat
    BY <1>7 DEF ReconcileAttempts, Fixtures, Plans, Times
  <2> QED
    BY <1>1, <1>2, <2>1, <2>2, <2>3
<1>10. Held(result)
  <2>1. \A r \in result.stable : r \in Rows /\ triggered'[r]
    <3>1. \A r \in BecomesStable(plan, id) : r \in Rows
      BY FreshCommit DEF BecomesStable
    <3> QED
      BY <3>1 DEF CommitPlan
  <2>2. \A r \in result.removed : r \in Rows /\ status'[r] = "removed"
    <3> SUFFICES ASSUME NEW r \in removed
                 PROVE  r \in Rows /\ status'[r] = "removed"
      OBVIOUS
    <3>1. r \in plan.absent /\ count[r] <= 1 /\ policy = "trusted"
      BY DEF BecomesRemoved, Absent
    <3>2. r \in Rows
      BY <3>1, FreshCommit
    <3> QED
      BY <3>1, <3>2, CommittedRow
  <2> QED
    BY <2>1, <2>2
<1>11. ResultsHold'
  <2>1. \A s \in Results : ResultHolds(s) => Held(s)
    BY CommittedRowInv DEF ResultHolds, Results
  <2>2. Held(NoResult)
    BY DEF NoResult
  <2>3. \A b \in Polls \X Tries : reconcile[b].result \in Results
    BY <1>7 DEF ReconcileAttempts
  <2> HIDE DEF result, Held
  <2>4. \A p \in Polls : Held(receipts'[p])
    <3> SUFFICES ASSUME NEW p \in Polls
                 PROVE  Held(receipts'[p])
      OBVIOUS
    <3>1. receipts'[p] \in {NoResult, result, receipts[p]}
      BY <1>6
    <3>2. Held(receipts[p])
      BY <1>7, <2>1 DEF IndInv, ResultsHold
    <3> QED
      BY <1>10, <2>2, <3>1, <3>2
  <2>5. \A b \in Polls \X Tries : Held(reconcile'[b].result)
    BY <1>8, <1>10, <2>1, <2>3 DEF IndInv, ResultsHold
  <2>6. \A r \in poll.removed : status'[r] = "removed"
    BY <1>7, CommittedRowInv DEF IndInv, ResultsHold, PollType
  <2> QED
    BY <2>4, <2>5, <2>6 DEF ResultsHold, ResultHolds, Held
<1>12. CompletedIsSettled'
  <2> SUFFICES ASSUME fixture'.state = "completed", NEW r \in Rows
               PROVE  /\ status'[r] = "live" => triggered'[r]
                      /\ checklist'[r] # "open"
    BY DEF CompletedIsSettled
  <2>1. UpdatedFixture(plan, id, policy, adopt).state = "active"
    BY <1>1 DEF UpdatedFixture, Fixtures
  <2>2. CompletionReady(plan, UpdatedFixture(plan, id, policy, adopt), status', count',
                        triggered', checklist')
    BY <2>1 DEF CommitPlan
  <2>3. /\ status'[r] = "live" /\ ~triggered'[r] => count'[r] = 0
        /\ checklist'[r] # "open"
    BY <2>2 DEF CompletionReady
  <2>4. status'[r] = "live" => count'[r] >= 1
    BY <1>4 DEF CounterMeaning
  <2> QED
    BY <2>3, <2>4
<1>13. EffectsFollowRows'
  BY CommittedRowInv DEF IndInv, EffectsFollowRows, TypeOK
<1> QED
  BY <1>3, <1>4, <1>5, <1>9, <1>11, <1>12, <1>13 DEF IndInv

(* A result that claims nothing holds, and so does every result on record.  *)
LEMMA KnownResults ==
    ASSUME IndInv
    PROVE  /\ ResultHolds(NoResult)
           /\ ResultHolds(ReconcileOff.result)
           /\ ResultHolds([NoResult EXCEPT !.kind = "stale"])
           /\ ResultHolds([NoResult EXCEPT !.kind = "rejected"])
           /\ \A p \in Polls : ResultHolds(receipts[p])
           /\ \A a \in Polls \X Tries : ResultHolds(reconcile[a].result)
BY DEF IndInv, ResultsHold, ResultHolds, NoResult, ReconcileOff

(* The same for steps that leave the fixture, the results and the events    *)
(* alone and at most start or end reconcile attempts.                       *)
LEMMA AttemptStep ==
    ASSUME IndInv, TypeOK', UNCHANGED <<fixture, events, checklist, receipts>>,
           \A a \in Polls \X Tries :
              \/ reconcile'[a] = reconcile[a]
              \/ /\ reconcile'[a].pc \notin {"fixtureRead", "planned"}
                 /\ reconcile'[a].result = NoResult,
           poll'.removed \in {{}, poll.removed},
           UNCHANGED <<discovery, destroyed>>
    PROVE  IndInv'
<1>1. fixture.lastPolled <= fixture'.lastPolled
  BY DEF IndInv, TypeOK, Fixtures, Times
<1>2. \A p \in Polls : ResultHolds(receipts'[p])
  BY KnownResults
<1>3. \A a \in Polls \X Tries :
         \/ reconcile'[a] = reconcile[a]
         \/ /\ \/ reconcile'[a].pc \notin {"fixtureRead", "planned"}
               \/ PlansAreSound!(a)'
            /\ ResultHolds(reconcile'[a].result)
  BY KnownResults
<1> QED
  BY <1>1, <1>2, <1>3, QuietStep

(* A plan built from the current event rows fits them as long as the        *)
(* baseline that was read before them stands.                               *)
LEMMA PlanFits ==
    ASSUME IndInv, NEW a \in Polls \X Tries, NEW matched \in SUBSET LiveRows,
           PlanMutation(a, matched), TypeOK'
    PROVE  PlansAreSound!(a)'
<1> DEFINE plan == Planned(a[1], reconcile[a].feed, reconcile[a].seen,
                           reconcile[a].now, matched)
<1>1. reconcile'[a].pc = "planned" /\ reconcile'[a].plan = plan
  BY DEF PlanMutation, IndInv, TypeOK, ReconcileOff
<1>2. plan.base = reconcile[a].seen.lastPolled /\ plan.base <= fixture.lastPolled
  BY DEF PlanMutation, Planned, IndInv, PlansAreSound
<1>3. /\ plan.present = matched
      /\ plan.absent \subseteq LiveRows \ matched
      /\ plan.unknownInsert => ~placeholder
      /\ plan.unknownDelete => placeholder
  BY DEF Planned
<1>4. \A r \in plan.insert : status[r] = "absent"
  <2>1. \A n : \A p \in Players : \A r \in FreshRows(p, n) : status[r] = "absent"
    <3> SUFFICES ASSUME NEW p \in Players, NEW n, NEW r \in FreshRows(p, n)
                 PROVE  status[r] = "absent"
      OBVIOUS
    <3>1. r \in Rows /\ r[1] = p /\ r[2] \in 1..MaxSequence
          /\ \A u \in r[2]..MaxSequence : status[<<p, u>>] = "absent"
      BY DEF FreshRows, AboveHistory, Rows
    <3>2. r[2] \in r[2]..MaxSequence /\ r = <<p, r[2]>>
      BY <3>1, ConstantsAssumption DEF Rows
    <3> QED
      BY <3>1, <3>2
  <2> QED
    BY <2>1 DEF Planned
<1>5. \A r \in plan.present \cup plan.absent : status[r] = "live"
  BY <1>3 DEF LiveRows
<1>6. /\ fixture' = fixture /\ status' = status /\ placeholder' = placeholder
  BY DEF PlanMutation, events
<1> HIDE DEF plan
<1> QED
  BY <1>1, <1>2, <1>3, <1>4, <1>5, <1>6

LEMMA IndStep ==
    ASSUME IndInv, [Next]_vars
    PROVE  IndInv'
<1> USE ConstantsAssumption
<1>0. TypeOK'
  BY TypeStep DEF IndInv
<1>t. /\ reconcile \in [Polls \X Tries -> ReconcileAttempts]
      /\ receipts \in [Polls -> Results]
      /\ fixture \in Fixtures /\ fixture.lastPolled \in Nat
      /\ poll \in PollType
      /\ ReconcileOff.pc = "off" /\ ReconcileOff.result = NoResult
      /\ PollIdle.removed = {}
  BY DEF IndInv, TypeOK, Fixtures, Times, ReconcileOff, PollIdle
<1>1. ASSUME NEW kickoff \in BOOLEAN, NEW feed \in Feeds \cup {NoFeed},
             StartPoll(kickoff, feed)
      PROVE  IndInv'
  <2>1. /\ UNCHANGED <<events, checklist>>
        /\ reconcile' = reconcile /\ receipts' = receipts
        /\ discovery' = discovery /\ destroyed' = destroyed
    BY <1>1 DEF StartPoll
  <2>2. fixture.lastPolled <= fixture'.lastPolled
    BY <1>1, <1>t DEF StartPoll, Fixtures
  <2>3. fixture'.state = "completed" => fixture.state = "completed"
    BY <1>1, <1>t DEF StartPoll, Fixtures
  <2>4. poll'.removed \in {{}, poll.removed}
    BY <1>1 DEF StartPoll, PollIdle
  <2> QED
    BY <1>0, <2>1, <2>2, <2>3, <2>4, QuietStep, KnownResults
<1>2. ASSUME NEW late \in BOOLEAN, RetryCollect(late)
      PROVE  IndInv'
  <2>1. poll'.removed = poll.removed
    BY <1>2, <1>t DEF RetryCollect, PollType
  <2> QED
    BY <1>0, <1>2, <2>1, AttemptStep DEF RetryCollect
<1>3. ASSUME NEW late \in BOOLEAN, RetryReconcile(late)
      PROVE  IndInv'
  <2>1. poll'.removed = poll.removed
    BY <1>3, <1>t DEF RetryReconcile, PollType
  <2>2. \A a \in Polls \X Tries :
           \/ reconcile'[a] = reconcile[a]
           \/ /\ reconcile'[a].pc \notin {"fixtureRead", "planned"}
              /\ reconcile'[a].result = NoResult
    BY <1>3, <1>t DEF RetryReconcile, ReconcileOff
  <2> QED
    BY <1>0, <1>3, <2>1, <2>2, AttemptStep DEF RetryReconcile
<1>4. ASSUME NEW late \in BOOLEAN, GiveUp(late)
      PROVE  IndInv'
  <2>1. \A a \in Polls \X Tries : reconcile'[a] \in {reconcile[a], ReconcileOff}
    BY <1>4, <1>t DEF GiveUp
  <2> QED
    BY <1>0, <1>4, <1>t, <2>1, AttemptStep DEF GiveUp
<1>5. ASSUME NEW a \in Polls \X Tries, HealthComparison(a)
      PROVE  IndInv'
  BY <1>0, <1>5, AttemptStep DEF HealthComparison
<1>6. ASSUME NEW a \in Polls \X Tries, NEW pp \in ProviderPolicies,
             NEW fp \in FixturePolicies, Observe(a, pp, fp)
      PROVE  IndInv'
  BY <1>0, <1>6, AttemptStep DEF Observe
<1>7. ASSUME CollectReturns
      PROVE  IndInv'
  <2>1. \A a \in Polls \X Tries :
           \/ reconcile'[a] = reconcile[a]
           \/ /\ reconcile'[a].pc \notin {"fixtureRead", "planned"}
              /\ reconcile'[a].result = NoResult
    <3>1. \/ reconcile' = reconcile
          \/ \E gen : reconcile' = [reconcile EXCEPT ![<<poll.id, 1>>] =
                [ReconcileOff EXCEPT !.pc = "started", !.feed = poll.feed, !.gen = gen]]
      BY <1>7 DEF CollectReturns
    <3>2. \A gen : LET new == [ReconcileOff EXCEPT !.pc = "started", !.feed = poll.feed,
                                                   !.gen = gen]
                   IN new.pc = "started" /\ new.result = NoResult
      BY DEF ReconcileOff
    <3>3. CASE \E gen : reconcile' = [reconcile EXCEPT ![<<poll.id, 1>>] =
                  [ReconcileOff EXCEPT !.pc = "started", !.feed = poll.feed, !.gen = gen]]
      <4>1. PICK gen : reconcile' = [reconcile EXCEPT ![<<poll.id, 1>>] =
                  [ReconcileOff EXCEPT !.pc = "started", !.feed = poll.feed, !.gen = gen]]
        BY <3>3
      <4> DEFINE new == [ReconcileOff EXCEPT !.pc = "started", !.feed = poll.feed,
                                             !.gen = gen]
      <4>2. new.pc = "started" /\ new.result = NoResult
        BY <3>2
      <4> HIDE DEF new
      <4>3. \A a \in Polls \X Tries : reconcile'[a] = reconcile[a] \/ reconcile'[a] = new
        BY <1>t, <4>1 DEF new
      <4> QED
        BY <4>2, <4>3
    <3> QED
      BY <3>1, <3>3
  <2>2. poll'.removed \in {{}, poll.removed}
    BY <1>7, <1>t DEF CollectReturns, PollType
  <2> QED
    BY <1>0, <1>7, <2>1, <2>2, AttemptStep DEF CollectReturns
<1>8. ASSUME NEW a \in Polls \X Tries, ReadFixture(a)
      PROVE  IndInv'
  <2>1. /\ reconcile'[a].pc = "fixtureRead" /\ reconcile'[a].seen = fixture
        /\ reconcile'[a].result = reconcile[a].result
        /\ \A b \in Polls \X Tries : b # a => reconcile'[b] = reconcile[b]
    BY <1>8, <1>t DEF ReadFixture, ReconcileAttempts
  <2>2. /\ UNCHANGED <<events, checklist>> /\ fixture' = fixture
        /\ receipts' = receipts /\ poll' = poll
        /\ discovery' = discovery /\ destroyed' = destroyed
    BY <1>8 DEF ReadFixture
  <2>3. PlansAreSound!(a)'
    BY <1>t, <2>1, <2>2
  <2>4. fixture.lastPolled <= fixture'.lastPolled
    BY <1>t, <2>2
  <2>5. \A b \in Polls \X Tries :
           \/ reconcile'[b] = reconcile[b]
           \/ /\ \/ reconcile'[b].pc \notin {"fixtureRead", "planned"}
                 \/ PlansAreSound!(b)'
              /\ ResultHolds(reconcile'[b].result)
    BY <2>1, <2>3, KnownResults
  <2> QED
    BY <1>0, <2>2, <2>4, <2>5, QuietStep, KnownResults
<1>9. ASSUME NEW a \in Polls \X Tries, NEW matched \in SUBSET LiveRows,
             PlanMutation(a, matched)
      PROVE  IndInv'
  <2>1. /\ reconcile'[a].result = NoResult
        /\ \A b \in Polls \X Tries : b # a => reconcile'[b] = reconcile[b]
    BY <1>9, <1>t DEF PlanMutation, ReconcileOff
  <2>2. /\ UNCHANGED <<events, checklist>> /\ fixture' = fixture
        /\ receipts' = receipts /\ poll' = poll
        /\ discovery' = discovery /\ destroyed' = destroyed
    BY <1>9 DEF PlanMutation
  <2>3. PlansAreSound!(a)'
    BY <1>0, <1>9, PlanFits
  <2>4. fixture.lastPolled <= fixture'.lastPolled
    BY <1>t, <2>2
  <2>5. \A b \in Polls \X Tries :
           \/ reconcile'[b] = reconcile[b]
           \/ /\ \/ reconcile'[b].pc \notin {"fixtureRead", "planned"}
                 \/ PlansAreSound!(b)'
              /\ ResultHolds(reconcile'[b].result)
    BY <2>1, <2>3, KnownResults
  <2> QED
    BY <1>0, <2>2, <2>4, <2>5, QuietStep, KnownResults
<1>10. ASSUME NEW a \in Polls \X Tries, NEW adopt \in BOOLEAN, ApplyActive(a, adopt)
       PROVE  IndInv'
  <2> DEFINE policy == DecideMutation(reconcile[a].plan.local)
  <2>1. UNCHANGED <<poll, discovery, destroyed>> /\ reconcile[a].pc = "planned"
    BY <1>10 DEF ApplyActive
  <2>2. CASE receipts[a[1]].kind = "none" /\ FreshPlan(a) /\ policy # "rejected"
    <3>1. policy \in {"trusted", "positive_only"}
      BY <2>2 DEF DecideMutation, RestrictPolicies
    <3>2. CommitPlan(a, policy, adopt)
      BY <1>10, <2>2 DEF ApplyActive
    <3> QED
      BY <1>0, <2>1, <2>2, <3>1, <3>2, CommitStep
  <2>3. CASE ~(receipts[a[1]].kind = "none" /\ FreshPlan(a) /\ policy # "rejected")
    <3>1. PICK result :
             /\ ResultHolds(result)
             /\ reconcile' = [reconcile EXCEPT ![a] =
                   [ReconcileOff EXCEPT !.pc = "committed", !.result = result]]
             /\ \A p \in Polls : receipts'[p] \in {NoResult, result, receipts[p]}
             /\ UNCHANGED <<fixture, events, checklist>>
      <4>1. a[1] \in Polls
        OBVIOUS
      <4>2. CASE receipts[a[1]].kind # "none"
        BY <1>10, <4>1, <4>2, KnownResults DEF ApplyActive
      <4>3. CASE receipts[a[1]].kind = "none" /\ ~FreshPlan(a)
        BY <1>10, <4>1, <4>3, KnownResults DEF ApplyActive, CommitResult
      <4>4. CASE receipts[a[1]].kind = "none" /\ FreshPlan(a) /\ policy = "rejected"
        BY <1>10, <4>1, <4>4, KnownResults DEF ApplyActive, CommitResult
      <4> QED
        BY <2>3, <4>2, <4>3, <4>4
    <3>2. /\ reconcile'[a].pc = "committed" /\ reconcile'[a].result = result
          /\ \A b \in Polls \X Tries : b # a => reconcile'[b] = reconcile[b]
      BY <1>t, <3>1 DEF ReconcileOff
    <3>3. \A b \in Polls \X Tries :
             \/ reconcile'[b] = reconcile[b]
             \/ /\ \/ reconcile'[b].pc \notin {"fixtureRead", "planned"}
                   \/ PlansAreSound!(b)'
                /\ ResultHolds(reconcile'[b].result)
      BY <3>1, <3>2
    <3>4. \A p \in Polls : ResultHolds(receipts'[p])
      BY <3>1, KnownResults
    <3>5. fixture.lastPolled <= fixture'.lastPolled
      BY <1>t, <3>1
    <3> QED
      BY <1>0, <2>1, <3>1, <3>3, <3>4, <3>5, QuietStep
  <2> QED
    BY <2>2, <2>3
<1>11. ASSUME NEW a \in Polls \X Tries, NEW spawned \in SUBSET Rows,
              SpawnEvents(a, spawned)
       PROVE  IndInv'
  <2>1. \A r \in spawned : triggered[r]
    <3>1. spawned \subseteq reconcile[a].result.stable \cup AwaitingDiscovery
      BY <1>11 DEF SpawnEvents
    <3> QED
      BY <3>1, KnownResults DEF AwaitingDiscovery, ResultHolds
  <2>2. /\ status' = status /\ count' = count /\ triggered' = triggered
        /\ votes' = votes /\ drops' = drops /\ placeholder' = placeholder
        /\ fixture' = fixture /\ receipts' = receipts /\ poll' = poll
        /\ destroyed' = destroyed
    BY <1>11 DEF SpawnEvents, events
  <2>3. checklist' = checklist
    <3>1. checklist \in [Rows -> {"none", "open", "done", "event_removed"}]
      BY DEF IndInv, TypeOK
    <3>2. \A r \in spawned : checklist[r] # "none"
      BY <2>1 DEF IndInv, ChecklistMatchesEvent
    <3>3. checklist' = [r \in Rows |-> checklist[r]]
      BY <1>11, <3>2 DEF SpawnEvents
    <3> QED
      BY <3>1, <3>3
  <2>4. \A r \in Rows : discovery'[r] # "none" => triggered[r]
    BY <1>11, <2>1 DEF SpawnEvents, IndInv, EffectsFollowRows
  <2>5. \A b \in Polls \X Tries :
           \/ reconcile'[b] = reconcile[b]
           \/ /\ reconcile'[b].pc \notin {"fixtureRead", "planned"}
              /\ reconcile'[b].result \in {NoResult, reconcile[b].result}
    BY <1>11, <1>t DEF SpawnEvents, ReconcileAttempts
  <2>6. PlansAreSound'
    <3> SUFFICES ASSUME NEW b \in Polls \X Tries, reconcile'[b] = reconcile[b]
                 PROVE  PlansAreSound!(b)'
      BY <2>5 DEF PlansAreSound
    <3>1. PlansAreSound!(b)
      BY DEF IndInv, PlansAreSound
    <3> QED
      BY <2>2, <3>1
  <2>7. ResultsHold'
    BY <2>2, <2>5 DEF IndInv, ResultsHold, ResultHolds, NoResult
  <2>8. /\ VotesBelowBaseline' /\ CounterMeaning' /\ ConfirmedByThreePolls'
        /\ OneVotePerPoll'
    BY <2>2 DEF IndInv, VotesBelowBaseline, CounterMeaning, ConfirmedByThreePolls,
                OneVotePerPoll
  <2>9. ChecklistMatchesEvent' /\ CompletedIsSettled'
    BY <2>2, <2>3 DEF IndInv, ChecklistMatchesEvent, CompletedIsSettled
  <2>10. EffectsFollowRows'
    BY <2>2, <2>4 DEF IndInv, EffectsFollowRows
  <2> QED
    BY <1>0, <2>6, <2>7, <2>8, <2>9, <2>10 DEF IndInv
<1>12. ASSUME ReconcileReturns
       PROVE  IndInv'
  <2> DEFINE a == <<poll.id, poll.try>>
  <2>1. a \in Polls \X Tries
    BY <1>12 DEF ReconcileReturns, IndInv, TypeOK
  <2>2. poll'.removed = reconcile[a].result.removed
    BY <1>12, <1>t DEF ReconcileReturns, PollType
  <2>3. \A b \in Polls \X Tries : reconcile'[b] \in {reconcile[b], ReconcileOff}
    BY <1>12, <1>t DEF ReconcileReturns
  <2>4. \A b \in Polls \X Tries :
           \/ reconcile'[b] = reconcile[b]
           \/ /\ \/ reconcile'[b].pc \notin {"fixtureRead", "planned"}
                 \/ PlansAreSound!(b)'
              /\ ResultHolds(reconcile'[b].result)
    BY <1>t, <2>3, KnownResults
  <2>5. fixture.lastPolled <= fixture'.lastPolled
    BY <1>12, <1>t DEF ReconcileReturns
  <2> HIDE DEF a
  <2> QED
    BY <1>0, <1>12, <2>1, <2>2, <2>4, <2>5, QuietStep, KnownResults DEF ReconcileReturns
<1>13. ASSUME NEW cancelled \in SUBSET Rows, NEW done \in SUBSET Rows,
              DestroyRemoved(cancelled, done)
       PROVE  IndInv'
  <2>1. \A r \in Rows : discovery'[r] # "none" => discovery[r] # "none"
    BY <1>13 DEF DestroyRemoved
  <2>2. fixture.lastPolled <= fixture'.lastPolled
    BY <1>13, <1>t DEF DestroyRemoved
  <2> QED
    BY <1>0, <1>13, <1>t, <2>1, <2>2, QuietStep, KnownResults DEF DestroyRemoved, attempts
<1>14. ASSUME NEW r \in Rows, CompleteDownstream(r)
       PROVE  IndInv'
  <2>1. /\ status' = status /\ count' = count /\ triggered' = triggered
        /\ votes' = votes /\ drops' = drops /\ placeholder' = placeholder
        /\ fixture' = fixture /\ receipts' = receipts /\ poll' = poll
        /\ destroyed' = destroyed /\ reconcile' = reconcile
    BY <1>14 DEF CompleteDownstream, events, attempts
  <2>2. \A q \in Rows : /\ checklist'[q] = "none" <=> checklist[q] = "none"
                        /\ checklist'[q] = "open" => checklist[q] = "open"
    BY <1>14 DEF CompleteDownstream, IndInv, TypeOK
  <2>3. \A q \in Rows : discovery'[q] # "none" => discovery[q] # "none"
    BY <1>14 DEF CompleteDownstream, IndInv, TypeOK
  <2>4. ChecklistMatchesEvent' /\ CompletedIsSettled'
    BY <2>1, <2>2 DEF IndInv, ChecklistMatchesEvent, CompletedIsSettled
  <2>5. EffectsFollowRows'
    BY <2>1, <2>3 DEF IndInv, EffectsFollowRows
  <2>6. /\ VotesBelowBaseline' /\ CounterMeaning' /\ ConfirmedByThreePolls'
        /\ OneVotePerPoll' /\ PlansAreSound' /\ ResultsHold'
    BY <2>1 DEF IndInv, VotesBelowBaseline, CounterMeaning, ConfirmedByThreePolls,
                OneVotePerPoll, PlansAreSound, ResultsHold, ResultHolds
  <2> QED
    BY <1>0, <2>4, <2>5, <2>6 DEF IndInv
<1>15. ASSUME NEW r \in Rows, DiscoveryFails(r)
       PROVE  IndInv'
  <2>1. \A q \in Rows : discovery'[q] # "none" => discovery[q] # "none"
    BY <1>15 DEF DiscoveryFails, IndInv, TypeOK
  <2>2. fixture.lastPolled <= fixture'.lastPolled
    BY <1>15, <1>t DEF DiscoveryFails
  <2> QED
    BY <1>0, <1>15, <2>1, <2>2, QuietStep, KnownResults DEF DiscoveryFails, attempts
<1>16. ASSUME StartIngest
       PROVE  IndInv'
  BY <1>0, <1>16, AttemptStep DEF StartIngest, attempts
<1>17. ASSUME NEW terminal \in BOOLEAN, CommitIngest(terminal)
       PROVE  IndInv'
  <2>1. /\ fixture.lastPolled <= fixture'.lastPolled
        /\ fixture'.state = fixture.state
    <3>1. ingest.at \in Nat
      BY DEF IndInv, TypeOK, Times
    <3>2. CASE UNCHANGED fixture
      BY <1>t, <3>2
    <3>3. CASE ~UNCHANGED fixture
      <4>1. \E t : fixture' = [fixture EXCEPT !.terminal = t, !.lastPolled = ingest.at]
        BY <1>17, <3>3 DEF CommitIngest
      <4>2. ingest.at > fixture.lastPolled
        BY <1>17, <3>3 DEF CommitIngest
      <4> QED
        BY <1>t, <3>1, <4>1, <4>2 DEF Fixtures
    <3> QED
      BY <3>2, <3>3
  <2> QED
    BY <1>0, <1>17, <2>1, QuietStep, KnownResults DEF CommitIngest, attempts
<1>18. ASSUME UNCHANGED vars
       PROVE  IndInv'
  BY <1>0, <1>18, AttemptStep DEF vars, events
<1> QED
  BY <1>1, <1>2, <1>3, <1>4, <1>5, <1>6, <1>7, <1>8, <1>9, <1>10, <1>11, <1>12,
     <1>13, <1>14, <1>15, <1>16, <1>17, <1>18 DEF Next

LEMMA InvariantHolds == Spec => []IndInv
BY InitInv, IndStep, PTL DEF Spec

-----------------------------------------------------------------------------
(* The safety theorems. *)

(* Whatever retries, timeouts and late attempts do, an event is confirmed   *)
(* (downstream_triggered) only by three different polls.                    *)
THEOREM Confirmation == Spec => []ConfirmedByThreePolls
<1>1. IndInv => ConfirmedByThreePolls
  BY DEF IndInv
<1> QED
  BY <1>1, InvariantHolds, PTL

(* A confirmed event is removed only by three different polls: with the     *)
(* counter at zero, CounterMeaning leaves the drops to make up the          *)
(* threshold.                                                               *)
THEOREM Removal == Spec => []RemovedByThreePolls
<1>1. IndInv => RemovedByThreePolls
  <2> SUFFICES ASSUME IndInv, NEW r \in Rows, triggered[r], status[r] = "removed"
               PROVE  Cardinality(drops[r]) >= Threshold
    BY DEF RemovedByThreePolls
  <2>1. drops[r] \in SUBSET Polls
    BY DEF IndInv, TypeOK
  <2>2. Cardinality(drops[r]) \in Nat
    BY <2>1, VoteSets
  <2>3. count[r] = 0 /\ count[r] + Cardinality(drops[r]) >= Threshold
    BY DEF IndInv, CounterMeaning
  <2> QED
    BY <2>2, <2>3
<1> QED
  BY <1>1, InvariantHolds, PTL

(* No poll ever votes both ways on an event.                                *)
THEOREM OneVote == Spec => []OneVotePerPoll
<1>1. IndInv => OneVotePerPoll
  BY DEF IndInv
<1> QED
  BY <1>1, InvariantHolds, PTL

(* ApplyActive never runs a plan into a key conflict or a missing row: the  *)
(* staleness test is enough.                                                *)
THEOREM FreshPlans == Spec => []FreshPlanApplies
<1>1. IndInv => FreshPlanApplies
  <2> SUFFICES ASSUME IndInv, NEW a \in Polls \X Tries, reconcile[a].pc = "planned",
                      FreshPlan(a)
               PROVE  LET plan == reconcile[a].plan
                      IN /\ \A r \in plan.insert : status[r] = "absent"
                         /\ \A r \in plan.present \cup plan.absent : status[r] = "live"
                         /\ plan.unknownInsert => ~placeholder
                         /\ plan.unknownDelete => placeholder
    BY DEF FreshPlanApplies
  <2>1. PlansAreSound!(a)
    BY DEF IndInv, PlansAreSound
  <2> QED
    BY <2>1 DEF FreshPlan
<1> QED
  BY <1>1, InvariantHolds, PTL

(* A discovery row exists exactly for confirmed events and none stays open  *)
(* for a removed one.                                                       *)
THEOREM Checklist == Spec => []ChecklistMatchesEvent
<1>1. IndInv => ChecklistMatchesEvent
  BY DEF IndInv
<1> QED
  BY <1>1, InvariantHolds, PTL

(* A completed fixture has nothing in debounce and no discovery pending.    *)
THEOREM Completion == Spec => []CompletedIsSettled
<1>1. IndInv => CompletedIsSettled
  BY DEF IndInv
<1> QED
  BY <1>1, InvariantHolds, PTL

(* Destruction and discovery only ever follow the committed rows.           *)
THEOREM Effects == Spec => []EffectsFollowRows
<1>1. IndInv => EffectsFollowRows
  BY DEF IndInv
<1> QED
  BY <1>1, InvariantHolds, PTL

-----------------------------------------------------------------------------
(* What a step may never do. *)

(* Only the transaction of a fresh plan writes event rows.                  *)
LEMMA OnlyCommitsWrite ==
    ASSUME IndInv, [Next]_vars
    PROVE  \/ UNCHANGED events
           \/ \E a \in Polls \X Tries, policy \in {"trusted", "positive_only"},
                 adopt \in BOOLEAN :
                 /\ reconcile[a].pc = "planned" /\ FreshPlan(a)
                 /\ CommitPlan(a, policy, adopt)
<1>1. ASSUME NEW a \in Polls \X Tries, NEW adopt \in BOOLEAN, ApplyActive(a, adopt),
             ~UNCHANGED events
      PROVE  \E policy \in {"trusted", "positive_only"} :
                 /\ reconcile[a].pc = "planned" /\ FreshPlan(a)
                 /\ CommitPlan(a, policy, adopt)
  <2> DEFINE policy == DecideMutation(reconcile[a].plan.local)
  <2>1. /\ reconcile[a].pc = "planned" /\ FreshPlan(a) /\ policy # "rejected"
        /\ CommitPlan(a, policy, adopt)
    BY <1>1 DEF ApplyActive
  <2>2. policy \in {"trusted", "positive_only"}
    BY <2>1 DEF DecideMutation, RestrictPolicies
  <2> QED
    BY <2>1, <2>2
<1>2. ASSUME ~UNCHANGED events
      PROVE  \E a \in Polls \X Tries, adopt \in BOOLEAN : ApplyActive(a, adopt)
  BY <1>2 DEF Next, vars, events, StartPoll, RetryCollect, RetryReconcile, GiveUp,
       HealthComparison, Observe, CollectReturns, ReadFixture, PlanMutation,
       SpawnEvents, ReconcileReturns, DestroyRemoved, CompleteDownstream,
       DiscoveryFails, StartIngest, CommitIngest
<1> QED
  BY <1>1, <1>2

(* Votes are cast in the order of the polls that cast them, although        *)
(* attempts commit in any order.                                            *)
THEOREM VoteOrder == Spec => VotesInOrder
<1>1. ASSUME IndInv, [Next]_vars
      PROVE  VoteIsNewest
  <2>1. CASE UNCHANGED events
    BY <2>1 DEF events, VoteIsNewest
  <2>2. CASE ~UNCHANGED events
    <3>1. PICK a \in Polls \X Tries, policy \in {"trusted", "positive_only"},
               adopt \in BOOLEAN :
               /\ reconcile[a].pc = "planned" /\ FreshPlan(a)
               /\ CommitPlan(a, policy, adopt)
      BY <1>1, <2>2, OnlyCommitsWrite
    <3>2. \A r \in Rows : \A q \in votes[r] \cup drops[r] : q < a[1]
      BY <1>1, <3>1, FreshCommit
    <3>3. \A r \in Rows : votes'[r] \cup drops'[r] \subseteq votes[r] \cup drops[r] \cup {a[1]}
      BY <3>1 DEF CommitPlan
    <3> QED
      BY <3>2, <3>3 DEF VoteIsNewest
  <2> QED
    BY <2>1, <2>2
<1> QED
  BY <1>1, InvariantHolds, PTL DEF Spec, VotesInOrder

(* No step, of however late an attempt, takes a fixture, its baseline, a    *)
(* confirmation or a removal back.                                          *)
THEOREM Forward == Spec => LifecycleForward
<1>1. ASSUME IndInv, [Next]_vars
      PROVE  MovesForward
  <2>0. /\ TypeOK' /\ fixture \in Fixtures /\ fixture.lastPolled \in Nat
    BY <1>1, TypeStep DEF IndInv, TypeOK, Fixtures, Times
  <2>1. \A r \in Rows : /\ triggered[r] => triggered'[r]
                        /\ status[r] = "removed" => status'[r] = "removed"
    <3>1. CASE UNCHANGED events
      BY <3>1 DEF events
    <3>2. CASE ~UNCHANGED events
      BY <1>1, <2>0, <3>2, OnlyCommitsWrite, CommittedRowInv
    <3> QED
      BY <3>1, <3>2
  <2>2. /\ fixture.state = "completed" => fixture'.state = "completed"
        /\ fixture.state = "active" => fixture'.state # "staging"
        /\ fixture.lastPolled <= fixture'.lastPolled
    <3>1. CASE UNCHANGED fixture
      BY <2>0, <3>1 DEF Fixtures
    <3>2. ASSUME NEW kickoff \in BOOLEAN, NEW feed \in Feeds \cup {NoFeed},
                 StartPoll(kickoff, feed)
          PROVE  <2>2!:
      BY <2>0, <3>2 DEF StartPoll, Fixtures
    <3>3. ASSUME NEW a \in Polls \X Tries, NEW adopt \in BOOLEAN, ApplyActive(a, adopt),
                 ~UNCHANGED fixture
          PROVE  <2>2!:
      <4> DEFINE policy == DecideMutation(reconcile[a].plan.local)
                 updated == UpdatedFixture(reconcile[a].plan, a[1], policy, adopt)
      <4>1. FreshPlan(a) /\ CommitPlan(a, policy, adopt)
        BY <3>3 DEF ApplyActive
      <4>2. /\ fixture.state = "active" /\ a[1] \in Nat /\ fixture.lastPolled < a[1]
        BY <2>0, <4>1 DEF FreshPlan, Polls
      <4>3. updated.state = "active" /\ updated.lastPolled = a[1]
        BY <2>0, <4>2 DEF UpdatedFixture, Fixtures
      <4>4. fixture' \in {updated, [updated EXCEPT !.state = "completed"]}
        BY <4>1 DEF CommitPlan
      <4>5. fixture'.lastPolled = a[1] /\ fixture'.state \in {"active", "completed"}
        <5>1. fixture' \in Fixtures
          BY <2>0 DEF TypeOK
        <5>2. CASE fixture' = updated
          BY <4>3, <5>2
        <5>3. CASE fixture' = [updated EXCEPT !.state = "completed"]
          BY <4>3, <5>1, <5>3 DEF UpdatedFixture, Fixtures
        <5> QED
          BY <4>4, <5>2, <5>3
      <4> QED
        BY <2>0, <4>2, <4>5
    <3>4. ASSUME NEW terminal \in BOOLEAN, CommitIngest(terminal), ~UNCHANGED fixture
          PROVE  <2>2!:
      <4>1. \E t : fixture' = [fixture EXCEPT !.terminal = t, !.lastPolled = ingest.at]
        BY <3>4 DEF CommitIngest
      <4>2. ingest.at > fixture.lastPolled /\ ingest.at \in Nat
        BY <1>1, <3>4 DEF CommitIngest, IndInv, TypeOK, Times
      <4> QED
        BY <2>0, <4>1, <4>2 DEF Fixtures
    <3>5. \/ UNCHANGED fixture
          \/ \E kickoff \in BOOLEAN, feed \in Feeds \cup {NoFeed} : StartPoll(kickoff, feed)
          \/ \E a \in Polls \X Tries, adopt \in BOOLEAN : ApplyActive(a, adopt)
          \/ \E terminal \in BOOLEAN : CommitIngest(terminal)
      BY <1>1 DEF Next, vars, RetryCollect, RetryReconcile, GiveUp, HealthComparison,
           Observe, CollectReturns, ReadFixture, PlanMutation, SpawnEvents,
           ReconcileReturns, DestroyRemoved, CompleteDownstream, DiscoveryFails,
           StartIngest
    <3> QED
      BY <3>1, <3>2, <3>3, <3>4, <3>5
  <2> QED
    BY <2>1, <2>2 DEF MovesForward
<1> QED
  BY <1>1, InvariantHolds, PTL DEF Spec, LifecycleForward

(* Once the fixture is completed its events, votes and checklist are final. *)
THEOREM Finality == Spec => CompletedIsFinal
<1>1. ASSUME IndInv, [Next]_vars
      PROVE  KeepsCompleted
  <2> SUFFICES ASSUME fixture.state = "completed"
               PROVE  UNCHANGED events /\ UNCHANGED checklist
    BY DEF KeepsCompleted
  <2>1. UNCHANGED events
    BY <1>1, OnlyCommitsWrite DEF FreshPlan
  <2>2. /\ checklist \in [Rows -> {"none", "open", "done", "event_removed"}]
        /\ \A r \in Rows : checklist[r] # "open"
    BY <1>1 DEF IndInv, TypeOK, CompletedIsSettled
  <2>3. ASSUME NEW a \in Polls \X Tries, NEW adopt \in BOOLEAN, ApplyActive(a, adopt)
        PROVE  UNCHANGED checklist
    BY <2>3 DEF ApplyActive, FreshPlan
  <2>4. ASSUME NEW a \in Polls \X Tries, NEW spawned \in SUBSET Rows,
               SpawnEvents(a, spawned)
        PROVE  UNCHANGED checklist
    <3>1. spawned \subseteq reconcile[a].result.stable \cup AwaitingDiscovery
      BY <2>4 DEF SpawnEvents
    <3>2. \A r \in spawned : triggered[r]
      BY <1>1, <3>1, KnownResults DEF AwaitingDiscovery, ResultHolds
    <3>3. \A r \in spawned : checklist[r] # "none"
      BY <1>1, <3>2 DEF IndInv, ChecklistMatchesEvent
    <3>4. checklist' = [r \in Rows |-> checklist[r]]
      BY <2>4, <3>3 DEF SpawnEvents
    <3> QED
      BY <2>2, <3>4
  <2>5. ASSUME NEW r \in Rows, CompleteDownstream(r)
        PROVE  UNCHANGED checklist
    BY <2>2, <2>5 DEF CompleteDownstream
  <2>6. \/ UNCHANGED checklist
        \/ \E a \in Polls \X Tries, adopt \in BOOLEAN : ApplyActive(a, adopt)
        \/ \E a \in Polls \X Tries, spawned \in SUBSET Rows : SpawnEvents(a, spawned)
        \/ \E r \in Rows : CompleteDownstream(r)
    BY <1>1 DEF Next, vars, StartPoll, RetryCollect, RetryReconcile, GiveUp,
         HealthComparison, Observe, CollectReturns, ReadFixture, PlanMutation,
         ReconcileReturns, DestroyRemoved, DiscoveryFails, StartIngest, CommitIngest
  <2> QED
    BY <2>1, <2>3, <2>4, <2>5, <2>6
<1> QED
  BY <1>1, InvariantHolds, PTL DEF Spec, CompletedIsFinal

(* Under enforcement a negative vote always rests on the trusted evidence   *)
(* of the very poll that casts it.                                          *)
THEOREM NegativeVotes == Spec => NegativeVotesAreTrusted
<1>1. ASSUME TypeOK, [Next]_vars
      PROVE  DropsAreTrusted
  <2>1. CASE UNCHANGED drops
    BY <2>1 DEF DropsAreTrusted
  <2>2. ASSUME NEW a \in Polls \X Tries, NEW adopt \in BOOLEAN, ApplyActive(a, adopt),
               ~UNCHANGED drops
        PROVE  DropsAreTrusted
    <3> DEFINE local == reconcile[a].plan.local
               policy == DecideMutation(local)
    <3>1. FreshPlan(a) /\ CommitPlan(a, policy, adopt)
      BY <2>2 DEF ApplyActive, events
    <3>2. provider.at = a[1] /\ fixtureHealth.poll = a[1]
      BY <3>1 DEF FreshPlan
    <3>3. drops' = [r \in Rows |-> IF r \in (IF policy = "trusted"
                                            THEN Absent(reconcile[a].plan, a[1]) ELSE {})
                                  THEN drops[r] \cup {a[1]} ELSE drops[r]]
      BY <3>1 DEF CommitPlan
    <3>4. ASSUME NEW r \in Rows, NEW id \in drops'[r] \ drops[r]
          PROVE  id = a[1] /\ policy = "trusted"
      BY <3>3, <3>4
    <3>5. /\ provider.policy \in Policies /\ fixtureHealth.policy \in Policies
          /\ fixtureHealth = [poll |-> fixtureHealth.poll, policy |-> fixtureHealth.policy]
      BY <1>1 DEF TypeOK, Policies
    <3>6. Mode = "enforce" /\ policy = "trusted" =>
             provider.policy = "trusted" /\ fixtureHealth.policy = "trusted"
      BY <3>5 DEF DecideMutation, RestrictPolicies, Policies
    <3> QED
      BY <3>2, <3>4, <3>5, <3>6 DEF DropsAreTrusted
  <2>3. \/ UNCHANGED drops
        \/ \E a \in Polls \X Tries, adopt \in BOOLEAN : ApplyActive(a, adopt)
    BY <1>1 DEF Next, vars, events, StartPoll, RetryCollect, RetryReconcile, GiveUp,
         HealthComparison, Observe, CollectReturns, ReadFixture, PlanMutation,
         SpawnEvents, ReconcileReturns, DestroyRemoved, CompleteDownstream,
         DiscoveryFails, StartIngest, CommitIngest
  <2> QED
    BY <2>1, <2>2, <2>3
<1> QED
  BY <1>1, TypeCorrect, PTL DEF Spec, NegativeVotesAreTrusted

(* Every event goes through the life cycle that its discovery implements.   *)
THEOREM Contract == Spec => DiscoveryContract
<1>1. Init => \A r \in Rows : Lifecycle(r)!Init
  BY DEF Init, Lifecycle!Init
<1>2. ASSUME IndInv, [Next]_vars
      PROVE  LifecycleStep
  <2> SUFFICES ASSUME NEW r \in Rows,
                      ~UNCHANGED <<status[r] = "removed", checklist[r], discovery[r]>>
               PROVE  Lifecycle(r)!Next
    BY DEF LifecycleStep, Lifecycle!vars
  <2>1. ASSUME NEW a \in Polls \X Tries, NEW policy \in {"trusted", "positive_only"},
               NEW adopt \in BOOLEAN, reconcile[a].pc = "planned", FreshPlan(a),
               CommitPlan(a, policy, adopt), UNCHANGED discovery
        PROVE  Lifecycle(r)!Register \/ Lifecycle(r)!Remove
    <3> DEFINE plan == reconcile[a].plan
               stable == BecomesStable(plan, a[1])
               removed == IF policy = "trusted" THEN BecomesRemoved(plan, a[1]) ELSE {}
    <3>1. /\ stable \subseteq plan.present /\ removed \subseteq plan.absent
          /\ plan.present \cap plan.absent = {}
          /\ \A q \in plan.present \cup plan.absent : status[q] = "live"
          /\ \A q \in plan.insert : status[q] = "absent"
      BY <1>2, <2>1, FreshCommit DEF BecomesStable, BecomesRemoved, Present, Absent
    <3>2. /\ status'[r] = IF r \in plan.insert THEN "live"
                          ELSE IF r \in removed THEN "removed" ELSE status[r]
          /\ checklist'[r] = IF r \in stable /\ checklist[r] = "none" THEN "open"
                             ELSE IF r \in removed /\ checklist[r] = "open"
                             THEN "event_removed" ELSE checklist[r]
      BY <2>1 DEF CommitPlan, ApplyInserts, CommittedChecklist
    <3>3. CASE r \in removed
      <4>1. /\ status[r] # "removed" /\ status'[r] = "removed"
            /\ checklist'[r] = IF checklist[r] = "open" THEN "event_removed" ELSE checklist[r]
        BY <3>1, <3>2, <3>3
      <4> QED
        BY <2>1, <4>1 DEF Lifecycle!Remove
    <3>4. CASE r \notin removed
      <4>1. (status'[r] = "removed") = (status[r] = "removed")
        BY <3>1, <3>2, <3>4
      <4>2. r \in stable /\ checklist[r] = "none" /\ checklist'[r] = "open"
        BY <2>1, <3>2, <3>4, <4>1
      <4> QED
        BY <2>1, <3>1, <4>1, <4>2 DEF Lifecycle!Register
    <3> QED
      BY <3>3, <3>4
  <2>2. ASSUME NEW a \in Polls \X Tries, NEW adopt \in BOOLEAN, ApplyActive(a, adopt)
        PROVE  Lifecycle(r)!Register \/ Lifecycle(r)!Remove
    <3> DEFINE policy == DecideMutation(reconcile[a].plan.local)
    <3>1. ~UNCHANGED <<status, checklist, discovery>>
      OBVIOUS
    <3>2. /\ reconcile[a].pc = "planned" /\ FreshPlan(a) /\ policy # "rejected"
          /\ CommitPlan(a, policy, adopt) /\ UNCHANGED discovery
      BY <2>2, <3>1 DEF ApplyActive, events
    <3>3. policy \in {"trusted", "positive_only"}
      BY <3>2 DEF DecideMutation, RestrictPolicies
    <3> QED
      BY <2>1, <3>2, <3>3
  <2>3. ASSUME NEW a \in Polls \X Tries, NEW spawned \in SUBSET Rows,
               SpawnEvents(a, spawned)
        PROVE  Lifecycle(r)!Start
    <3>1. spawned \subseteq reconcile[a].result.stable \cup AwaitingDiscovery
      BY <2>3 DEF SpawnEvents
    <3>2. \A q \in spawned : checklist[q] # "none"
      BY <1>2, <3>1, KnownResults
         DEF AwaitingDiscovery, ResultHolds, IndInv, ChecklistMatchesEvent
    <3>3. /\ status' = status
          /\ checklist'[r] = IF r \in spawned /\ checklist[r] = "none"
                             THEN "open" ELSE checklist[r]
          /\ discovery'[r] = IF r \in spawned /\ discovery[r] \in {"none", "failed"}
                             THEN "running" ELSE discovery[r]
      BY <2>3 DEF SpawnEvents, events
    <3> QED
      BY <3>2, <3>3 DEF Lifecycle!Start
  <2>4. ASSUME NEW cancelled \in SUBSET Rows, NEW done \in SUBSET Rows,
               DestroyRemoved(cancelled, done)
        PROVE  Lifecycle(r)!Fail
    BY <2>4 DEF DestroyRemoved, events, Lifecycle!Fail
  <2>5. ASSUME NEW q \in Rows, CompleteDownstream(q)
        PROVE  Lifecycle(r)!Close
    <3>1. status' = status /\ q = r
      BY <1>2, <2>5 DEF CompleteDownstream, events, IndInv, TypeOK
    <3> QED
      BY <1>2, <2>5, <3>1 DEF CompleteDownstream, IndInv, TypeOK, Lifecycle!Close
  <2>6. ASSUME NEW q \in Rows, DiscoveryFails(q)
        PROVE  Lifecycle(r)!Fail
    BY <1>2, <2>6 DEF DiscoveryFails, events, IndInv, TypeOK, Lifecycle!Fail
  <2>7. \/ UNCHANGED <<status, checklist, discovery>>
        \/ \E a \in Polls \X Tries, adopt \in BOOLEAN : ApplyActive(a, adopt)
        \/ \E a \in Polls \X Tries, spawned \in SUBSET Rows : SpawnEvents(a, spawned)
        \/ \E cancelled, done \in SUBSET Rows : DestroyRemoved(cancelled, done)
        \/ \E q \in Rows : CompleteDownstream(q)
        \/ \E q \in Rows : DiscoveryFails(q)
    BY <1>2 DEF Next, vars, events, StartPoll, RetryCollect, RetryReconcile, GiveUp,
         HealthComparison, Observe, CollectReturns, ReadFixture, PlanMutation,
         ReconcileReturns, StartIngest, CommitIngest
  <2> QED
    BY <2>2, <2>3, <2>4, <2>5, <2>6, <2>7 DEF Lifecycle!Next
<1> QED
  BY <1>1, <1>2, InvariantHolds, PTL DEF Spec, DiscoveryContract
=============================================================================
