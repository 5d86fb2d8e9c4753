---------------------------- MODULE FixtureMonitor ----------------------------
(***************************************************************************)
(* The 30-second hot path of found-footy for one fixture: the scheduled    *)
(* ActivePollWorkflow, its CollectProviderHealth and ReconcileFixture      *)
(* activities, the guarded Postgres transactions they commit, and the      *)
(* event rows, votes, checklist rows and receipts those transactions own.  *)
(*                                                                         *)
(* A time stamp is a Nat.  The clock ticks when a poll or an ingest starts *)
(* and the observation time of a poll is its identity: WorkflowID, PollID  *)
(* and observedAt are all fixed by the start of the scheduled run.         *)
(*                                                                         *)
(* An activity attempt whose worker is slow outlives its StartToClose      *)
(* timeout: the workflow moves on and the attempt may still commit.  Such  *)
(* attempts are why the transactions carry receipts and baselines, so      *)
(* every attempt is a process of its own here.                             *)
(***************************************************************************)
EXTENDS Integers, FiniteSets

CONSTANTS
    Players,          \* known scorers (one identity group each)
    MaxSequence,      \* bound: sequences of one scorer's natural keys
    MaxClock,         \* bound: polls and ingests that ever start
    MaxLate,          \* bound: attempts that outlive their timeout at once
    IngestTimes,      \* bound: the ticks at which an ingest may start
    Threshold,        \* net votes that confirm an event (3 in the SQL)
    Retention,        \* HealthReceiptRetention, in ticks
    MaxAttempts,      \* RetryPolicy.MaximumAttempts
    Grace,            \* TerminalGracePeriod, in ticks
    Mode,             \* provider enforcement mode
    Feeds,            \* provider payloads of the fixture
    NoFeed,           \* the fetch failed
    ProviderPolicies, \* verdicts ObserveProvider can reach
    FixturePolicies   \* verdicts the fixture's incidents can reach

Policies == {"trusted", "positive_only", "rejected"}

Rows  == Players \X (1..MaxSequence)
Times == 0..MaxClock
Polls == 1..MaxClock
Tries == 1..MaxAttempts

(***************************************************************************)
(* What one payload says, reduced to what reconciliation tells apart.      *)
(* goals[p]: trackable entries of p; unknown: an entry without a player;   *)
(* held: scorers of a team whose score requires an omitted goal;           *)
(* supported: a missing confirmed event is a supported correction or       *)
(* replacement; anomaly: the policy that the facts left out of the model   *)
(* (identity, phase, clock, cleared fields, scores) call for.              *)
(***************************************************************************)
FeedType ==
    [goals     : [Players -> 0..MaxSequence],
     unknown   : BOOLEAN,
     terminal  : BOOLEAN,
     held      : SUBSET Players,
     supported : BOOLEAN,
     anomaly   : Policies]

ASSUME ConstantsAssumption ==
    /\ MaxSequence \in Nat \ {0}
    /\ MaxClock \in Nat \ {0}
    /\ MaxLate \in Nat
    /\ Threshold \in Nat \ {0, 1}
    /\ Retention \in Nat
    /\ IngestTimes \subseteq Polls
    /\ MaxAttempts \in Nat \ {0}
    /\ Grace \in Nat \ {0}
    /\ Mode \in {"shadow", "enforce"}
    /\ Feeds \subseteq FeedType
    /\ NoFeed \notin Feeds
    /\ ProviderPolicies \subseteq {"trusted", "positive_only"}
    /\ FixturePolicies \subseteq Policies

VARIABLES
    clock,
    fixture,        \* the fixtures row
    status,         \* events: absent, live or removed, per natural key
    count,          \* events.debounce_count
    triggered,      \* events.downstream_triggered
    votes,          \* event_monitor_workflows: polls that saw the event
    drops,          \* event_drop_workflows: polls that missed it
    placeholder,    \* the unknown-player events row exists
    checklist,      \* the event's discovery row in event_downstream_workflows
    provider,       \* provider_health
    fixtureHealth,  \* the fixture's health row
    observed,       \* provider_health_polls: result per poll
    receipts,       \* provider_mutation_receipts: result per poll
    poll,           \* the running ActivePollWorkflow
    collect,        \* CollectProviderHealth attempts
    reconcile,      \* ReconcileFixture attempts
    ingest,         \* an ingestion write between its read and its commit
    discovery,      \* the event's discovery workflow, as Temporal sees it
    destroyed       \* events whose DestroyEvent has run

events   == <<status, count, triggered, votes, drops, placeholder>>
health   == <<provider, fixtureHealth, observed>>
attempts == <<collect, reconcile>>
vars == <<clock, fixture, status, count, triggered, votes, drops, placeholder,
          checklist, provider, fixtureHealth, observed, receipts, poll, collect,
          reconcile, ingest, discovery, destroyed>>

-----------------------------------------------------------------------------
(* The shapes of the state. *)

Fixtures == [state : {"staging", "active", "completed"}, terminal : BOOLEAN,
             terminalAt : Times, lastPolled : Times]

Plans == [base : Times, now : Times, insert : SUBSET Rows, present : SUBSET Rows,
          absent : SUBSET Rows, unknownInsert : BOOLEAN, unknownDelete : BOOLEAN,
          local : Policies, terminal : BOOLEAN, terminalAt : Times]

Results == [kind : {"none", "stale", "rejected", "applied"},
            stable : SUBSET Rows, removed : SUBSET Rows]

NoResult == [kind |-> "none", stable |-> {}, removed |-> {}]

NoPlan == [base |-> 0, now |-> 0, insert |-> {}, present |-> {}, absent |-> {},
           unknownInsert |-> FALSE, unknownDelete |-> FALSE,
           local |-> "trusted", terminal |-> FALSE, terminalAt |-> 0]

NoSnapshot == [state |-> "active", terminal |-> FALSE, terminalAt |-> 0,
               lastPolled |-> 0]

Observations == [kind : {"none", "ignored", "observed"}, gen : Nat]

NoObservation == [kind |-> "none", gen |-> 0]

CollectAttempts == [pc : {"off", "started", "read", "committed"}, base : Times,
                    usable : BOOLEAN, fetched : BOOLEAN, result : Observations]

CollectOff == [pc |-> "off", base |-> 0, usable |-> FALSE, fetched |-> FALSE,
               result |-> NoObservation]

ReconcileAttempts ==
    [pc : {"off", "started", "fixtureRead", "planned", "committed", "spawned"},
     feed : Feeds \cup {NoFeed}, gen : Nat, now : Times, seen : Fixtures,
     plan : Plans, result : Results]

ReconcileOff == [pc |-> "off", feed |-> NoFeed, gen |-> 0, now |-> 0,
                 seen |-> NoSnapshot, plan |-> NoPlan, result |-> NoResult]

PollType == [phase : {"idle", "collect", "reconcile", "effects"}, id : Times,
             try : 0..MaxAttempts, feed : Feeds \cup {NoFeed}, gen : Nat,
             removed : SUBSET Rows]

PollIdle == [phase |-> "idle", id |-> 0, try |-> 0, feed |-> NoFeed, gen |-> 0,
             removed |-> {}]

(* Reconciliation has a payload.                                            *)
FeedKnown ==
    /\ poll.phase = "reconcile" => poll.feed # NoFeed
    /\ \A a \in Polls \X Tries :
          reconcile[a].pc \in {"started", "fixtureRead"} => reconcile[a].feed # NoFeed

TypeOK ==
    /\ clock \in Times
    /\ fixture \in Fixtures
    /\ status \in [Rows -> {"absent", "live", "removed"}]
    /\ count \in [Rows -> 0..Threshold]
    /\ triggered \in [Rows -> BOOLEAN]
    /\ votes \in [Rows -> SUBSET Polls]
    /\ drops \in [Rows -> SUBSET Polls]
    /\ placeholder \in BOOLEAN
    /\ checklist \in [Rows -> {"none", "open", "done", "event_removed"}]
    /\ provider \in [at : Times, gen : Nat, policy : {"trusted", "positive_only"}]
    /\ fixtureHealth \in [poll : Times, policy : Policies]
    /\ observed \in [Polls -> Observations]
    /\ receipts \in [Polls -> Results]
    /\ poll \in PollType
    /\ poll.phase # "idle" => poll.id \in Polls /\ poll.try \in Tries
    /\ collect \in [Polls \X Tries -> CollectAttempts]
    /\ reconcile \in [Polls \X Tries -> ReconcileAttempts]
    /\ FeedKnown
    /\ ingest \in [at : Times, base : Times]
    /\ discovery \in [Rows -> {"none", "running", "failed", "completed"}]
    /\ destroyed \in SUBSET Rows

Init ==
    /\ clock = 0
    /\ fixture = [state |-> "staging", terminal |-> FALSE, terminalAt |-> 0,
                  lastPolled |-> 0]
    /\ status = [r \in Rows |-> "absent"]
    /\ count = [r \in Rows |-> 0]
    /\ triggered = [r \in Rows |-> FALSE]
    /\ votes = [r \in Rows |-> {}]
    /\ drops = [r \in Rows |-> {}]
    /\ placeholder = FALSE
    /\ checklist = [r \in Rows |-> "none"]
    /\ provider = [at |-> 0, gen |-> 0, policy |-> "trusted"]
    /\ fixtureHealth = [poll |-> 0, policy |-> "trusted"]
    /\ observed = [p \in Polls |-> NoObservation]
    /\ receipts = [p \in Polls |-> NoResult]
    /\ poll = PollIdle
    /\ collect = [a \in Polls \X Tries |-> CollectOff]
    /\ reconcile = [a \in Polls \X Tries |-> ReconcileOff]
    /\ ingest = [at |-> 0, base |-> 0]
    /\ discovery = [r \in Rows |-> "none"]
    /\ destroyed = {}

-----------------------------------------------------------------------------
(* ActivePollWorkflow: the schedule skips a tick while a run is open, so    *)
(* there is one workflow at a time.                                         *)

(* The attempt the workflow waits for; any other live attempt is late.      *)
AwaitsCollect(a)   == poll.phase = "collect" /\ a = <<poll.id, poll.try>>
AwaitsReconcile(a) == poll.phase = "reconcile" /\ a = <<poll.id, poll.try>>

Late == Cardinality({a \in Polls \X Tries : collect[a].pc # "off" /\ ~AwaitsCollect(a)})
      + Cardinality({a \in Polls \X Tries : reconcile[a].pc # "off" /\ ~AwaitsReconcile(a)})

(* A scheduled run starts: it fixes its observation time, ActivateUpcoming  *)
(* promotes the fixture when the kickoff window is reached, and a run that  *)
(* lists the fixture as active fetches it (feed, or NoFeed when the fetch   *)
(* failed) and schedules CollectProviderHealth in both cases.               *)
StartPoll(kickoff, feed) ==
    LET id == clock + 1
        active == fixture.state = "active" \/ (fixture.state = "staging" /\ kickoff)
    IN /\ poll.phase = "idle"
       /\ clock < MaxClock
       /\ clock' = id
       /\ fixture' = [fixture EXCEPT !.state = IF active THEN "active" ELSE @]
       /\ IF active
          THEN /\ poll' = [PollIdle EXCEPT !.phase = "collect", !.id = id,
                                           !.try = 1, !.feed = feed]
               /\ collect' = [collect EXCEPT ![<<id, 1>>] =
                                 [CollectOff EXCEPT !.pc = "started",
                                                    !.fetched = feed # NoFeed]]
          ELSE UNCHANGED <<poll, collect>>
       /\ UNCHANGED <<events, checklist, health, receipts, reconcile, ingest,
                      discovery, destroyed>>

(* The awaited attempt failed (its worker died, or a call of its own        *)
(* failed), or it timed out; Temporal starts the next one.  After a timeout *)
(* the old attempt may live on: late says so.                               *)
RetryCollect(late) ==
    LET next == poll.try + 1
    IN /\ poll.phase = "collect"
       /\ next \in Tries
       /\ late => Late < MaxLate
       /\ poll' = [poll EXCEPT !.try = next]
       /\ collect' = [collect EXCEPT
             ![<<poll.id, poll.try>>] = IF late THEN @ ELSE CollectOff,
             ![<<poll.id, next>>] = [CollectOff EXCEPT !.pc = "started",
                                                       !.fetched = poll.feed # NoFeed]]
       /\ UNCHANGED <<clock, fixture, events, checklist, health, receipts,
                      reconcile, ingest, discovery, destroyed>>

RetryReconcile(late) ==
    LET next == poll.try + 1
    IN /\ poll.phase = "reconcile"
       /\ next \in Tries
       /\ late => Late < MaxLate
       /\ poll' = [poll EXCEPT !.try = next]
       /\ reconcile' = [reconcile EXCEPT
             ![<<poll.id, poll.try>>] = IF late THEN @ ELSE ReconcileOff,
             ![<<poll.id, next>>] = [ReconcileOff EXCEPT !.pc = "started",
                                                         !.feed = poll.feed,
                                                         !.gen = poll.gen]]
       /\ UNCHANGED <<clock, fixture, events, checklist, health, receipts,
                      collect, ingest, discovery, destroyed>>

(* The last attempt failed: without a health receipt, or without a          *)
(* reconcile result, the run ends and its remaining effects are lost.       *)
GiveUp(late) ==
    LET a == <<poll.id, poll.try>>
    IN /\ poll.phase \in {"collect", "reconcile"}
       /\ poll.try = MaxAttempts
       /\ late => Late < MaxLate
       /\ poll' = PollIdle
       /\ collect' = IF poll.phase = "collect" /\ ~late
                     THEN [collect EXCEPT ![a] = CollectOff] ELSE collect
       /\ reconcile' = IF poll.phase = "reconcile" /\ ~late
                       THEN [reconcile EXCEPT ![a] = ReconcileOff] ELSE reconcile
       /\ UNCHANGED <<clock, fixture, events, checklist, health, receipts,
                      ingest, discovery, destroyed>>

-----------------------------------------------------------------------------
(* CollectProviderHealth.                                                   *)

(* healthComparison: a fetched payload is usable unless the canonical       *)
(* snapshot is already newer than this observation.                         *)
HealthComparison(a) ==
    /\ collect[a].pc = "started"
    /\ LET usable == collect[a].fetched /\ fixture.lastPolled <= a[1]
       IN collect' = [collect EXCEPT ![a] =
             [@ EXCEPT !.pc = "read", !.usable = usable,
                       !.base = IF usable THEN fixture.lastPolled ELSE 0]]
    /\ UNCHANGED <<clock, fixture, events, checklist, health, receipts, poll,
                   reconcile, ingest, discovery, destroyed>>

(* The attempt has its result, which only matters when it is awaited.       *)
CollectResult(a, result) ==
    collect' = [collect EXCEPT ![a] =
        IF AwaitsCollect(a)
        THEN [CollectOff EXCEPT !.pc = "committed", !.result = result]
        ELSE CollectOff]

(* The poll's result is stored and results past the retention are pruned.   *)
RecordObservation(a, result, at) ==
    /\ observed' = [p \in Polls |-> IF p + Retention < at THEN NoObservation
                                   ELSE IF p = a[1] THEN result ELSE observed[p]]
    /\ CollectResult(a, result)

(* ProviderHealthRepo.Observe: one finalized assessment per poll.  A retry  *)
(* returns the stored result, a delayed poll is ignored, and a usable       *)
(* observation whose baseline moved is an error (the attempt fails). *)
(* The verdicts are ObserveFixture's and ObserveProvider's, which keep      *)
(* evidence this module leaves out; an unusable observation opens an        *)
(* incident whose policy is rejected.                                       *)
Observe(a, providerPolicy, fixturePolicy) ==
    LET id == a[1]
        gen == IF providerPolicy = provider.policy THEN provider.gen ELSE provider.gen + 1
    IN /\ collect[a].pc = "read"
       /\ \/ /\ observed[id].kind # "none"
             /\ CollectResult(a, observed[id])
             /\ UNCHANGED health
          \/ /\ observed[id].kind = "none"
             /\ id <= provider.at
             /\ RecordObservation(a, [kind |-> "ignored", gen |-> provider.gen], provider.at)
             /\ UNCHANGED <<provider, fixtureHealth>>
          \/ /\ observed[id].kind = "none"
             /\ id > provider.at
             /\ collect[a].usable => fixture.lastPolled = collect[a].base
             /\ provider' = [at |-> id, gen |-> gen, policy |-> providerPolicy]
             /\ fixtureHealth' = [poll |-> id, policy |-> IF collect[a].usable
                                                         THEN fixturePolicy ELSE "rejected"]
             /\ RecordObservation(a, [kind |-> "observed", gen |-> gen], id)
       /\ UNCHANGED <<clock, fixture, events, checklist, receipts, poll, reconcile,
                      ingest, discovery, destroyed>>

(* The result reaches the workflow.  It ends here when nothing was fetched  *)
(* or the observation is ignored; otherwise it schedules ReconcileFixture   *)
(* with the generation of the result.                                       *)
CollectReturns ==
    LET a == <<poll.id, poll.try>>
        result == collect[a].result
        proceeds == poll.feed # NoFeed /\ result.kind = "observed"
    IN /\ poll.phase = "collect"
       /\ collect[a].pc = "committed"
       /\ collect' = [collect EXCEPT ![a] = CollectOff]
       /\ IF proceeds
          THEN /\ poll' = [poll EXCEPT !.phase = "reconcile", !.try = 1,
                                       !.gen = result.gen]
               /\ reconcile' = [reconcile EXCEPT ![<<poll.id, 1>>] =
                                   [ReconcileOff EXCEPT !.pc = "started",
                                      !.feed = poll.feed,
                                      !.gen = result.gen]]
          ELSE /\ poll' = PollIdle
               /\ UNCHANGED reconcile
       /\ UNCHANGED <<clock, fixture, events, checklist, health, receipts,
                      ingest, discovery, destroyed>>

-----------------------------------------------------------------------------
(* ReconcileFixture (reconcileGuarded): two reads, a plan, one transaction. *)

(* The fixture row is read first: its last_polled_at is the plan's          *)
(* baseline.  The activity's own clock is read with it.                     *)
ReadFixture(a) ==
    /\ reconcile[a].pc = "started"
    /\ reconcile' = [reconcile EXCEPT ![a] =
          [@ EXCEPT !.pc = "fixtureRead", !.seen = fixture, !.now = clock]]
    /\ UNCHANGED <<clock, fixture, events, checklist, health, receipts, poll,
                   collect, ingest, discovery, destroyed>>

LiveRows == {r \in Rows : status[r] = "live"}

RowsOf(p, S) == {r \in S : r[1] = p}

(* assignEventSequences: sequences above the scorer's complete history,     *)
(* active and removed.                                                      *)
AboveActive(p) ==                                                 \* mutant
    {s \in 1..MaxSequence : \A u \in s..MaxSequence : status[<<p, u>>] # "live"}
AboveHistory(p) ==
    {s \in 1..MaxSequence : \A u \in s..MaxSequence : status[<<p, u>>] = "absent"}

(* The next n of them, in order: a new key per unmatched entry.             *)
FreshRows(p, n) ==
    {r \in Rows : /\ r[1] = p
                  /\ r[2] \in AboveHistory(p)
                  /\ Cardinality({s \in AboveHistory(p) : s < r[2]}) < n}

(* The matchings assignEventSequences can produce for a feed.  It matches   *)
(* by match clock within a tolerance; clocks are not modelled, so any live  *)
(* row of the scorer may be the one an entry matches, or none of them.      *)
Matching(matched, feed) ==
    /\ matched \subseteq LiveRows
    /\ \A p \in Players :
          LET unmatched == feed.goals[p] - Cardinality(RowsOf(p, matched))
          IN unmatched >= 0 /\ unmatched <= Cardinality(AboveHistory(p))

(* AssessFixture: a payload that drops a confirmed event or a terminal      *)
(* status without support may only add facts.                               *)
LocalPolicy(feed, seen, matched) ==
    LET confirmedMissing == \E r \in LiveRows \ matched : triggered[r]
    IN IF feed.anomaly = "rejected" THEN "rejected"
       ELSE IF \/ feed.anomaly = "positive_only"
               \/ seen.terminal /\ ~feed.terminal
               \/ confirmedMissing /\ ~feed.supported
       THEN "positive_only" ELSE "trusted"

(* UpdateFromPoll: the first terminal observation starts the grace period,  *)
(* a later non-terminal one forgets it.                                     *)
TerminalSince(seen, terminal, at) ==
    IF ~terminal THEN 0 ELSE IF seen.terminalAt = 0 THEN at ELSE seen.terminalAt

(* The plan for poll id: entries that match a row vote for it, the others   *)
(* are new rows; live rows without an entry get an absence vote unless the  *)
(* score still requires the omitted goal.                                   *)
PlannedUnfiltered(id, feed, seen, now, matched) ==                \* mutant
    [base |-> seen.lastPolled, now |-> now,
     insert |-> UNION {FreshRows(p, feed.goals[p] - Cardinality(RowsOf(p, matched))) :
                       p \in Players},
     present |-> matched, absent |-> LiveRows,
     unknownInsert |-> FALSE, unknownDelete |-> FALSE, local |-> "trusted",
     terminal |-> feed.terminal,
     terminalAt |-> TerminalSince(seen, feed.terminal, id)]
Planned(id, feed, seen, now, matched) ==
    [base |-> seen.lastPolled, now |-> now,
     insert |-> UNION {FreshRows(p, feed.goals[p] - Cardinality(RowsOf(p, matched))) :
                       p \in Players},
     present |-> matched,
     absent |-> {r \in LiveRows \ matched : r[1] \notin feed.held},
     unknownInsert |-> feed.unknown /\ ~placeholder,
     unknownDelete |-> ~feed.unknown /\ placeholder,
     local |-> LocalPolicy(feed, seen, matched),
     terminal |-> feed.terminal,
     terminalAt |-> TerminalSince(seen, feed.terminal, id)]

(* The event history is read second and the immutable plan is built.        *)
PlanMutation(a, matched) ==
    /\ reconcile[a].pc = "fixtureRead"
    /\ Matching(matched, reconcile[a].feed)
    /\ reconcile' = [reconcile EXCEPT
          ![a] = [ReconcileOff EXCEPT
                    !.pc = "planned", !.gen = reconcile[a].gen,
                    !.plan = Planned(a[1], reconcile[a].feed, reconcile[a].seen,
                                     reconcile[a].now, matched)]]
    /\ UNCHANGED <<clock, fixture, events, checklist, health, receipts, poll,
                   collect, ingest, discovery, destroyed>>

-----------------------------------------------------------------------------
(* ProviderMutationRepo.ApplyActive.                                        *)

(* The plan is still about the current rows: nothing was written since the  *)
(* baseline was read, and the newest health evidence is this poll's.        *)
FreshPlan(a) ==
    LET plan == reconcile[a].plan
    IN /\ fixture.state = "active"
       /\ fixture.lastPolled = plan.base
       /\ a[1] > fixture.lastPolled
       /\ provider.at = a[1]
       /\ provider.gen = reconcile[a].gen
       /\ fixtureHealth.poll = a[1]

RestrictPolicies(S) ==
    IF "rejected" \in S THEN "rejected"
    ELSE IF "positive_only" \in S THEN "positive_only" ELSE "trusted"

(* DecideMutation: shadow mode only records what enforcement would do.      *)
DecideLocally(local) == IF Mode = "shadow" THEN "trusted" ELSE local   \* mutant
DecideMutation(local) ==
    IF Mode = "shadow" THEN "trusted"
    ELSE RestrictPolicies({provider.policy, fixtureHealth.policy, local})

(* The SQL of the plan succeeds: a new key is unused, a vote for a row      *)
(* finds it live, an absence vote finds it, and so does every field update. *)
PlanApplies(plan, id, trusted) ==
    /\ \A r \in plan.insert : status[r] = "absent"
    /\ \A r \in plan.present : \/ status[r] = "live"
                               \/ status[r] = "removed" /\ id \in votes[r]
    /\ trusted => \A r \in plan.absent : status[r] # "absent"
    /\ plan.unknownInsert => ~placeholder
    /\ trusted /\ plan.unknownDelete => placeholder

(* The rows that this poll's vote counts for: one vote per poll and side.   *)
Present(plan, id) == {r \in plan.present : id \notin votes[r]}
Absent(plan, id)  == {r \in plan.absent : id \notin drops[r]}

(* registerPresenceTx: the third net vote confirms the event, once.         *)
BecomesStableEarly(plan, id) ==                                   \* mutant
    {r \in Present(plan, id) \cup plan.insert : count[r] + 2 >= Threshold /\ ~triggered[r]}
BecomesStable(plan, id) ==
    {r \in Present(plan, id) : count[r] + 1 >= Threshold /\ ~triggered[r]}

(* registerAbsenceTx: the vote that empties the counter removes the event.  *)
BecomesRemovedEarly(plan, id) ==                                  \* mutant
    {r \in Absent(plan, id) : count[r] <= 2 /\ status[r] # "removed"}
BecomesRemoved(plan, id) ==
    {r \in Absent(plan, id) : count[r] <= 1 /\ status[r] # "removed"}

ApplyInserts(plan, r) == r \in plan.insert

DebounceCount(plan, id, absences, r) ==
    IF ApplyInserts(plan, r) THEN 1
    ELSE IF r \in Present(plan, id)
    THEN IF count[r] < Threshold THEN count[r] + 1 ELSE Threshold
    ELSE IF r \in absences
    THEN IF count[r] > 0 THEN count[r] - 1 ELSE 0
    ELSE count[r]

(* completeFixtureIfReadyTx, on the rows the transaction has just written.  *)
CompletionUnchecked(plan, newFixture, newStatus, newCount, newTriggered, newChecklist) ==  \* mutant
    /\ newFixture.terminal
    /\ newFixture.terminalAt # 0 /\ newFixture.terminalAt + Grace <= plan.now
    /\ \A r \in Rows : newStatus[r] = "live" /\ ~newTriggered[r] => newCount[r] = 0
CompletionReady(plan, newFixture, newStatus, newCount, newTriggered, newChecklist) ==
    /\ newFixture.terminal
    /\ newFixture.terminalAt # 0
    /\ newFixture.terminalAt + Grace <= plan.now
    /\ \A r \in Rows : newStatus[r] = "live" /\ ~newTriggered[r] => newCount[r] = 0
    /\ \A r \in Rows : newChecklist[r] # "open"

(* mergePositiveFixture keeps terminal_observed_at, and the status too when *)
(* adopting it would regress the fixture; phase and clock regressions are   *)
(* not modelled, so a status may be kept without a visible reason.          *)
UpdatedFixture(plan, id, policy, adopt) ==
    [fixture EXCEPT
        !.terminal = IF policy = "trusted" \/ adopt THEN plan.terminal ELSE @,
        !.terminalAt = IF policy = "trusted" THEN plan.terminalAt ELSE @,
        !.lastPolled = id]

(* commitMutationResult: the receipt is written, old receipts are pruned,   *)
(* and the attempt has its result.                                          *)
CommitResult(a, result) ==
    /\ receipts' = [p \in Polls |-> IF p + Retention < a[1] THEN NoResult
                                   ELSE IF p = a[1] THEN result ELSE receipts[p]]
    /\ reconcile' = [reconcile EXCEPT ![a] =
                        [ReconcileOff EXCEPT !.pc = "committed", !.result = result]]

(* The confirming vote opens the discovery row, the removing vote closes it.*)
ChecklistLeftOpen(stable, removed) ==                             \* mutant
    [r \in Rows |-> IF r \in stable /\ checklist[r] = "none" THEN "open" ELSE checklist[r]]
CommittedChecklist(stable, removed) ==
    [r \in Rows |-> IF r \in stable /\ checklist[r] = "none" THEN "open"
                   ELSE IF r \in removed /\ checklist[r] = "open"
                   THEN "event_removed" ELSE checklist[r]]

(* The transaction of a plan that is neither stale nor rejected.            *)
CommitPlan(a, policy, adopt) ==
    LET id == a[1]
        plan == reconcile[a].plan
        trusted == policy = "trusted"
        absences == IF trusted THEN Absent(plan, id) ELSE {}
        stable == BecomesStable(plan, id)
        removed == IF trusted THEN BecomesRemoved(plan, id) ELSE {}
        updated == UpdatedFixture(plan, id, policy, adopt)
    IN /\ PlanApplies(plan, id, trusted)
       /\ adopt => (fixture.terminal => plan.terminal)
       /\ status' = [r \in Rows |-> IF ApplyInserts(plan, r) THEN "live"
                                    ELSE IF r \in removed THEN "removed" ELSE status[r]]
       /\ count' = [r \in Rows |-> DebounceCount(plan, id, absences, r)]
       /\ triggered' = [r \in Rows |-> triggered[r] \/ r \in stable]
       /\ votes' = [r \in Rows |-> IF ApplyInserts(plan, r) \/ r \in plan.present
                                   THEN votes[r] \cup {id} ELSE votes[r]]
       /\ drops' = [r \in Rows |-> IF r \in absences
                                   THEN drops[r] \cup {id} ELSE drops[r]]
       /\ placeholder' = IF plan.unknownInsert THEN TRUE
                         ELSE placeholder /\ ~(trusted /\ plan.unknownDelete)
       /\ checklist' = CommittedChecklist(stable, removed)
       /\ fixture' = IF trusted /\ CompletionReady(plan, updated, status', count',
                                                   triggered', checklist')
                     THEN [updated EXCEPT !.state = "completed"] ELSE updated
       /\ CommitResult(a, [kind |-> "applied", stable |-> stable, removed |-> removed])

(* A receipt for the poll ends the transaction; a stale or a rejected plan  *)
(* writes a receipt and nothing else.                                       *)
ApplyActive(a, adopt) ==
    LET id == a[1]
        policy == DecideMutation(reconcile[a].plan.local)
    IN /\ reconcile[a].pc = "planned"
       /\ \/ /\ receipts[id].kind # "none"
             /\ reconcile' = [reconcile EXCEPT ![a] =
                   [ReconcileOff EXCEPT !.pc = "committed", !.result = receipts[id]]]
             /\ UNCHANGED <<fixture, events, checklist, receipts>>
          \/ /\ receipts[id].kind = "none"
             /\ ~FreshPlan(a)
             /\ CommitResult(a, [NoResult EXCEPT !.kind = "stale"])
             /\ UNCHANGED <<fixture, events, checklist>>
          \/ /\ receipts[id].kind = "none"
             /\ FreshPlan(a)
             /\ policy = "rejected"
             /\ CommitResult(a, [NoResult EXCEPT !.kind = "rejected"])
             /\ UNCHANGED <<fixture, events, checklist>>
          \/ /\ receipts[id].kind = "none"
             /\ FreshPlan(a)
             /\ policy # "rejected"
             /\ CommitPlan(a, policy, adopt)
       /\ UNCHANGED <<clock, health, poll, collect, ingest, discovery, destroyed>>

-----------------------------------------------------------------------------
(* After the transaction.                                                   *)

(* EventsAwaitingDiscovery: confirmed, not removed, no closed discovery row.*)
AwaitingUnconfirmed ==                                            \* mutant
    {r \in Rows : status[r] = "live" /\ checklist[r] \in {"none", "open"}}
AwaitingDiscovery ==
    {r \in Rows : triggered[r] /\ status[r] # "removed" /\ checklist[r] \in {"none", "open"}}

(* registerAndSpawnEvent for the receipt's stable events and then for every *)
(* event still awaiting discovery.  Each register and each spawn may fail;  *)
(* a failure is only reported.  A running or a completed workflow with the  *)
(* event's deterministic ID is left alone.  A stale result returns at once. *)
SpawnEvents(a, spawned) ==
    LET result == reconcile[a].result
        due == IF result.kind = "stale" THEN {} ELSE result.stable \cup AwaitingDiscovery
    IN /\ reconcile[a].pc = "committed"
       /\ spawned \subseteq due
       /\ checklist' = [r \in Rows |-> IF r \in spawned /\ checklist[r] = "none"
                                       THEN "open" ELSE checklist[r]]
       /\ discovery' = [r \in Rows |->
                           IF r \in spawned /\ discovery[r] \in {"none", "failed"}
                           THEN "running" ELSE discovery[r]]
       /\ reconcile' = [reconcile EXCEPT ![a] =
             IF AwaitsReconcile(a) THEN [@ EXCEPT !.pc = "spawned"] ELSE ReconcileOff]
       /\ UNCHANGED <<clock, fixture, events, health, receipts, poll, collect,
                      ingest, destroyed>>

(* The result reaches the workflow, which goes on to its effects.           *)
ReconcileReturns ==
    LET a == <<poll.id, poll.try>>
    IN /\ poll.phase = "reconcile"
       /\ reconcile[a].pc = "spawned"
       /\ reconcile' = [reconcile EXCEPT ![a] = ReconcileOff]
       /\ poll' = [poll EXCEPT !.phase = "effects",
                               !.removed = reconcile[a].result.removed]
       /\ UNCHANGED <<clock, fixture, events, checklist, health, receipts,
                      collect, ingest, discovery, destroyed>>

(* VAR destroy: for each removed event the workflow asks its discovery to   *)
(* stop and runs DestroyEvent; either may fail, and the run ends.           *)
DestroyRemoved(cancelled, done) ==
    /\ poll.phase = "effects"
    /\ cancelled \subseteq {r \in poll.removed : discovery[r] = "running"}
    /\ done \subseteq poll.removed
    /\ discovery' = [r \in Rows |-> IF r \in cancelled THEN "failed" ELSE discovery[r]]
    /\ destroyed' = destroyed \cup done
    /\ poll' = PollIdle
    /\ UNCHANGED <<clock, fixture, events, checklist, health, receipts,
                   attempts, ingest>>

-----------------------------------------------------------------------------
(* The other writers of these rows.                                         *)

(* finalizeEvent: the discovery workflow closes its checklist row (a no-op  *)
(* when the row was already closed) and completes.                          *)
CompleteDownstream(r) ==
    /\ discovery[r] = "running"
    /\ checklist[r] # "none"
    /\ checklist' = [checklist EXCEPT ![r] = IF @ = "open" THEN "done" ELSE @]
    /\ discovery' = [discovery EXCEPT ![r] = "completed"]
    /\ UNCHANGED <<clock, fixture, events, health, receipts, poll, attempts,
                   ingest, destroyed>>

(* A discovery run fails, is terminated or is cancelled late.               *)
DiscoveryFails(r) ==
    /\ discovery[r] = "running"
    /\ discovery' = [discovery EXCEPT ![r] = "failed"]
    /\ UNCHANGED <<clock, fixture, events, checklist, health, receipts, poll,
                   attempts, ingest, destroyed>>

(* The ingest workflow stores the fixture too.  It reads the baseline, then *)
(* commits under the same guard.                                            *)
StartIngest ==
    /\ ingest.at = 0
    /\ clock + 1 \in IngestTimes
    /\ clock' = clock + 1
    /\ ingest' = [at |-> clock + 1, base |-> fixture.lastPolled]
    /\ UNCHANGED <<fixture, events, checklist, health, receipts, poll, attempts,
                   discovery, destroyed>>

(* ApplyFixture in ingest mode: the lifecycle fields and                    *)
(* terminal_observed_at stay, status and last_polled_at are the payload's.  *)
(* Enforcement keeps a terminal status that the payload would take back.    *)
(* A stale, rejected or failed write changes nothing.                       *)
CommitIngest(terminal) ==
    LET fresh == ingest.base = fixture.lastPolled /\ ingest.at > fixture.lastPolled
    IN /\ ingest.at # 0
       /\ \/ UNCHANGED fixture
          \/ /\ fresh
             /\ fixture' = [fixture EXCEPT
                               !.terminal = IF Mode = "enforce" THEN @ \/ terminal
                                            ELSE terminal,
                               !.lastPolled = ingest.at]
       /\ ingest' = [at |-> 0, base |-> 0]
       /\ UNCHANGED <<clock, events, checklist, health, receipts, poll, attempts,
                      discovery, destroyed>>

-----------------------------------------------------------------------------
Next ==
    \/ \E kickoff \in BOOLEAN, feed \in Feeds \cup {NoFeed} : StartPoll(kickoff, feed)
    \/ \E late \in BOOLEAN : RetryCollect(late) \/ RetryReconcile(late) \/ GiveUp(late)
    \/ \E a \in Polls \X Tries : HealthComparison(a)
    \/ \E a \in Polls \X Tries, pp \in ProviderPolicies, fp \in FixturePolicies :
          Observe(a, pp, fp)
    \/ CollectReturns
    \/ \E a \in Polls \X Tries : ReadFixture(a)
    \/ \E a \in Polls \X Tries, matched \in SUBSET LiveRows : PlanMutation(a, matched)
    \/ \E a \in Polls \X Tries, adopt \in BOOLEAN : ApplyActive(a, adopt)
    \/ \E a \in Polls \X Tries, spawned \in SUBSET Rows : SpawnEvents(a, spawned)
    \/ ReconcileReturns
    \/ \E cancelled, done \in SUBSET Rows : DestroyRemoved(cancelled, done)
    \/ \E r \in Rows : CompleteDownstream(r)
    \/ \E r \in Rows : DiscoveryFails(r)
    \/ StartIngest
    \/ \E terminal \in BOOLEAN : CommitIngest(terminal)

Spec == Init /\ [][Next]_vars

-----------------------------------------------------------------------------
(* Properties. *)

(* An event is confirmed, and its discovery started, only after three       *)
(* different polls have seen it (registerPresenceTx), whatever retries and  *)
(* late attempts do.                                                        *)
ConfirmedByThreePolls ==
    \A r \in Rows : triggered[r] => Cardinality(votes[r]) >= Threshold

(* A confirmed event is removed as a VAR decision only after three          *)
(* different polls have missed it (registerAbsenceTx).                      *)
RemovedByThreePolls ==
    \A r \in Rows : triggered[r] /\ status[r] = "removed"
                       => Cardinality(drops[r]) >= Threshold

(* No poll counts for and against the same event: a retry after a lost      *)
(* result finds the receipt, not the rows its own commit changed.           *)
OneVotePerPoll ==
    \A r \in Rows : votes[r] \cap drops[r] = {}

(* A plan that passes ApplyActive's staleness test is about the rows as     *)
(* they are: its inserts are new keys and its votes find live rows.  This   *)
(* rests on reading the fixture before the events in reconcileGuarded.      *)
FreshPlanApplies ==
    \A a \in Polls \X Tries :
       reconcile[a].pc = "planned" /\ receipts[a[1]].kind = "none" /\ FreshPlan(a)
          => LET plan == reconcile[a].plan
             IN /\ \A r \in plan.insert : status[r] = "absent"
                /\ \A r \in plan.present \cup plan.absent : status[r] = "live"
                /\ plan.unknownInsert => ~placeholder
                /\ plan.unknownDelete => placeholder

(* The checklist and the event agree: a discovery row exists exactly for    *)
(* the confirmed events, and none is left open for a removed event, which   *)
(* would keep the fixture active for ever.                                  *)
ChecklistMatchesEvent ==
    \A r \in Rows : /\ triggered[r] <=> checklist[r] # "none"
                    /\ status[r] = "removed" => checklist[r] # "open"

(* A completed fixture has nothing in debounce and no discovery pending     *)
(* (completeFixtureIfReadyTx), and no late attempt reopens it.              *)
CompletedIsSettled ==
    fixture.state = "completed" =>
       \A r \in Rows : /\ status[r] = "live" => triggered[r]
                       /\ checklist[r] # "open"

(* The live feed of clips is only destroyed for events that were removed,   *)
(* and a discovery only ever runs for a confirmed event.                    *)
EffectsFollowRows ==
    /\ \A r \in destroyed : status[r] = "removed"
    /\ \A r \in Rows : discovery[r] # "none" => triggered[r]

(* Polls take effect in the order they observed the provider: a vote is     *)
(* never cast by a poll older than one that has already voted on the event. *)
VoteIsNewest ==
    \A r \in Rows :
       \A new \in (votes'[r] \cup drops'[r]) \ (votes[r] \cup drops[r]) :
          \A old \in votes[r] \cup drops[r] : old < new

VotesInOrder == [][VoteIsNewest]_vars

(* A fixture only moves forward, its baseline never goes back, a            *)
(* confirmation is never withdrawn and a removed event stays removed.       *)
MovesForward ==
    /\ fixture.state = "completed" => fixture'.state = "completed"
    /\ fixture.state = "active" => fixture'.state # "staging"
    /\ fixture.lastPolled <= fixture'.lastPolled
    /\ \A r \in Rows : /\ triggered[r] => triggered'[r]
                       /\ status[r] = "removed" => status'[r] = "removed"

LifecycleForward == [][MovesForward]_vars

(* Under enforcement an absence vote is only cast by a poll whose own       *)
(* evidence, as committed by CollectProviderHealth, trusts the provider and *)
(* the fixture: neither an older nor a newer verdict is used.               *)
DropsAreTrusted ==
    Mode = "enforce" =>
       \A r \in Rows : \A id \in drops'[r] \ drops[r] :
          /\ provider.at = id /\ provider.policy = "trusted"
          /\ fixtureHealth = [poll |-> id, policy |-> "trusted"]

NegativeVotesAreTrusted == [][DropsAreTrusted]_vars

(* After completion no attempt, however late, changes an event, a vote or   *)
(* the checklist.                                                           *)
KeepsCompleted == fixture.state = "completed" => UNCHANGED <<events, checklist>>

CompletedIsFinal == [][KeepsCompleted]_vars

Lifecycle(r) == INSTANCE DiscoveryLifecycle WITH
    removed <- status[r] = "removed", checklist <- checklist[r],
    discovery <- discovery[r], open <- {}

LifecycleStep == \A r \in Rows : [Lifecycle(r)!Next]_(Lifecycle(r)!vars)

(* For every event the rows and the workflow go through the life cycle that *)
(* EventDiscovery implements: late spawns, cancellations and lost results   *)
(* never restart a completed discovery, and a removal closes its row.       *)
DiscoveryContract == (\A r \in Rows : Lifecycle(r)!Init) /\ [][LifecycleStep]_vars

-----------------------------------------------------------------------------
(* The inductive invariant behind them.                                     *)

(* Every vote was cast by a poll the fixture's baseline has reached.        *)
VotesBelowBaseline ==
    \A r \in Rows : \A q \in votes[r] \cup drops[r] : q <= fixture.lastPolled

(* What the counter means while the row is absent, live or removed.         *)
CounterMeaning ==
    \A r \in Rows :
       /\ status[r] = "absent" => ~triggered[r] /\ votes[r] = {} /\ drops[r] = {}
       /\ status[r] = "live" => count[r] >= 1
       /\ status[r] = "removed" => count[r] = 0
       /\ count[r] <= Cardinality(votes[r])
       /\ triggered[r] => count[r] + Cardinality(drops[r]) >= Threshold

(* A plan is against the baseline it read, and no row is in both votes; if  *)
(* the baseline still stands the plan fits the rows.                        *)
PlansAreSound ==
    \A a \in Polls \X Tries :
       /\ reconcile[a].pc = "fixtureRead" => reconcile[a].seen.lastPolled <= fixture.lastPolled
       /\ reconcile[a].pc = "planned" =>
             LET plan == reconcile[a].plan
             IN /\ plan.base <= fixture.lastPolled
                /\ plan.present \cap plan.absent = {}
                /\ plan.base = fixture.lastPolled =>
                      /\ \A r \in plan.insert : status[r] = "absent"
                      /\ \A r \in plan.present \cup plan.absent : status[r] = "live"
                      /\ plan.unknownInsert => ~placeholder
                      /\ plan.unknownDelete => placeholder

(* What a result claims has happened has happened.                          *)
ResultHolds(result) ==
    /\ \A r \in result.stable : triggered[r]
    /\ \A r \in result.removed : status[r] = "removed"

ResultsHold ==
    /\ \A p \in Polls : ResultHolds(receipts[p])
    /\ \A a \in Polls \X Tries : ResultHolds(reconcile[a].result)
    /\ \A r \in poll.removed : status[r] = "removed"

IndInv ==
    /\ TypeOK
    /\ VotesBelowBaseline
    /\ CounterMeaning
    /\ PlansAreSound
    /\ ResultsHold
    /\ ConfirmedByThreePolls
    /\ OneVotePerPoll
    /\ ChecklistMatchesEvent
    /\ CompletedIsSettled
    /\ EffectsFollowRows
=============================================================================
