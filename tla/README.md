# found-footy: TLA+ models and proofs

found-footy watches football fixtures through a polled provider, confirms goals,
red cards and missed penalties by counting polls, starts a discovery workflow for
every confirmed event, and turns the posts it finds into a small set of public
clips. Everything durable is in PostgreSQL and Garage; Temporal runs the
workflows and repeats their activities. What is hard in it is not the football:
it is that every activity may be repeated, may outlive its timeout, may lose its
result, and may find that the rows it planned against have changed.

This directory holds TLA+ models of that part, the TLC runs that check them on
small instances, and proofs of their safety for every instance.

| file | contents |
|---|---|
| `FixtureMonitor.tla` | the 30-second poll of one fixture: health, reconciliation, votes, checklist, completion |
| `FixtureMonitor_proofs.tla` | its inductive invariant and theorems, checked by TLAPS, as are all `_proofs` modules |
| `ProviderHealth.tla` | the evidence that decides how far the provider is trusted: freshness, incidents, correlation, recovery |
| `HealthAndReplay_proofs.tla` | the inductive invariants and theorems of `ProviderHealth` and of `OperatorReplay`, which share nothing |
| `FixtureIntake.tla` | the other writers of a fixture row: ingest, staging poll, activation, completion, and the announcement of changes |
| `FixtureIntake_proofs.tla` | order of the facts of a row, announcement of its changes |
| `IngestWindow.tla` | the team cache and the days an ingest asks for |
| `DiscoveryLifecycle.tla` | abstract: what the monitor and the discovery of an event promise each other |
| `EventDiscovery.tla` | the discovery of one event: producer, pipeline, recovery, placement, removal |
| `EventDiscovery_proofs.tla` | its inductive invariant, what the planner promises, and the refinement of `DiscoveryLifecycle` |
| `VideoSelection.tla` | `PlanSelection`, the planner of the public clips, as operators |
| `SearchScan.tla` | the repeated searches of one goal: scroll loop, window, early stop, crash |
| `CandidateMedia.tla` | download, hash and vision of a clip: semaphores, scratch files, errors, retries |
| `CandidateMedia_proofs.tla` | verdicts, exhausted failures and slots, for any number of clips |
| `MatchClock.tla` | the clock check of a clip, from the displayed clock to the verdict |
| `ClipStore.tla` | the media of one event: rows, shares, bytes and credits under placement, reselection, removal, retention |
| `ClipStore_proofs.tla` | its inductive invariant on the three placement paths, and its theorems |
| `FirefoxFleet.tla` | the browsers: provision, release and reaper against the rows that own them |
| `FirefoxFleet_proofs.tla` | its inductive invariant and theorems |
| `TwitterSession.tla` | the login sessions of the browsers and the cookie file they share |
| `OperatorReplay.tla` | the operator tools that reopen a finished discovery |
| `SchemaMigrations.tla` | the migrate command and the start-up gate of the services |
| `SmallParts_proofs.tla` | the theorems of `SchemaMigrations`, `IngestWindow`, `TwitterSession`, `MatchClock` and `SearchScan` |
| `MC*.tla`, `MC*.cfg` | the instances: payloads, contents, match relations, releases, symmetries; one configuration per run |
| `PROJECT.json` | components, runs, mutants, source map, hazards, theorems |

## 1. Inventory

Paths are below `src/internal/`. "Rows" are PostgreSQL tables.

| component | state it keeps | operations | hard behaviour | what makes it correct |
|---|---|---|---|---|
| Active poll (`workflow/active_poll.go`) | the running workflow | activate, fetch, collect health, reconcile, destroy removed events | attempts that outlive a timeout, effects lost with a result | effects follow committed rows |
| Guarded reconciliation (`activity/monitor/reconcile_guarded.go`, `infra/pg/provider_mutation_repo.go`) | fixtures, events, votes, drops, checklist, receipts | read, plan, apply | two reads without a transaction, retries, pruned receipts, late commits | one vote per poll, in order; three polls confirm and remove; completion only when settled |
| Provider health (`infra/pg/provider_health_repo.go`, `domain/providerintegrity`) | provider and fixture health, incidents, probes, poll receipts | collect, observe, correlate, recover | late, repeated and missing polls; a clock that goes back and forth | a write is decided by its own poll's evidence; a frozen match is restricted; trust is earned |
| Event discovery (`workflow/event*.go`, `activity/discovery`, `infra/pg/candidate_repo.go`) | candidates, progress, and the memory of a run | search, store, download, hash, validate, record, finalize | two coroutines, queues behind one claimant, restart from rows | no post lost, no outcome overwritten, the checklist row closes |
| Clip placement (`activity/video/persist.go`, `infra/pg/video_placement_*.go`, `infra/pg/video_selection_*.go`) | assets, shares, popularity, credits, receipts, objects | commit placement, destroy event, operator selection | removal and retention race a placement; stale snapshots; late attempts | popularity counts supporters once; what is served has its bytes; nothing after removal |
| Selection planner (`domain/video/selection*.go`) | none | `PlanSelection` | matching is not transitive | every accepted clip is shown directly |
| Ingest and staging (`workflow/ingest.go`, `workflow/staging_poll.go`, `activity/ingest`) | fixtures, tracked-team cache | refresh teams, fetch days, categorise, stage, activate | concurrent writers of a fixture row, partial refreshes | older observations never win; a change is announced; the next matches are fetched |
| Firefox fleet (`infra/firefoxfleet`, `activity/fleet`) | containers per event | provision, release, reap | lists read at different times, names used again, a slot limit | no live event loses its browser; no browser outlives its owner |
| Retention (`activity/retention`) | shares, objects | plan, revoke, delete, mark | a lost dispatch, a failed delete, a placement in progress | expired bytes are reclaimed |
| Twitter service (`twitter/`, `infra/twitter`, `twitterauth`) | session state, cookies, shared cookie file | search, verify, reload, back up, capture a login | several browsers and a login terminal write one file; a scan cut short | a verified session reaches the file; an early stop loses nothing |
| Video and vision activities (`activity/video`, `activity/vision`, `infra/ffmpeg`, `infra/llm`, `domain/vision`) | scratch files, staged objects, two semaphores | resolve, download, probe, hash, ask the model, compare clocks | retries, timeouts and worker deaths over shared scratch; clock conventions at period ends | a verdict is about the content; a failure is permanent or has used its retries; the right clip is kept |
| Operator tools (`cmd/found-footy-ops`, `infra/pg/event_replay.go`, `infra/pg/candidate_replay.go`) | checklist rows, reopened verdicts | plan, register, start, verify | two operators, a command that dies in the middle | one replay at a time; nothing open is unreachable |
| Migrations (`infra/pg/migrations.go`) | ledger, stamp, schema objects | migrate, verify at start | commands of two releases, failure between two files | the ledger is the chain of one release |
| API, live feed, configuration | none, or rows of the others | read, publish | | |

Interactions: the poll starts discovery workflows by a deterministic ID and
cancels them when it removes an event; the discovery closes the checklist row
that the completion of the fixture waits for; placement transactions and the
removal lock the same event row; ingest and polls write the same fixture row
under the same baseline test; a search goes to the browser the fleet provisioned
or, when that is gone, to the shared one; a replay takes the place of a discovery
and shares its browser, its candidates and its checklist; retention and placement
meet in the rows and bytes of one event.

The hazards these parts are exposed to are listed, each at its line, in
`PROJECT.json`; the properties below were chosen from that list.

## 2. The models

### FixtureMonitor

One fixture. Its rows are variables with the tables' names in the comments; an
event row is a pair of scorer and sequence. The clock ticks when a poll or an
ingest starts, and a poll's observation time is its identity, as `WorkflowID`,
`PollID` and `observedAt` are in the code.

| action | code |
|---|---|
| `StartPoll` | schedule, `ActivateUpcoming`, listing, fetch |
| `RetryCollect`, `RetryReconcile`, `GiveUp` | Temporal's retry policy; `late` leaves the old attempt alive |
| `HealthComparison`, `Observe`, `CollectReturns` | `CollectProviderHealth` and `ProviderHealthRepo.Observe` |
| `ReadFixture`, `PlanMutation` | the two reads and the plan of `reconcileGuarded` |
| `ApplyActive` | the transaction: receipt, staleness, policy, votes, checklist, completion |
| `SpawnEvents`, `ReconcileReturns`, `DestroyRemoved` | what follows the transaction |
| `CompleteDownstream`, `DiscoveryFails` | the discovery, from outside |
| `StartIngest`, `CommitIngest` | `ApplyFixture` in ingest mode |

Abstractions. A payload is what reconciliation tells apart. Match clocks are
left out, so any live row of a scorer may be the one an entry matches. The
verdicts of the health evidence are a free choice among the configured policies;
how they come about is `ProviderHealth`.
Presentation fields, audits and logs are left out. The votes of a poll are kept
as sets (the primary keys of the vote tables).

### EventDiscovery and VideoSelection

One confirmed event. `EventWorkflow` is two coroutines: the producer
(`producer`, `toStore`) and the pipeline (`owned`, `stage`, `known`, `closing`,
`placing`, `terminalErr`). A pipeline callback blocks on its durable writes:
while `closing` or `placing` is set (`~Idle`) no other callback starts, but the
producer and everything outside go on.

| action | code |
|---|---|
| `SpawnEvent`, `SpawnLate` | `TemporalSpawner.SpawnEvent`, by a due poll or by a late attempt |
| `Restore` | `LoadEventAssets`, `LoadEventRecoveryState`, restored candidates |
| `SearchTweets`, `SearchUnavailable`, `StoreCandidate`, `RecordProgress` | the producer goroutine |
| `OnDownloadDone`, `OnHashDone`, `OnVisionDone` | the callbacks with hash claims, followers and `dedupAndCommit` |
| `UpsertCandidateOutcome` | `recordOutcome`, `CandidateRepo.Complete` |
| `CommitClipPlacement` | the placement transaction with its removal gate, checks and selection plan |
| `FinishRun`, `FinalizeEvent` | the end of `pipeline.run` and `finalizeEvent` |
| `StopRun` | a stale run is terminated, or the run fails otherwise |
| `RemoveEvent`, `CancelRun` | `registerAbsenceTx`, and the cancellation that follows |

Every activity has three outcomes: `ok`; `lost`, its effect without its result;
`failed`, neither. A run that ends loses its memory (`Forget`).

Abstractions. Exact media identity (MD5 and fingerprint) is the media itself, and
perceptual matching is a constant relation that is reflexive and symmetric but
not transitive; the verification category is part of it. `IsUpgrade` compares
ranks: the code's 15 % and 10 % bands make it intransitive, so the best of three
or more near-equal clips is decided by the order in which they are compared,
which the model leaves open only among equals. The planner's walk over the assets is
stated by what it leaves behind (`PublicSets`): the sets in which a clip is public
exactly if it is a live root, or is ready and matches no public clip the walk met
before it. The walk yields one such set, and there is one; in this form the
planner can be reasoned about without an induction over the walk. Which waiting post is next and
the order of the writes of one cluster are left open. All objects are present
(`PlanSelection` itself has the case of a missing object). Effects of a call
after its run has ended are not modelled, except on cancellation: the calls have
contexts of five seconds to three minutes, and a run is only terminated as stale
after a longer silence. The search window is `SearchScan`, shares,
popularity and objects are `ClipStore`, the inside of the activities is
`CandidateMedia`. Left out: the early exits for an
unknown player and an empty query, the refusal of an accepted vision result
without evidence (`ValidateClip` always attaches it when asked to),
staging deletion, publication, and the branches for
histories older than the current workflow versions.

### FirefoxFleet

The containers of all events. `row` is what the event row and the discovery
checklist say together (`Live` is the query of `ListLiveFleetEventIDs`), `run`
counts the registered discovery runs, `box` is what the Docker daemon has, and
`prov`, `rel` and `reap` are the calls in progress: one provision per client
(the poll provisions in a loop, the operator's command is the other client), one
release per event and caller (the poll, and every run that ends), and one sweep.
Between any two Docker calls anything else may happen.

| action | code |
|---|---|
| `Detect`, `Confirm`, `Remove`, `FinalizeEvent` | the row changes of the poll and of `finalizeEvent`, each with the release it goes on to call |
| `PrepareEventReplay` | `found-footy-ops replay-event --apply`, up to the provision |
| `ProvisionFirefox`, `ProvisionFind`, `WaitForSlot`, `ContainerCreate`, `ContainerStart`, `ProvisionFails` | `Fleet.Provision` and its retries |
| `ReleaseFind`, `ReleaseStop`, `ReleaseRemove`, `ReleaseFails` | `Fleet.Release` and `removeInstance` |
| `ReapOwners`, `ReapList`, `ReapStop`, `ReapRemove`, `ReapEnd`, `ReapFails` | `ReapOrphanedFirefox` and `ReapOrphans` |
| `Tick` | time: containers age, and the sweep nears its deadline |

`kept` and `handed` are history: containers whose event has been live since they
were created, and those of them that a provision has returned.

Abstractions. One scope, so labels and networks always agree. Ages stop at
`MinAge`. A browser that crashes and is restarted by Docker is not modelled. That
a fixture is active while one of its events is counted is what
`FixtureMonitor!CompletedIsSettled` says. A workflow that is started for an event
removed meanwhile does nothing here.

### ClipStore

The media of one event, one call at a time: asset rows (`owner`, `pop`, `gone`),
shares, credits, receipts, and the bytes (`objects`, `staged`). `main` is the
placement attempt the workflow waits for, `late` one it no longer waits for.

| action | code |
|---|---|
| `Begin`, `Return`, `GiveUp` | the pipeline decides from its own view, applies the result or gives the clip up |
| `Load`, `Copy`, `HeadObjects`, `CommitSelected`, `CommitPlaced`, `CommitRefused`, `Clean` | `CommitClipPlacement`: snapshot, copy, check of the objects, transaction, clean-up |
| `PromoteCopy`, `InsertAsset`, `MintShare`, `AddPopularity`, `DeleteStaging`, `Supersede`, `MarkSuperseded`, `ReclaimLoser`, `RecordOutcome` | the activities of histories older than the atomic placement |
| `Fail`, `Timeout`, `LateStep`, `Vanish` | an attempt fails, or runs on after its timeout and its result is dropped |
| `PrepareSelection`, `CommitSelection` | the operator's reselection |
| `Overturn`, `Expire`, `PlanMediaRetention` | a removal with its dispatch, the public window, the daily plan |
| `RemoveByEvent`, `ListUnreclaimed`, `DeleteObject`, `MarkObjectReclaimed`, `DestroyDone`, `DestroyFails` | `DestroyEvent` |

Abstractions. `Paths` says which code a history runs: `selection` (now), `atomic`
(before selections) or `legacy`. A clip's row, share and object are named by its
media. The planner is `VideoSelection`. An operator reselects only where
selections exist. A refused transaction is retried without costing a fault;
giving up costs one. The branch that skips a selection with incomplete credits is
left out. The fixture does not leave its public window while a placement is in
progress. Of the legacy path only `ExpiredIsReclaimed` is claimed.

### FixtureIntake

One fixture row and its five writers. A job reads the provider or the row in one
step and writes in a later one; it holds the row it read as `base` and what it
wants to store as `target`. `Casts` says which jobs run together and which of them
from histories older than the provider guard.

| action | code |
|---|---|
| `Correct`, `Tick` | the provider changes its mind; time |
| `Cycle(j)`: `Start`, `Fetch`, `Read`, `ApplyFixture`, `StoreFromIngest`, `Return`, `Publish`, `DropPublication`, `Lose` | a scheduled or manual ingest, guarded or not, up to its announcement; a lost attempt or result |
| `ListStaging`, `CommitStaging` | the staging poll's list and the writes of its fixtures |
| `RefreshActivePoll`, `AssessCompletion`, `Complete` | the unguarded active poll |
| `ListUpcoming`, `ActivateUpcoming` | the first activity of every active poll |

Abstractions. The policy of a guarded write is a free choice. Status is one of
the classes the code tells apart (a postponed match counts as live, as `Live` in
`fixture.go` has it); the score is left out. Two cycles never have the same stamp.
A row carries, beside its facts, the stamp of the answer each fact came
from, which is what `ObservationsInOrder` compares. The guarded active poll is
`FixtureMonitor`'s. `Reschedule` has no caller. Nothing
is claimed about the announcement of an unguarded write, and the staging poll
announces nothing.

### IngestWindow

The fetch half of the ingest workflow: when the team cache is refreshed, what a
partial refresh keeps, and which days are asked for. One action per activity:
`StartScheduled`, `StartManual`, `StartByIDs`, `RefreshTrackedTeamsIfStale`,
`RefreshLeague`, `RefreshLeagueFails`, `ReplaceCache`, `FetchDay`,
`FetchFixturesByIDs`, `RunFails`, `Categorize`; outside them `Midnight`,
`RosterChanges` and `Reconfigure` (a deployment with other leagues, not while a
run is between two leagues).

Abstractions. Durations are days. A day that cannot be fetched has used up its
retries. `UpcomingIsFetched` is claimed of runs whose cache nobody replaced
meanwhile (`alone`).

### ProviderHealth

The rows of provider and fixture health over several polls. `Fetch` is a poll
with its answers, failures and gaps; `Collect` is `CollectProviderHealth` with the
whole transaction of `ProviderHealthRepo.Observe`: `AdvanceClock`, `Freshness`,
incidents opened and resolved, episodes and correlation, recovery probes,
policies; `Reconcile` stores the accepted facts as the next baseline. Polls
overlap and are collected again. `frozen` and `recent` are history, kept from the
observations alone, so that the properties do not use the code's own cursor. The
loops over probes are recursive functions (`Recovery`, `CleanRun`) whose value at `k`
is the state of the loop after `k` probes.

Abstractions. Durations are scaled: gap 1, interior 2, boundary 3, correlation 1,
three probes. All fixtures are in every poll. Reading the comparison and checking
its baselines is one step. Supported corrections and replacements, missing
confirmed events, names and negative clocks are left out of `AssessFixture`
(they are the local policy of `FixtureMonitor`). `PhaseSince` is stored and never
read by the code.

### SearchScan, CandidateMedia and MatchClock

What `EventDiscovery` sees as an outcome.

`SearchScan`: a feed of tweets, kept oldest first so that an index is an identity,
and the scans of one goal. `SearchRendered` is one scan with its whole scroll loop:
`Walk` visits the tweets from the newest down to the last the page may show
(`VisitTweet`, `Reach`, `Shown`), `scrollAndExtract` names why it ended; `SearchEmpty`, `SearchUnavailable`, `StoreCandidate`,
`RecordDiscoveryProgress` are the workflow around it, `Recover` the next run,
`Publish` a new tweet. A tweet is a clip, one without a time, one from before
the window, a text or an advertisement.

`CandidateMedia`: each tweet is in one activity (`stage`), one attempt (`tries`)
and one blocking operation of its handler (`pc`): `DownloadAndStage`, `HashVideo`,
`ValidateClip`. The operations take slots of the two semaphores, fail with the
sentinels of the Go code, and pass through the classifiers that decide between a
verdict, a retry and a permanent failure. `TimeOut` ends an attempt whose deferred
`RemoveAll` may run later (`LateRemoveAll`); `WorkerDies` keeps the scratch files.
What a tweet really is (`content`, one of `Truths`) never changes. Back-off times, cancellation and
the deletion of staged objects are left out, and an attempt that lost only its
heartbeat does not run beside its retry. `heard` (the answer a tweet last failed or was
rejected on) and `hits` (the failures the attempts of its activity met themselves) are
history that no guard reads. They let the properties say on what answer a clip ended:
`VerdictIsContent` excepts one, a 404 of the CDN, and `FailedIsExhausted` names the
answers filed as permanent and counts the attempts otherwise. An attempt that timed
out may leave a late `RemoveAll`, which takes the file from at most one other attempt;
so when a sound clip is given up, at least half of its attempts failed themselves.

`MatchClock`: a clip shows a moment of the match through the convention of its
broadcaster; `ObserveFrame` renders a frame and parses it as `parseFrameClock` does,
`Judge` is `Evaluate`. Six conventions: labelled, plain, sub-clock, compact, reset
and embedded label. Displays that mean two moments are excluded where a verdict on
the moment is claimed (`TellsMoment`). `Distinct` leaves out the clips whose display no
parser can place; for the reset and the embedded clock it leaves out all of stoppage,
a little more than the displays really shared. A provider minute counts from one, so
the gate of `Evaluate` for a goal without a minute is open and is not written down. The
check of the evidence's schema is left out.

### TwitterSession

The static service and the browsers of goals, the file of cookies they share and
the terminal where an operator logs in. A set of cookies is a session and a
rotation. A request goes through `StatFile`, `ReadFile`, `AddCookies`, `Navigate`,
`SearchPage` or `VerifySession`, `GetCookies`, `WriteBackup` (or `BackupUnchanged`,
`RefuseBackup`, `FailBackup`) and `MarkBackup`; two of them may be in progress on
one browser, where `ReplaceCookies` is visible as an empty jar.
`Search`, `EnsureAuthenticated` and `CanarySearch` start one; `Login`, `CaptureOnce`,
`Revoke`, `Corrupt`, `MarkBrowserExited` and `Restart` are the surroundings.

Abstractions. A rename always gives a later modification time. Verifications go
to the static service. A caller that gives up is not modelled, because the
handler runs on.

### OperatorReplay

One event, the discovery of the monitor, and tools that reopen it. `Invoke` is the
plan (`PlanEventReplay`, `ListCandidateReplayEvents`), then `PrepareEventReplay` or
`PrepareCandidateReplay` (the transaction), `StartWorkflow`, `WaitForRun`,
`ReadResult`; `StopTool` ends a tool between any two. A run is `Restore`,
`SearchTweets`, `RecordProgress`, `Settle`, `CloseRow`, `Return`, `RunFails`; `Respawn` is the
monitor's recovery, `RemoveEvent` and `CompleteFixture` the rest of the system.
`searched` says that a run of the row has recorded a search; a mode that searches is
planned again only while it has not (`ValidateStoredReplayMetadata`). Four refusals can
therefore meet the command of an open row, and `OpenIsResumable` names them: an open
repair, a recorded search, a selection grown past the ceiling, a row lost to another
repair.

Abstractions. Dry runs and refusals change nothing. A waiting tool sees the latest
execution of its identity. Of the counter of attempts only whether it has left 0 is
kept, and only for event replays, whose command reads it. The `[null, {replay}]` detail
of old rows and the repair's checkpoint of attempts are left out. That anybody repeats a command is
not assumed, so nothing is claimed about when a replay ends.

### SchemaMigrations

The database (`db`: ledger, stamp, objects, rows that a preflight refuses), the
commands and the services. One action per step of `Migrate` (`StartMigrate`,
`LockMigrate`, `CheckLedger`, `ApplyMigration`, `VerifyAndStamp`, `CommitMigrate`,
`AbortMigrate`, `RerunMigrate`) and of the gate (`StartService`, `LockVerify`,
`VerifyMigrations`, `StopService`); `RepairRows` and `DropObject` are the operator's.

Abstractions. A file is a version, a checksum and the objects it adds; manifest and
baseline are sets of objects. A chain is the set of its files, which the runner
applies by version: the next one is the least not yet recorded, and a ledger is in
order when no recorded version is above a missing one (`NoGap`). A database starts
without a ledger, as every one the runner meets for the first time.
No ledger is an empty one. An object is removed by
hand only while no migration runs. An older service may stay up while a newer
release migrates, which is intended, and `RunningChainIsPrefix` says what it keeps.

### DiscoveryLifecycle

Four variables and six actions: a row is registered, a workflow is started and
fails, posts are opened and settled, the row is closed by a run with no open
post, a removal closes what is open, and a completed workflow is not started
again. `FixtureMonitor!DiscoveryContract` and
`EventDiscovery!ImplementsLifecycle` say that both models implement it, the first
for each of its rows with `open` empty, the second with `open` mapped to the
pending posts and every phase of a run to "running". It is how the two models
are composed: neither needs the other's state.

## 3. Runs

| run | instance | states | what it shows |
|---|---|---|---|
| `monitor` | enforcement, threshold 2, 2 attempts; 4 polls of all careful payloads, or 3 ticks with 1 late attempt and an ingest (below) | 1.1 M | a goal is confirmed and removed by the required polls, one vote per poll, negative votes are trusted ones, fresh plans fit the rows, completion waits for debounce and checklist, effects follow rows, `DiscoveryLifecycle` is kept |
| `discovery` | 3 posts: two copies and another clip, or a chain of three; 2 attempts, 1 fault, removal | 371 k | no post is stranded, accepted clips are shown, nothing after removal, `DiscoveryLifecycle` is implemented, the checklist row closes |
| `fleet_replay` | 1 event, 2 runs, 2 containers, 2 attempts, 1 fault | 785 k | the reaper spares the browsers of live events and takes all others; a first run keeps its browser |
| `small_parts` | four parts, one active in a behaviour (below) | 3.6 M | an early stop loses no clip; clock verdicts; ledger and release; fresh cache and fetched days |
| `clip_store` | 3 media, 3 clips per path, all three paths, 1 fault | 196 k | popularity is support, what is served has bytes, expired bytes are reclaimed |
| `fixture_intake` | 2 kickoffs, 3 ticks, 2 attempts, 1 correction, 1 fault | 706 k | changes are announced, older observations never win, kickoff activates |
| `twitter_session` | 2 browsers, 2 requests, 2 logins, 1 rotation, 1 fault | 4.3 M | the file only held logged-in sets, and every verified session has been in it |
| `candidate_media` | 2 tweets of 12 kinds, 2 attempts, 1 slot each, 2 faults | 911 k | a verdict is about the content, a clip is given up on a permanent answer or with its attempts used, every clip ends |
| `provider_health` | 2 fixtures, 6 polls, 1 fault | 1.5 M | a frozen match is restricted, a stall ends by progress, trust is earned |
| `operator_replay` | 2 operators, 2 replays, 1 repair, 1 candidate, 1 fault | 4.1 M | one replay at a time, closed is settled, open is resumable but for four refusals |
| `fleet_pending` | as `fleet_replay` | violation | a finished run's release takes the browser of a replay |
| `replay_rerun` | as `operator_replay` | violation | a replay that failed after a recorded search cannot be rerun |

All of them but the last two pass. Deadlock is checked only in the fleet, which always
has its reaper and its clock. Everywhere else a behaviour may really end: a
monitor or a calendar that has used up its bound, a discovery that has completed,
requests, clips and commands that have all been answered.

`monitor` is two scenarios, of which a behaviour is one (`MCFixtureMonitor`): in
"evidence" the payloads and the verdicts of the health model vary over four polls, of
which the second may repeat or lose its reconciliation, and no attempt outlives its
timeout; in "races" the payloads are plain and the verdicts trusted, while a late attempt,
retries of any poll and an ingest meet three polls. Both take the steps of `Next` within these bounds.

`small_parts` holds four components that share no state with any other. Their
modules are independent; `MCSmallParts` gives each its instance and lets one of
them act: feeds of up to four tweets and six later ones, three scans, one crash;
both sides of every period boundary in all six conventions, three frames; five
releases (a successor, one that merged an older file, one that edited a file, one
with a bad file) over old, fresh and unclean databases, two commands and a service;
two ingest runs over two leagues with a late, an empty or a shared roster.

The violations. First, the browser of a replay. The decision record on cleanup says that any pending checklist
protects the browser, pending replay work included. The reaper keeps to it. But
`finalizeEvent` closes its row first and then releases, `Release` finds the
container by the name of the event, and nothing stops an operator from
registering a replay in between: its provision returns the old container, which
the release then removes. The replay's searches fall back to the shared service.
`FirstRunKeepsBrowser` is the part of the promise that does hold.

Second, the failed replay. `docs/operations.md:538` says that a process failure after
the registration does not lose ownership and that the same operation is to be rerun. The
plan demands that a searching replay has completed no attempt
(`infra/pg/event_replay.go:454`), and its run records attempts as it goes. A run that
fails after the first leaves an open row that no command resumes: its own is refused
for the recorded attempt, a new slug for the open row, and the monitor's recovery
looks only at events without a finished discovery. A fixture that is still active
cannot complete while the row is open. A removal closes it.

Bounds. In the monitor the code's threshold is three; the runs use two, so that
the states are spent on interleavings, and section 4 proves the properties for
every threshold. The races need two attempts, one that is late, and one competing
writer. One scorer suffices, as no operation relates two groups except through the
fixture row; `MaxSequence` 2 allows a key to be removed and its successor used.
In the discovery, two copies of one clip and another one give every queue a
head, a tail and a loser; three clips of which the outer two do not match are the
smallest graph in which ownership through a hidden clip can go wrong. One fault
makes any one call lost or failed or the run die.
In the fleet, one event with two runs has every race between a release, a replay
and the reaper, and two containers let a name be used again. The reaper may take
one tick and spares containers younger than two, as its 60 and 120 seconds.
In the clip store, the chain of three media lets a merger hide a clip that a
reselection restores (path `selection`), the fourth clip is a second supporter (the
other paths), and one fault is a
late attempt, a lost dispatch or a reselection. In the intake, the kickoffs are on
both sides of the activation window. In the health model six polls are three to
see a clock stall and three to earn trust back; one fixture's clock may
stand, move, go back or reach half time, the other's score may drop. Two
requests and two sessions are what an overwritten login takes. With one slot per
semaphore, two clips always compete, and two faults let the retry fail as well. The
code grants 4, 3 and 3 attempts and the run 2; section 4 proves both safety properties for
any number.
Two operators with two replays and a repair meet in every order.
Symmetry (the two requests; the two operators) is used only in
runs without temporal properties.

Fairness. `EventDiscovery`
assumes `WF_vars(Work)`: as long as some step of the workflow, of its activities
or of the spawner is possible, one of them happens. Temporal runs started
workflows and times out and repeats their activities, and the poll spawns every
30 seconds what still awaits discovery. Nothing is assumed about which step
happens, about how searches, downloads or validations end, or that a removal
takes place. Faults are finitely many, so the liveness properties say that
discovery ends once faults stop. `FirefoxFleet` assumes `WF_vars(Reaper)` and
`WF_vars(Tick)`: the staging poll runs
the reaper every 15 minutes, and time passes. Releases, provisions and the
operator are not fair: the reaper has to make up for all of them. `ClipStore` assumes
that the daily plan is repeated and that a worker finishes a `DestroyEvent` it
started; the dispatch after a removal is not fair. `FixtureIntake` assumes only
the two steps of `ActivateUpcoming`, which every active poll runs first and which
need nothing but the database. `CandidateMedia` assumes that each clip's next
step is taken when it stays possible: the worker runs its attempts, ffmpeg and the
model have deadlines, and waiting for a slot is first come, first served. The
others state no fairness and claim only safety.

Each property of each run has a mutant in `PROJECT.json`: a plausible wrong
version of a mapped definition, defined just before it, with which TLC finds the
property violated.

### Observations

Modelling brought up behaviour that is documented differently or that a reader
may not expect. The two violations above are runs; what follows is stated with its place.

- `Client.Download` gives every status but 2xx and 403 to `statusToErr`
  (`infra/syndication/video.go:221`), which returns `ErrVideoNotAvailable` for a 404 as
  it does for the tweet's own metadata. That error is documented as "tweet deleted or
  private" (`infra/syndication/errors.go:23`) and is terminal, so a tweet resolved a
  moment before is rejected as not available, where an unexplained 403 resolves a fresh
  variant and tries again. `VerdictIsContent` holds with this one exception.
- `io.ErrUnexpectedEOF` is classed as `ErrInvalidJSON` (`infra/llm/errors.go:101`),
  never retried because it is a "deterministic failure" (`:37`). A body that the
  connection cut short is not, and the clip is lost at its first attempt.
  `FailedIsExhausted` holds because it counts this answer (`cut_body`) beside the
  permanent ones; without it TLC finds the property violated in one fault.
- After its own rename an instance reads the modification time back
  (`twitter/auth.go:242`). A login captured between the two counts as loaded and
  that instance does not pick it up until the file changes again. While one
  request replaces the cookies of a browser, another may be answered as logged out.
  That the save of an old search may overwrite a fresh login is a gap the
  service's documentation names.
- A repair of clock rejections that completes hides a failed original discovery
  from the recovery pass (`infra/pg/event_repo_queries.go:163`), although
  `domain/event/repo.go:92` describes the pass as covering it; it re-drives every
  pending candidate and not only the selected ones; and of two repairs over the
  same candidates the first can no longer be resumed. Nor can one without an
  allowlist whose candidates grew past the ceiling between the listing, which
  checks it, and the preparation, which does not. `docs/operations.md` says
  that rerunning the same command resumes; `OpenIsResumable` names these exceptions
  beside that of `replay_rerun`. A closed row of a searching replay that recorded
  an attempt is refused as well, instead of being read again.
- An unguarded staging activity whose clock reads exactly the stamp of a guarded
  ingest, whose row has facts of two answers, lets `ActivateUpcoming` write
  an older kickoff back: the staging write and the activation both accept
  an equal time. It takes an exact tie and two generations of histories at once;
  `OneGeneration` (section 4) excludes the second.
- Two overlapping ingests over a cold cache: the later replacement can drop a
  league the other has just fetched, against `activity/ingest/tracked_teams.go:39`.
  A team preserved for a failed league that is fresh under another makes the
  replacement fail on the primary key.
- A corrupt download can end as failed instead of rejected; the comment "nothing was staged" in
  `workflow/event_pipeline_validation.go:48` does not hold for hash rejections.
- A clock that alternates between extra time and its break resets the high-water
  mark, and after a glitch that shows a later phase the earlier phase's clock is
  not watched.
- A late placement attempt can copy the bytes of a reclaimed clip again, and a copy
  whose transaction ends in `ErrSelectionMedia` has no row: neither is reclaimed.
- Postponed fixtures count as live and stay active. A new kickoff of a completed
  fixture can move its public window back over reclaimed media.

## 4. Proofs

`FixtureMonitor_proofs.tla` proves for all values of the constants that satisfy
`ConstantsAssumption` (any number of scorers, sequences, polls, attempts and
late attempts, any threshold of at least two, any payloads and either mode):

| theorem | states |
|---|---|
| `TypeCorrect` | `TypeOK` |
| `Confirmation`, `Removal` | three polls to confirm, three to remove |
| `OneVote`, `VoteOrder` | no poll votes for and against; votes in poll order |
| `FreshPlans` | a plan that passes the staleness test fits the rows |
| `Checklist`, `Completion`, `Effects` | checklist, completion and effects agree with the event rows |
| `Forward`, `Finality` | nothing moves back; completed is final |
| `NegativeVotes` | enforcement uses the poll's own evidence |
| `Contract` | the monitor implements `DiscoveryLifecycle` for every event |

The argument. None of the invariants is inductive. `IndInv` adds what a commit
rests on: every vote was cast by a poll the baseline has reached
(`VotesBelowBaseline`), so a poll that passes the staleness test has not voted;
what the counter means in each state of the row (`CounterMeaning`: at most the
number of votes, and for a confirmed event at least the threshold less the
drops); that a plan whose baseline still stands fits the rows (`PlansAreSound`),
which is where the order of the two reads enters; and that what a receipt or a
result claims has happened (`ResultsHold`), because spawning and destruction act
on results that may be old. `FreshCommit`, `CommittedRow` and `CommitStep` treat
the transaction, `QuietStep` everything that writes no event row.

`FirefoxFleet_proofs.tla` proves, for all constants that satisfy `FleetAssumption`:

| theorem | states |
|---|---|
| `Invariance` | `IndInv`, on which the others rest |
| `FleetTypes` | `TypeOK`; no attempt of the reaper outlives its deadline |
| `ReaperSafety` | `ReaperSparesLive` |
| `FirstRunSafety` | `FirstRunKeepsBrowser` |

The argument. `ReaperSparesLive` is about the sweep; what makes it true happens
earlier. Between the reading of the owners and the listing, a kept container of
an event that was not among the owners is no older than the attempt
(`SweepIsSound`), and the attempt is shorter than `MinAge`: this is the only use
of the assumption that the reaper's 60 seconds are less than the 120 it spares.
From the listing on it matters that an ID is never used again. For
`FirstRunKeepsBrowser`, a release is owed only by a run that has been closed, or
for a removed event (`ReleasesAreOwed`), and holds only containers of its own event
(`ReleasesHoldTheirOwn`), so that in the first run there is none to fear. The
proof has one lemma per action.

`EventDiscovery_proofs.tla` proves, for all constants that satisfy
`DiscoveryAssumption`, `NoneAssumption` and `SelectionAssumption` (any posts, media and
matching that is reflexive and symmetric, any budgets and faults):

| theorem | states |
|---|---|
| `DiscoveryInvariance`, `DiscoveryTypes` | `DiscoveryInv`; `TypeOK`, with the budgets |
| `DoneRowsSettled` | `DoneIsSettled` |
| `PipelineDrains` | `NothingStranded` |
| `AcceptedClipsShown` | `AcceptedIsShown` |
| `RemovalIsFinal` | `NothingAfterRemoval` |
| `DiscoveryImplementsLifecycle` | `ImplementsLifecycle`: the discovery implements `DiscoveryLifecycle` |
| `PlanShowsEveryClip` | the planner, for every ownership: nothing is lost, and a clip whose object is there is shown by a public clip that matches it |

The argument relates the memory of a run to its rows. A post has one duty at a time
(`OneDuty`) and, while it has one, is owned and not yet settled (`DutiesAreOwned`);
an owned post has a duty unless a durable write failed (`OwnedHaveDuties`), which
is `NothingStranded` before the pipeline drains; what the memory calls terminal
is so in the row. A queue behind a claimant never loses its head (`Claimed`). The
producer counts from the recorded progress (`SearchFollowsRecord`), so that the row is
closed only when the budget is spent. `AcceptedIsShown` rests on the planner's
theorem, and on every stored clip having a credited post. For the refinement, a step
of a run that changes neither row nor set of pending posts is a stutter. Together
with `Contract`, both sides of the seam between the monitor and the discovery are
proved to keep the same abstract specification.

`FixtureIntake_proofs.tla` proves `TypeOK` and, from `IntakeInv`, `ChangesAnnounced`
(`ChangesAreAnnounced`) for all constants that satisfy `IntakeAssumption` and
`NoneAssumption`: each change has one receipt, and the cycle that made it is
on its way to the announcement or will read the receipt again. `FactsStayInOrder` proves
`ObservationsInOrder` from the same and `InOrder`: the row `ActivateUpcoming` is about to
write back is older than the one it will find, or has its facts. It assumes
`OneGeneration`: where the staging poll runs without the guard, the ingests do too. The
hypothesis is needed: without it TLC finds the tie described under the observations.

`CandidateMedia_proofs.tla` proves, for any finite set of tweets, any capacities,
attempts and faults (`BoundsAssumption`), `TypeOK`, `VerdictIsContent` (`VerdictsAreTrue`),
`FailedIsExhausted` (`FailuresAreExhausted`) and `SlotsAreHeld` (`NoSlotLost`). The
invariant says for each operation what it has ruled out about the tweet
(`RuledOut`), so that a later verdict can only be the right one, the CDN's 404
excepted; that an attempt in
progress is one the policy grants, and an idle activity has one left (`Going`); and
that a semaphore counts exactly the attempts at an operation that holds it. The
classifiers are lemmas of their own, by cases over the sentinels. `FailedIsExhausted`
needs more than that: `AttemptsInv` counts, for a clip that is not broken, the attempts
that have ended, the running one whose file a late clean-up has taken, and the next one
that a pending clean-up still threatens, and says that twice the failures met cover
them. One lemma for each action shows how it moves this balance.

`HealthAndReplay_proofs.tla` proves for `OperatorReplay`, for any operators, commands, finite sets of
candidates and faults (`ReplayAssumption`), `TypeOK`, `ClosedIsSettled`
(`ClosedRowsSettled`), `OneEventReplay` (`EventReplaysExclude`), `OpenIsResumable`
(`OpenRowsResumable`) and that a closed row is never reopened nor a registration lost
(`ClosedStaysClosed`). `ReplayInv` adds that a run which has restored drives every
pending verdict its row reopened (`RunsCoverOwned`), that an event replay opens only
after the discovery is over, that a removed event has nothing open, and
what an open repair was given (`RepairsKeepSelection`).

For `ProviderHealth`, for any fixtures, feeds, limits, thresholds, length of the probe
window, polls and faults (`HealthConstants`), the same module proves:

| theorem | states |
|---|---|
| `FrozenIsRestrictedHolds` | `FrozenIsRestricted` |
| `StallNeedsProgressHolds` | `StallNeedsProgress` |
| `TrustIsEarnedHolds` | `TrustIsEarned` |

The argument. `HealthInv` adds to the types that a committed poll reached every row at
once (`PollsAreSeenOnce`), what the code's cursors know of the run of identical
observations that the history keeps (`CursorSound`: neither the high-water clock nor
continuity has moved since that run began, while its phase is the clock's own), that an
open stall restricts (`StallsRestrict`), and that the probes of a restricted provider
are, in order, the last committed polls (`ProbesAreRecent`). A run as long as the
threshold is then a stall by the code's own cursor, and opens an incident unless one is open
(`FrozenRestricts`). For `StallNeedsProgress` the loop over the probes has an invariant
of its own: what it knows after `k` probes is nothing, or comes from an unbroken run of
probes that began beyond the stalled clock and holds the progress or the sightings it has counted
(`Shows`, `FreshMoves`, `ProgressMoves`). That is an induction over data, carried
out for this one loop by a least counterexample (`RecoveryExists`, `RecoveryShows`).
What the kept probes show, all probes show (`NewestShows`). The property is about the
probes the incident collected and the observation that ended it, as those are what the
code's sentence speaks of: the clock seen in that last poll may itself be behind the
one that made the progress, and older probes may have left the window.

`ClipStore_proofs.tla` proves, for any finite sets of posts and media, any matcher,
quality order and faults (`StoreAssumption`, `SelectionAssumption`, `NoneAssumption`):

| theorem | states |
|---|---|
| `ClipTypeOK` | `TypeOK`, for attempts, operator and deletion on the three paths |
| `ServedHasBytesHolds` | `ServedHasBytes` |
| `PopularityIsSupportHolds` | `PopularityIsSupport` |
| `WithdrawalIsFinal` | no share of a withdrawn event becomes public again |

The argument. On the current path ownership has one level (`RowsInv`): every row is owned
by a live one, and every live one has a share. Shares are withdrawn together and before
anything is deleted (`RevokedInv`), and until then every row, and every clip an attempt or the
operator found, has its bytes (`BytesInv`). What a snapshot read may be old; a commit
applies it only where the rows are still the ones it read and none is withdrawn, so
that what it found still holds. Popularity is recomputed from the accepted posts on
this path (`SupportInv`). On the atomic path it is a counter: credits point to live rows and
a merger moves the credits of its losers with their number (`CreditInv`), for which the
sum over the losers is compared with the credits moved, by induction over the
set of losers.

`SmallParts_proofs.tla` holds the parts that meet no other. For `TwitterSession`, for
any browsers, overlapping requests, logins, rotations and faults (`ConstantsOK`), it
proves `SessionTypeOK` (`SessionTypes`) and `VerifiedIsPublished`
(`VerifiedPublication`). `SessionInv` says that whatever a service or a request
remembers of the file has been in the file, and that all of that was logged in.

For `MatchClock`, for any moments of a match, tolerance, number of frames and choice of
conventions (`ClockConstants`, `MomentsOfMatch`), it proves `RightClipKept`
(`RightClipKeptHolds`) and `WrongClipNotVerified` (`WrongClipNotVerifiedHolds`). The
assumption on moments is that stoppage and tolerance together stay below 45 minutes, so
that a clock past 45 is never one that counts from the boundary. One lemma for each
convention says which reading its displays have for a moment, blurred and misread
frames included; the verdict follows from the readings alone. The 15 minutes in which an
unlabelled clock is still recognised as stoppage enter where a display could
mean two periods.

For `SearchScan`, for any feed, screen, number of scrolls, stop count and faults
(`ScanConstants`), it proves `ShortcutLosesNothing` (`ShortcutLosesNothingHolds`). The
invariant is `Covered`: where the workflow allows the early stop, every due clip up to
some tweet is known and nothing newer is, so that a run of known tweets can only begin
below all that is missing. `WalkFinds` says what a walk of any length has passed, over a
recursive function whose existence and steps are `WalkExists` and `WalkStep`.

For `SchemaMigrations`, for any commands, services,
releases and files (`MigrationAssumption`), `CommittedIsRelease`
(`CommittedReleaseTheorem`), `RunningChainIsPrefix` (`RunningPrefixTheorem`) and that no
recorded migration is ever taken back (`LedgerOnlyGrows`). `MigrationInv` adds that
the lock is exclusive, that an open transaction extends a ledger without a gap by
files of its own chain only, and what it has verified when it commits. For
`IngestWindow`, for any runs, leagues, rosters, schedules and lookahead
(`WindowAssumption`), it proves `FreshIsFetched` (`FreshRosters`) and `UpcomingIsFetched`
(`UpcomingFixtures`). `WindowInv` says that no cached row, and no row a refresh has in hand,
is newer than the last fetch of its league, which a carried-over row
could otherwise hide; and for each step of a scan which days are kept and which are
known to be empty.

Only model-checked: liveness under fairness (`ChecklistCloses`, `OrphansAreReaped`,
`ExpiredIsReclaimed`, `KickoffActivates`, `CandidatesFinish`), which is out of the
prover's reach; that the walk of the planner yields the set `PublicSets` describes (an
induction over the walk); the weaker promises of the legacy placement path. The type invariants, the monitor's `VotesInOrder`, `LifecycleForward`,
`CompletedIsFinal` and `ChecklistMatchesEvent`, and `SlotsAreHeld` are proved and are
not repeated by a run.

## 5. Plan

Every part that keeps state has a model, and every safety property that a run checks is
a theorem. What is left is what the prover does not reach: the liveness properties, and
the walk of the planner. The next parts to model would be those of section 6
that the models now take as relations, above all the quality bands, in which the order of
comparison decides.

## 6. Not modelled

HTTP decoding, page scripts, ffmpeg, object storage, the language model and the
status pages are input and output; the models see their outcomes. The read API
other than its list of clips and its share addresses, configuration, logging,
metrics, alias normalisation and query building keep no state. The audit,
benchmark and probe scripts are offline. Hash distance, quality bands and the
public ranking are numeric code that the
models take as relations. The matching of feed entries to event rows by match
clock is a free choice in `FixtureMonitor`. The slot limit of the fleet is modelled
and is not a property: a replay may exceed it. An activity attempt that lost
its heartbeat and runs beside its own retry is modelled for reconciliation,
spawning and placement, not for download and vision. Workflow branches kept for
replaying old histories are left out, except the placement paths and the unguarded
fixture writes, which still write the rows that the current code reads.
