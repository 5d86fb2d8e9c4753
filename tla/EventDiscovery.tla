---------------------------- MODULE EventDiscovery ----------------------------
(***************************************************************************)
(* The discovery of one confirmed event: EventWorkflow with its search     *)
(* producer and its candidate pipeline, the rows they commit, the monitor  *)
(* that starts it again after a failure, and the removal of the event.     *)
(*                                                                         *)
(* The workflow is two coroutines.  The producer searches, hands every new *)
(* post to the pipeline, stores the posts and records the attempt.  The    *)
(* pipeline runs one callback at a time: it blocks on every durable write, *)
(* while the producer, and everything outside the workflow, go on.         *)
(*                                                                         *)
(* An activity that is given up after its retries may or may not have had  *)
(* its effect: "lost" is an effect whose result never arrived.  A run that *)
(* fails, times out or is terminated loses its memory; the next one has    *)
(* only the rows.                                                          *)
(***************************************************************************)
EXTENDS VideoSelection

CONSTANTS
    Urls,            \* posts that searches can return
    Contents,        \* what the posts may show: functions from posts to media
    MaxAttempts,     \* usable searches per event
    MaxUnavailable,  \* unusable searches per event
    MaxFaults,       \* bound: lost or failed calls, and runs that die
    MayRemove        \* the monitor may remove the event

ASSUME DiscoveryAssumption ==
    /\ Contents \subseteq [Urls -> Media]
    /\ MaxAttempts \in Nat \ {0}
    /\ MaxUnavailable \in Nat \ {0}
    /\ MaxFaults \in Nat
    /\ MayRemove \in BOOLEAN

Outcomes == {"ok", "lost", "failed"}          \* of one activity
Credited == {"promoted", "duplicate", "superseded"}
Terminal == Credited \cup {"rejected", "failed", "event_removed"}

VARIABLES
    removed,     \* events.removed
    checklist,   \* the event's discovery row
    progress,    \* its metadata: attempts and unavailable probes recorded
    candidate,   \* event_search_candidates: outcome per post
    credit,      \* credited_asset_id per post
    owner,       \* video_assets.superseded_by, as in VideoSelection
    order,       \* video_assets by first_seen_at
    run,         \* the workflow as Temporal sees it
    producer,    \* the search coroutine
    toStore,     \* StoreCandidate calls it waits for
    owned,       \* p.candidates: posts this run is responsible for
    stage,       \* the activity or queue a post is in
    known,       \* p.assets and p.exactRoots: live root per media
    closing,     \* outcome a callback is about to write, per post
    placing,     \* the placement a callback is about to commit
    terminalErr, \* p.terminalErr is set
    faults,
    content      \* the exact media of each post; it never changes

durable  == <<checklist, progress, candidate, credit, owner, order>>
search   == <<producer, toStore>>
pipeline == <<owned, stage, known, closing, placing, terminalErr>>
vars == <<removed, checklist, progress, candidate, credit, owner, order, run,
          producer, toStore, owned, stage, known, closing, placing, terminalErr,
          faults, content>>

Placements == [url : Urls, followers : SUBSET Urls, new : BOOLEAN, winner : Media,
               losers : SUBSET Media, hashed : BOOLEAN]

ASSUME NoneAssumption == None \notin Placements

Progress == [attempts : 0..MaxAttempts, unavailable : 0..MaxUnavailable]

Producer == [pc : {"off", "search", "store", "usable", "unavailable", "done"},
             attempt : 1..MaxAttempts + 1, unavailable : 0..MaxUnavailable, failed : BOOLEAN]

ProducerIdle == [pc |-> "off", attempt |-> 1, unavailable |-> 0, failed |-> FALSE]

TypeOK ==
    /\ removed \in BOOLEAN
    /\ checklist \in {"open", "done", "event_removed"}
    /\ progress \in Progress
    /\ candidate \in [Urls -> {"none", "pending"} \cup Terminal]
    /\ credit \in [Urls -> Media \cup {None}]
    /\ owner \in Owners
    /\ order \in Seq(Media)
    /\ run \in {"none", "restoring", "running", "finalizing", "completed", "failed"}
    /\ producer \in Producer
    /\ toStore \subseteq Urls
    /\ owned \in [Urls -> {"none", "in_flight", "terminal"}]
    /\ stage \in [Urls -> {"off", "download", "waiting", "hash", "vision", "follower"}]
    /\ known \in Owners
    /\ closing \in [Urls -> {"none", "rejected", "failed"}]
    /\ placing \in Placements \cup {None}
    /\ terminalErr \in BOOLEAN
    /\ faults \in 0..MaxFaults
    /\ content \in Contents

Unknown == [m \in Media |-> None]

(* The checklist row is registered before the workflow is spawned.          *)
Init ==
    /\ removed = FALSE
    /\ checklist = "open"
    /\ progress = [attempts |-> 0, unavailable |-> 0]
    /\ candidate = [u \in Urls |-> "none"]
    /\ credit = [u \in Urls |-> None]
    /\ owner = Unknown
    /\ order = <<>>
    /\ run = "none"
    /\ producer = ProducerIdle
    /\ toStore = {}
    /\ owned = [u \in Urls |-> "none"]
    /\ stage = [u \in Urls |-> "off"]
    /\ known = Unknown
    /\ closing = [u \in Urls |-> "none"]
    /\ placing = None
    /\ terminalErr = FALSE
    /\ faults = 0
    /\ content \in Contents

(* A call that does not return well uses up the fault budget.               *)
Returns(outcome) ==
    IF outcome = "ok" THEN UNCHANGED faults
    ELSE faults < MaxFaults /\ faults' = faults + 1

(* The memory of a run that has ended.                                      *)
Forget ==
    /\ producer' = ProducerIdle
    /\ toStore' = {}
    /\ owned' = [u \in Urls |-> "none"]
    /\ stage' = [u \in Urls |-> "off"]
    /\ known' = Unknown
    /\ closing' = [u \in Urls |-> "none"]
    /\ placing' = None
    /\ terminalErr' = FALSE

-----------------------------------------------------------------------------
(* Start and recovery.                                                      *)

(* SpawnEvent for an event that still awaits discovery: the workflow ID may *)
(* be reused only after a failed run.                                       *)
SpawnOnce ==                                                      \* mutant
    /\ checklist = "open"
    /\ ~removed
    /\ run = "none"
    /\ run' = "restoring"
    /\ UNCHANGED <<removed, durable, search, pipeline, faults>>
SpawnEvent ==
    /\ checklist = "open"
    /\ ~removed
    /\ run \in {"none", "failed"}
    /\ run' = "restoring"
    /\ UNCHANGED <<removed, durable, search, pipeline, faults>>

(* A poll attempt that is late, or that read the rows before they changed,  *)
(* starts the workflow although nothing awaits it any more.                 *)
SpawnLate ==
    /\ removed \/ checklist # "open"
    /\ run \in {"none", "failed"}
    /\ faults < MaxFaults
    /\ faults' = faults + 1
    /\ run' = "restoring"
    /\ UNCHANGED <<removed, durable, search, pipeline>>

(* The producer's loop condition.                                           *)
Searching(attempt, unavailable) ==
    IF attempt <= MaxAttempts /\ unavailable < MaxUnavailable THEN "search" ELSE "done"

(* LoadEventAssets and LoadEventRecoveryState: live roots and aliases, the  *)
(* recorded attempts and every post of the event.  Pending posts are driven *)
(* again, terminal ones are only excluded from the search.                  *)
RestoredOwnership ==
    [u \in Urls |-> IF candidate[u] = "none" THEN "none"
                    ELSE IF candidate[u] = "pending" THEN "in_flight" ELSE "terminal"]

(* restoreAssets: a removed event has no public clips to restore.           *)
RestoredSelection == IF removed THEN Unknown ELSE Roots(owner)

Restore(outcome) ==
    /\ run = "restoring"
    /\ outcome # "lost"
    /\ Returns(outcome)
    /\ IF outcome = "failed"
       THEN run' = "failed" /\ UNCHANGED <<search, pipeline>>
       ELSE /\ run' = "running"
            /\ known' = RestoredSelection
            /\ owned' = RestoredOwnership
            /\ stage' = [u \in Urls |-> IF RestoredOwnership[u] = "in_flight"
                                        THEN "download" ELSE "off"]
            /\ producer' = [pc |-> Searching(progress.attempts + 1, progress.unavailable),
                            attempt |-> progress.attempts + 1,
                            unavailable |-> progress.unavailable, failed |-> FALSE]
            /\ UNCHANGED <<toStore, closing, placing, terminalErr>>
    /\ UNCHANGED <<removed, durable>>

-----------------------------------------------------------------------------
(* The producer.                                                            *)

(* spawnCandidate: the run owns the posts and their downloads are started.  *)
SpawnCandidates(found) ==
    /\ owned' = [u \in Urls |-> IF u \in found THEN "in_flight" ELSE owned[u]]
    /\ stage' = [u \in Urls |-> IF u \in found THEN "download" ELSE stage[u]]

(* A usable search returns posts; those not seen before are handed to the   *)
(* pipeline at once and their StoreCandidate calls are scheduled with them. *)
SearchTweets(found) ==
    /\ run = "running"
    /\ producer.pc = "search"
    /\ \A u \in found : owned[u] = "none"
    /\ SpawnCandidates(found)
    /\ toStore' = found
    /\ producer' = [producer EXCEPT !.pc = IF found = {} THEN "usable" ELSE "store"]
    /\ UNCHANGED <<removed, durable, run, known, closing, placing, terminalErr, faults>>

(* A search that observed nothing keeps its attempt and uses up a probe.    *)
SearchUnavailable ==
    /\ run = "running"
    /\ producer.pc = "search"
    /\ producer' = [producer EXCEPT !.pc = "unavailable", !.unavailable = @ + 1]
    /\ UNCHANGED <<removed, durable, run, toStore, pipeline, faults>>

(* insertCandidateObservation: the first writer of the row inserts it; an   *)
(* observation of a removed event is closed at once.                        *)
Observed(u) ==
    IF candidate[u] \in {"none", "pending"}
    THEN IF removed THEN "event_removed" ELSE "pending"
    ELSE candidate[u]

(* After the last call the attempt is recorded, unless one of them failed:  *)
(* then the producer ends with the error.                                   *)
StoreCandidate(u, outcome) ==
    LET failed == producer.failed \/ outcome # "ok"
    IN /\ run = "running"
       /\ producer.pc = "store"
       /\ u \in toStore
       /\ Returns(outcome)
       /\ candidate' = IF outcome = "failed" THEN candidate
                       ELSE [candidate EXCEPT ![u] = Observed(u)]
       /\ toStore' = toStore \ {u}
       /\ producer' = [producer EXCEPT
                         !.failed = failed,
                         !.pc = IF toStore # {u} THEN "store"
                                ELSE IF failed THEN "done" ELSE "usable"]
       /\ UNCHANGED <<removed, checklist, progress, credit, owner, order, run, pipeline>>

AtLeast(a, b) == IF a > b THEN a ELSE b

(* RecordDiscoveryProgress: both counters only grow.  The attempt counts    *)
(* when the search was usable; then the loop goes on.                       *)
RecordProgress(outcome) ==
    LET done == IF producer.pc = "usable" THEN producer.attempt ELSE producer.attempt - 1
    IN /\ run = "running"
       /\ producer.pc \in {"usable", "unavailable"}
       /\ Returns(outcome)
       /\ progress' = IF outcome = "failed" THEN progress
                      ELSE [attempts |-> AtLeast(progress.attempts, done),
                            unavailable |-> AtLeast(progress.unavailable,
                                                    producer.unavailable)]
       /\ producer' = IF outcome = "ok"
                      THEN [producer EXCEPT !.attempt = done + 1,
                                            !.pc = Searching(done + 1, producer.unavailable)]
                      ELSE [producer EXCEPT !.failed = TRUE, !.pc = "done"]
       /\ UNCHANGED <<removed, checklist, candidate, credit, owner, order, run,
                      toStore, pipeline>>

-----------------------------------------------------------------------------
(* The pipeline: callbacks.                                                 *)

(* A callback blocks until its durable writes have returned.                *)
Idle == placing = None /\ \A u \in Urls : closing[u] = "none"

InFlight == {u \in Urls : stage[u] \in {"download", "hash", "vision"}}

(* The other posts with the same media that are in the given queue.         *)
Same(u, queue) == {v \in Urls \ {u} : content[v] = content[u] /\ stage[v] = queue}

(* Posts whose outcome the callback goes on to write.                       *)
Close(S, outcome) ==
    /\ closing' = [u \in Urls |-> IF u \in S THEN outcome ELSE closing[u]]
    /\ stage' = [u \in Urls |-> IF u \in S THEN "off" ELSE stage[u]]
    /\ UNCHANGED placing

(* The clip and its followers go to the placement activity.                 *)
Place(u, followers, new, winner, losers, hashed) ==
    /\ placing' = [url |-> u, followers |-> followers, new |-> new,
                   winner |-> winner, losers |-> losers, hashed |-> hashed]
    /\ stage' = [v \in Urls |-> IF v \in {u} \cup followers THEN "off" ELSE stage[v]]
    /\ UNCHANGED closing

(* onDownloadDone.  Media of a live asset, or of a clip that was routed to  *)
(* one, collapses onto it; media in validation gets a follower; media being *)
(* hashed makes the post wait behind the claimant; else it claims the hash. *)
OnDownloadDone(u, result) ==
    LET m == content[u]
    IN /\ run = "running" /\ Idle
       /\ stage[u] = "download"
       /\ \/ /\ result \in {"failed", "rejected"}
             /\ Close({u}, result)
          \/ /\ result = "passed"
             /\ known[m] # None
             /\ Place(u, {}, FALSE, known[m], {}, FALSE)
          \/ /\ result = "passed"
             /\ known[m] = None
             /\ stage' = [stage EXCEPT ![u] = IF Same(u, "vision") # {} THEN "follower"
                                              ELSE IF Same(u, "hash") # {} THEN "waiting"
                                              ELSE "hash"]
             /\ UNCHANGED <<closing, placing>>
       /\ UNCHANGED <<removed, durable, run, search, owned, known, terminalErr, faults>>

(* onHashDone.  A failed claimant hands the claim to the next post waiting; *)
(* a rejection holds for all of them; success makes them followers of the   *)
(* clip that goes on to vision.                                             *)
HashKeepsWaiting(u, next, result) ==                              \* mutant
    /\ run = "running" /\ Idle
    /\ stage[u] = "hash"
    /\ next = u
    /\ \/ /\ result = "failed"
          /\ Close({u}, result)
       \/ /\ result = "passed"
          /\ stage' = [v \in Urls |-> IF v = u THEN "vision"
                                      ELSE IF v \in Same(u, "waiting") THEN "follower"
                                      ELSE stage[v]]
          /\ UNCHANGED <<closing, placing>>
    /\ UNCHANGED <<removed, durable, run, search, owned, known, terminalErr, faults>>
OnHashDone(u, next, result) ==
    LET waiting == Same(u, "waiting")
    IN /\ run = "running" /\ Idle
       /\ stage[u] = "hash"
       /\ next \in IF result = "failed" /\ waiting # {} THEN waiting ELSE {u}
       /\ \/ /\ result = "failed"
             /\ closing' = [closing EXCEPT ![u] = "failed"]
             /\ stage' = [v \in Urls |-> IF v = u THEN "off"
                                         ELSE IF v = next THEN "hash" ELSE stage[v]]
             /\ UNCHANGED placing
          \/ /\ result \in {"rejected", "invalid"}
             /\ Close({u} \cup waiting, IF result = "rejected" THEN result ELSE "failed")
          \/ /\ result = "passed"
             /\ stage' = [v \in Urls |-> IF v = u THEN "vision"
                                         ELSE IF v \in waiting THEN "follower"
                                         ELSE stage[v]]
             /\ UNCHANGED <<closing, placing>>
       /\ UNCHANGED <<removed, durable, run, search, owned, known, terminalErr, faults>>

(* The live clips, as this run knows them, that show the same.              *)
MatchAssets(m) == {k \in Live(known) : <<m, k>> \in Match}

(* An accepted clip replaces every live clip it matches when it is an       *)
(* upgrade over the best of them, and collapses onto that one if not.       *)
DedupAndCommit(u, followers, best) ==
    LET m == content[u]
        matched == MatchAssets(m)
    IN \/ /\ matched = {} /\ best = m
          /\ Place(u, followers, TRUE, m, {}, TRUE)
       \/ /\ best \in Best(matched) /\ IsUpgrade(m, best)
          /\ Place(u, followers, TRUE, m, matched, TRUE)
       \/ /\ best \in Best(matched) /\ ~IsUpgrade(m, best)
          /\ Place(u, followers, FALSE, best, {}, TRUE)

(* onVisionDone: the verdict holds for the clip and its followers.          *)
OnVisionDone(u, best, result) ==
    LET followers == Same(u, "follower")
    IN /\ run = "running" /\ Idle
       /\ stage[u] = "vision"
       /\ \/ /\ result \in {"failed", "rejected"}
             /\ best = content[u]
             /\ Close({u} \cup followers, result)
          \/ /\ result = "accepted"
             /\ DedupAndCommit(u, followers, best)
       /\ UNCHANGED <<removed, durable, run, search, owned, known, terminalErr, faults>>

-----------------------------------------------------------------------------
(* The pipeline: durable writes.                                            *)

(* CandidateRepo.Complete overwrites whatever outcome the row has, except   *)
(* on a removed event: there only an open row changes, to event_removed.    *)
Complete(u, outcome) == IF removed THEN Observed(u) ELSE outcome

(* recordOutcome: an error is kept until the pipeline has drained.          *)
UpsertCandidateOutcome(u, outcome) ==
    /\ closing[u] # "none"
    /\ Returns(outcome)
    /\ candidate' = IF outcome = "failed" THEN candidate
                    ELSE [candidate EXCEPT ![u] = Complete(u, closing[u])]
    /\ closing' = [closing EXCEPT ![u] = "none"]
    /\ owned' = IF outcome = "ok" THEN [owned EXCEPT ![u] = "terminal"] ELSE owned
    /\ terminalErr' = (terminalErr \/ outcome # "ok")
    /\ UNCHANGED <<removed, checklist, progress, credit, owner, order, run, search,
                   stage, known, placing>>

Sources(p) == {p.url} \cup p.followers

(* applyClipPlacementTx finds what the run believed: a new winner is absent *)
(* or live, an existing one live; the observed variant is absent or already *)
(* under this winner; losers are live or already under it; and no source is *)
(* credited elsewhere.                                                      *)
PlacementFits(p) ==
    LET m == content[p.url]
    IN /\ IF p.new THEN owner[m] \in {None, m} ELSE owner[p.winner] = p.winner
       /\ ~p.new /\ p.hashed => m # p.winner /\ owner[m] \in {None, p.winner}
       /\ ~p.hashed => owner[m] = p.winner
       /\ \A k \in p.losers \ {p.winner} : owner[k] \in {k, p.winner}
       /\ \A u \in Sources(p) : credit[u] \in {None, p.winner} \cup p.losers

(* The transaction: the variant is inserted, the sources are credited and   *)
(* closed, losers and their credits move to the winner; then a plan routes  *)
(* every asset and the credits of its sources, unless the credits it would  *)
(* start from are incomplete: then the placement stays as it is.            *)
PlacementOwners(p) ==
    [m \in Media |-> IF m \in p.losers \ {p.winner} \/ (m = content[p.url] /\ owner[m] = None)
                     THEN p.winner ELSE owner[m]]

PlacementOrder(p) ==
    IF owner[content[p.url]] = None THEN Append(order, content[p.url]) ELSE order

PlacementOutcomes(p) ==
    [u \in Urls |-> IF u = p.url /\ p.new THEN "promoted"
                    ELSE IF u \in Sources(p) THEN "duplicate"
                    ELSE IF candidate[u] = "promoted" /\ credit[u] \in p.losers \ {p.winner}
                    THEN "superseded" ELSE candidate[u]]

PlacementCredits(p) ==
    [u \in Urls |-> IF u \in Sources(p) \/ credit[u] \in p.losers THEN p.winner ELSE credit[u]]

(* Objects are reclaimed long after discovery, so all of them are ready.    *)
CommitPlacement(p) ==
    LET owners == PlacementOwners(p)
        credits == PlacementCredits(p)
        sources == {u \in Urls : candidate'[u] \in Credited}
    IN /\ candidate' = PlacementOutcomes(p)
       /\ order' = PlacementOrder(p)
       /\ owner' \in IF CreditsValid(owners, sources, content, credits)
                     THEN PlanSelection(owners, order', Media) ELSE {owners}
       /\ credit' = [u \in Urls |->
                       IF u \in sources /\ CreditsValid(owners, sources, content, credits)
                       THEN owner'[content[u]] ELSE credits[u]]

(* rejectRemovedPlacementCandidates: an open row becomes event_removed.     *)
RejectRemoved(p) ==
    /\ candidate' = [u \in Urls |-> IF u \in Sources(p) THEN Observed(u) ELSE candidate[u]]
    /\ UNCHANGED <<order, owner, credit>>

(* CommitClipPlacement: a placement that does not fit the rows is an error. *)
(* After a commit the run takes the committed selection for its own.        *)
CommitClipPlacement(outcome) ==
    LET p == placing
    IN /\ p # None
       /\ \/ /\ removed
             /\ Returns(outcome)
             /\ IF outcome = "failed" THEN UNCHANGED <<candidate, order, owner, credit>>
                ELSE RejectRemoved(p)
             /\ known' = IF outcome = "ok" THEN Unknown ELSE known
             /\ terminalErr' = (terminalErr \/ outcome # "ok")
             /\ owned' = [u \in Urls |-> IF outcome = "ok" /\ u \in Sources(p)
                                         THEN "terminal" ELSE owned[u]]
          \/ /\ ~removed /\ PlacementFits(p)
             /\ Returns(outcome)
             /\ IF outcome = "failed" THEN UNCHANGED <<candidate, order, owner, credit>>
                ELSE CommitPlacement(p)
             /\ known' = IF outcome = "ok" THEN Roots(owner') ELSE known
             /\ terminalErr' = (terminalErr \/ outcome # "ok")
             /\ owned' = [u \in Urls |-> IF outcome = "ok" /\ u \in Sources(p)
                                         THEN "terminal" ELSE owned[u]]
          \/ /\ ~removed /\ ~PlacementFits(p)
             /\ outcome = "failed"
             /\ terminalErr' = TRUE
             /\ UNCHANGED <<candidate, order, owner, credit, known, owned, faults>>
       /\ placing' = None
       /\ UNCHANGED <<removed, checklist, progress, run, search, stage, closing>>

-----------------------------------------------------------------------------
(* The end of a run.                                                        *)

(* run: when the search is over and nothing is in flight, a durability      *)
(* error, a post without a terminal outcome, or the producer's error fails  *)
(* the workflow; otherwise it goes on to finalizeEvent.                     *)
RunOutcomeIgnoringErrors == "finalizing"                          \* mutant
RunOutcomeIgnoringSearch ==                                       \* mutant
    IF terminalErr \/ \E u \in Urls : owned[u] = "in_flight" THEN "failed" ELSE "finalizing"
RunOutcome ==
    IF \/ terminalErr
       \/ \E u \in Urls : owned[u] = "in_flight"
       \/ producer.failed
    THEN "failed" ELSE "finalizing"

Quiescent == run = "running" /\ Idle /\ producer.pc = "done" /\ InFlight = {}

FinishRun ==
    /\ Quiescent
    /\ run' = RunOutcome
    /\ Forget
    /\ UNCHANGED <<removed, durable, faults>>

CompleteDownstreamWorkflow == IF checklist = "open" THEN "done" ELSE checklist

(* finalizeEvent: MarkDownstreamComplete closes the checklist row, unless   *)
(* it is closed already; the workflow fails when the call does.             *)
FinalizeEvent(outcome) ==
    /\ run = "finalizing"
    /\ Returns(outcome)
    /\ checklist' = IF outcome = "failed" THEN checklist ELSE CompleteDownstreamWorkflow
    /\ run' = IF outcome = "ok" THEN "completed" ELSE "failed"
    /\ UNCHANGED <<removed, progress, candidate, credit, owner, order, search, pipeline>>

(* The run fails in between: it is terminated as stale, or it times out.    *)
StopRun ==
    /\ run \in {"restoring", "running", "finalizing"}
    /\ faults < MaxFaults
    /\ faults' = faults + 1
    /\ run' = "failed"
    /\ Forget
    /\ UNCHANGED <<removed, durable>>

(* registerAbsenceTx removes the event: open posts and the open checklist   *)
(* row are closed with it.                                                  *)
RemoveKeepingPending ==                                           \* mutant
    /\ MayRemove /\ ~removed
    /\ removed' = TRUE
    /\ checklist' = IF checklist = "open" THEN "event_removed" ELSE checklist
    /\ UNCHANGED <<progress, candidate, credit, owner, order, run, search, pipeline, faults>>
RemoveEvent ==
    /\ MayRemove /\ ~removed
    /\ removed' = TRUE
    /\ checklist' = IF checklist = "open" THEN "event_removed" ELSE checklist
    /\ candidate' = [u \in Urls |-> IF candidate[u] = "pending" THEN "event_removed"
                                    ELSE candidate[u]]
    /\ UNCHANGED <<progress, credit, owner, order, run, search, pipeline, faults>>

(* The poll that removed the event asks Temporal to cancel the workflow.    *)
(* The calls it was waiting for may still reach the rows of their posts.    *)
CancelRun(late) ==
    /\ removed
    /\ run \in {"restoring", "running", "finalizing"}
    /\ late \subseteq {u \in Urls : owned[u] = "in_flight"}
    /\ run' = "failed"
    /\ Forget
    /\ candidate' = [u \in Urls |-> IF u \in late THEN Observed(u) ELSE candidate[u]]
    /\ UNCHANGED <<removed, checklist, progress, credit, owner, order, faults>>

-----------------------------------------------------------------------------
Produce ==
    \/ \E found \in SUBSET Urls : SearchTweets(found)
    \/ SearchUnavailable
    \/ \E u \in Urls, outcome \in Outcomes : StoreCandidate(u, outcome)
    \/ \E outcome \in Outcomes : RecordProgress(outcome)

Consume ==
    \/ \E u \in Urls, result \in {"failed", "rejected", "passed"} : OnDownloadDone(u, result)
    \/ \E u, next \in Urls, result \in {"failed", "rejected", "invalid", "passed"} :
          OnHashDone(u, next, result)
    \/ \E u \in Urls, best \in Media, result \in {"failed", "rejected", "accepted"} :
          OnVisionDone(u, best, result)
    \/ \E u \in Urls, outcome \in Outcomes : UpsertCandidateOutcome(u, outcome)
    \/ \E outcome \in Outcomes : CommitClipPlacement(outcome)

Finish ==
    \/ FinishRun
    \/ \E outcome \in Outcomes : FinalizeEvent(outcome)

Work ==
    /\ \/ SpawnEvent
       \/ \E outcome \in Outcomes : Restore(outcome)
       \/ Produce
       \/ Consume
       \/ Finish
    /\ UNCHANGED content

Disturb ==
    /\ \/ SpawnLate
       \/ StopRun
       \/ RemoveEvent
       \/ \E late \in SUBSET Urls : CancelRun(late)
    /\ UNCHANGED content

Next == Work \/ Disturb

(* Temporal drives every started workflow and retries every activity within *)
(* bounded time-outs, and the 30-second poll spawns what still awaits       *)
(* discovery, so something happens as long as there is work.  Nothing is    *)
(* assumed of how searches, downloads or validations end.                   *)
Spec == Init /\ [][Next]_vars /\ WF_vars(Work)

-----------------------------------------------------------------------------
(* Properties. *)

(* The checklist row is closed as done only when the search budget is used  *)
(* up and every post has a terminal outcome.                                *)
DoneIsSettled ==
    checklist = "done" =>
       /\ \A u \in Urls : candidate[u] # "pending"
       /\ progress.attempts = MaxAttempts \/ progress.unavailable = MaxUnavailable

(* When the pipeline has drained without a durability error, every post it  *)
(* took has its terminal outcome in memory and in its row: no waiting post  *)
(* or follower is forgotten ("ended in non-terminal state" is unreachable). *)
NothingStranded ==
    Quiescent /\ ~terminalErr =>
       \A u \in Urls : owned[u] # "none" => /\ owned[u] = "terminal"
                                            /\ candidate[u] \in Terminal

(* A viewer can always see what was accepted: every accepted clip is public *)
(* or is directly shown by a public clip it matches, never only through a   *)
(* hidden one (PlanSelection).                                              *)
AcceptedIsShown ==
    \A m \in Known(owner) : owner[m] \in Live(owner) /\ <<m, owner[m]>> \in Match

(* After the removal nothing becomes public or gets credit, and no post is  *)
(* pending, although searches, uploads and placements may still be running. *)
RemovedIsQuiet ==
    /\ removed /\ removed' => UNCHANGED <<owner, order, credit>>
    /\ removed' => \A u \in Urls : candidate'[u] # "pending"

NothingAfterRemoval == [][RemovedIsQuiet]_vars

(* Once faults stop, the discovery of every confirmed event comes to an     *)
(* end, whatever failed before: no stored state makes every later run fail. *)
ChecklistCloses == checklist = "open" ~> checklist # "open"

OpenPosts == {u \in Urls : candidate[u] = "pending"}

Discovery == IF run \in {"restoring", "running", "finalizing"} THEN "running" ELSE run

Lifecycle == INSTANCE DiscoveryLifecycle WITH discovery <- Discovery, open <- OpenPosts

(* The workflow keeps what the monitor and the completion of the fixture    *)
(* rely on: a row closed as done has no open post, and never gets one       *)
(* again, whatever is restarted, lost, removed or late.                     *)
ImplementsLifecycle == Lifecycle!Spec
=============================================================================
