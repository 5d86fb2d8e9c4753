------------------------ MODULE EventDiscovery_proofs ------------------------
(***************************************************************************)
(* Safety of the discovery of one event for any number of posts, media,    *)
(* attempts and faults, and that it implements the life cycle the monitor  *)
(* relies on.                                                              *)
(***************************************************************************)
EXTENDS EventDiscovery, TLAPS

(* A workflow that is not running has no memory.                           *)
Forgotten ==
    /\ producer = ProducerIdle
    /\ toStore = {}
    /\ owned = [u \in Urls |-> "none"]
    /\ stage = [u \in Urls |-> "off"]
    /\ known = Unknown
    /\ closing = [u \in Urls |-> "none"]
    /\ placing = None
    /\ terminalErr = FALSE

MemoryNeedsRun == run # "running" => Forgotten

(* A post the pipeline still has to do something for: it is in a queue or  *)
(* an activity, its outcome is being written, or it is being placed.       *)
Placed(u) == placing # None /\ u \in Sources(placing)
Active(u) == stage[u] # "off" \/ closing[u] # "none" \/ Placed(u)

(* A post has one duty at a time.                                          *)
OneDuty ==
    /\ placing # None => \A u \in Urls : closing[u] = "none"
    /\ \A u \in Urls : stage[u] # "off" => closing[u] = "none" /\ ~Placed(u)

(* The posts of a run: who is owned, who is still to be driven, and what   *)
(* the rows say of them.                                                   *)
DutiesAreOwned ==
    \A u \in Urls : Active(u) => /\ owned[u] = "in_flight"
                                 /\ candidate[u] \in {"none", "pending", "event_removed"}
OwnedHaveDuties == \A u \in Urls : owned[u] = "in_flight" => Active(u) \/ terminalErr
TerminalIsStored == \A u \in Urls : owned[u] = "terminal" => candidate[u] \in Terminal
StoredIsOwned ==
    /\ run = "running" => \A u \in Urls : owned[u] = "none" => candidate[u] = "none"
    /\ \A u \in toStore : owned[u] # "none"

(* A waiting post has a claimant of its hash, a follower a clip in         *)
(* validation, each of the same media.                                     *)
Claimed ==
    \A u \in Urls :
       /\ stage[u] = "waiting" => \E v \in Urls : content[v] = content[u] /\ stage[v] = "hash"
       /\ stage[u] = "follower" => \E v \in Urls : content[v] = content[u] /\ stage[v] = "vision"

(* The sources of a placement show the same media; a new winner is theirs. *)
PlacesOneMedia ==
    placing # None =>
       /\ \A v \in placing.followers : content[v] = content[placing.url]
       /\ placing.new => placing.winner = content[placing.url] /\ placing.hashed

PipelineInv ==
    /\ MemoryNeedsRun
    /\ OneDuty
    /\ DutiesAreOwned
    /\ OwnedHaveDuties
    /\ TerminalIsStored
    /\ StoredIsOwned
    /\ Claimed
    /\ PlacesOneMedia

(* The search budget is used up.                                           *)
Spent == progress.attempts = MaxAttempts \/ progress.unavailable = MaxUnavailable

NonePending == \A u \in Urls : candidate[u] # "pending"

(* The producer counts from what is recorded and stops when it is spent.   *)
SearchFollowsRecord ==
    run = "running" =>
       /\ producer.pc # "off"
       /\ producer.pc # "done" =>
             /\ ~Spent
             /\ producer.attempt = progress.attempts + 1
             /\ producer.unavailable = IF producer.pc = "unavailable" THEN progress.unavailable + 1
                                       ELSE progress.unavailable
       /\ producer.pc = "done" /\ ~producer.failed => Spent

(* What the rows say once a run may close them, and after a removal.       *)
RowsSettle ==
    /\ run = "finalizing" => NonePending /\ Spent
    /\ removed => NonePending
    /\ checklist = "event_removed" => removed

(* Every credited post counts for the clip that shows its media, and every *)
(* stored clip has a credited post.                                        *)
CreditsComplete ==
    /\ \A u \in Urls : candidate[u] \in Credited => /\ owner[content[u]] # None
                                                    /\ credit[u] = owner[content[u]]
    /\ \A m \in Known(owner) : \E u \in Urls : candidate[u] \in Credited /\ content[u] = m

(* The order of first sight lists every stored clip once.                  *)
OrderListsKnown ==
    /\ \A m \in Media : m \in Known(owner) <=> \E i \in DOMAIN order : order[i] = m
    /\ \A i, j \in DOMAIN order : order[i] = order[j] => i = j

DiscoveryInv ==
    /\ TypeOK
    /\ PipelineInv
    /\ SearchFollowsRecord
    /\ RowsSettle
    /\ DoneIsSettled
    /\ CreditsComplete
    /\ AcceptedIsShown
    /\ OrderListsKnown

-----------------------------------------------------------------------------
(* Type correctness. *)

(* The memory of a run that has ended is typed, and so is what Forget      *)
(* leaves.                                                                 *)
LEMMA ForgetTyped ==
    /\ ProducerIdle \in Producer
    /\ [u \in Urls |-> "none"] \in [Urls -> {"none", "in_flight", "terminal"}]
    /\ [u \in Urls |-> "off"] \in [Urls -> {"off", "download", "waiting", "hash", "vision", "follower"}]
    /\ Unknown \in Owners
    /\ [u \in Urls |-> "none"] \in [Urls -> {"none", "rejected", "failed"}]
  BY DiscoveryAssumption DEF ProducerIdle, Producer, Unknown, Owners

(* The roots of an ownership are an ownership.                             *)
LEMMA RootsTyped == \A own \in Owners : Roots(own) \in Owners
  BY DEF Owners, Roots, Root

(* The variables are typed in the initial state.                           *)
LEMMA InitTyped == Init => TypeOK
  <1>1. [attempts |-> 0, unavailable |-> 0] \in Progress /\ 0 \in 0..MaxFaults
    BY DiscoveryAssumption DEF Progress
  <1>2. [u \in Urls |-> "none"] \in [Urls -> {"none", "pending"} \cup Terminal]
    OBVIOUS
  <1>3. [u \in Urls |-> None] \in [Urls -> Media \cup {None}]
    OBVIOUS
  <1>4. <<>> \in Seq(Media)
    OBVIOUS
  <1> SUFFICES ASSUME Init PROVE TypeOK
    OBVIOUS
  <1>5. /\ removed \in BOOLEAN /\ checklist \in {"open", "done", "event_removed"} /\ progress \in Progress
        /\ candidate \in [Urls -> {"none", "pending"} \cup Terminal]
        /\ run \in {"none", "restoring", "running", "finalizing", "completed", "failed"}
    BY <1>1, <1>2 DEF Init
  <1>6. credit \in [Urls -> Media \cup {None}] /\ owner \in Owners /\ order \in Seq(Media) /\ content \in Contents
    BY <1>3, <1>4, ForgetTyped DEF Init
  <1>7. /\ producer \in Producer /\ toStore \subseteq Urls
        /\ owned \in [Urls -> {"none", "in_flight", "terminal"}]
        /\ stage \in [Urls -> {"off", "download", "waiting", "hash", "vision", "follower"}]
        /\ known \in Owners /\ closing \in [Urls -> {"none", "rejected", "failed"}]
    BY ForgetTyped DEF Init
  <1>8. placing \in Placements \cup {None} /\ terminalErr \in BOOLEAN /\ faults \in 0..MaxFaults
    BY <1>1 DEF Init
  <1> QED BY <1>5, <1>6, <1>7, <1>8 DEF TypeOK

(* Calls that fail are counted.                                            *)
LEMMA ReturnsTyped == \A outcome \in Outcomes : TypeOK /\ Returns(outcome) => faults' \in 0..MaxFaults
  BY DiscoveryAssumption DEF TypeOK, Returns

(* What a row says after an observation or a verdict is an outcome.        *)
LEMMA ObservedTyped ==
    ASSUME TypeOK, NEW u \in Urls
    PROVE  /\ Observed(u) \in {"none", "pending"} \cup Terminal
           /\ \A outcome \in {"rejected", "failed"} : Complete(u, outcome) \in {"none", "pending"} \cup Terminal
  BY DEF TypeOK, Observed, Complete, Terminal

(* The durable rows are typed after a placement, whatever plan it commits. *)
LEMMA PlacementTyped ==
    ASSUME TypeOK, NEW p \in Placements, CommitPlacement(p)
    PROVE  /\ candidate' \in [Urls -> {"none", "pending"} \cup Terminal]
           /\ order' \in Seq(Media) /\ owner' \in Owners
           /\ credit' \in [Urls -> Media \cup {None}]
  <1> USE DEF TypeOK
  <1>1. p.url \in Urls /\ p.winner \in Media
    BY DEF Placements
  <1>c. content \in [Urls -> Media]
    BY DiscoveryAssumption
  <1>2. candidate' \in [Urls -> {"none", "pending"} \cup Terminal]
    BY DEF CommitPlacement, PlacementOutcomes, Terminal, Credited
  <1>3. order' \in Seq(Media)
    BY <1>1, <1>c DEF CommitPlacement, PlacementOrder
  <1>4. PlacementCredits(p) \in [Urls -> Media \cup {None}]
    BY <1>1 DEF PlacementCredits
  <1>5. owner' \in Owners
    <2>1. PlacementOwners(p) \in Owners
      BY <1>1 DEF PlacementOwners, Owners
    <2>2. owner' \in PlanSelection(PlacementOwners(p), order', Media) \/ owner' = PlacementOwners(p)
      BY DEF CommitPlacement
    <2> QED BY <2>1, <2>2 DEF PlanSelection
  <1>6. \A u \in Urls : owner'[content[u]] \in Media \cup {None}
    BY <1>c, <1>5 DEF Owners
  <1>7. credit' \in [Urls -> Media \cup {None}]
    BY <1>4, <1>6 DEF CommitPlacement
  <1> QED BY <1>2, <1>3, <1>5, <1>7

(* The variables keep their types when a run starts and searches.          *)
LEMMA ProduceTyped ==
    ASSUME TypeOK, SearchFollowsRecord, UNCHANGED content,
           SpawnEvent \/ SpawnLate \/ Produce \/ \E outcome \in Outcomes : Restore(outcome)
    PROVE  TypeOK'
  <1> USE DEF TypeOK
  <1>p. /\ progress.attempts \in 0..MaxAttempts /\ progress.unavailable \in 0..MaxUnavailable
        /\ producer.pc \in {"off", "search", "store", "usable", "unavailable", "done"}
        /\ producer.attempt \in 1..MaxAttempts + 1 /\ producer.unavailable \in 0..MaxUnavailable
        /\ producer.failed \in BOOLEAN /\ MaxAttempts \in Nat /\ MaxUnavailable \in Nat
    BY DiscoveryAssumption DEF Progress, Producer
  <1>1. CASE SpawnEvent \/ SpawnLate
    <2>1. faults' \in 0..MaxFaults
      BY <1>1, DiscoveryAssumption DEF SpawnEvent, SpawnLate
    <2> QED BY <1>1, <2>1 DEF SpawnEvent, SpawnLate, durable, search, pipeline
  <1>2. ASSUME NEW outcome \in Outcomes, Restore(outcome)
        PROVE  TypeOK'
    <2>1. faults' \in 0..MaxFaults
      BY <1>2, ReturnsTyped DEF Restore
    <2>2. RestoredSelection \in Owners
      BY ForgetTyped, RootsTyped DEF RestoredSelection
    <2>3. RestoredOwnership \in [Urls -> {"none", "in_flight", "terminal"}]
      BY DEF RestoredOwnership
    <2>4. [pc |-> Searching(progress.attempts + 1, progress.unavailable), attempt |-> progress.attempts + 1,
           unavailable |-> progress.unavailable, failed |-> FALSE] \in Producer
      BY <1>p DEF Producer, Searching
    <2>5. CASE outcome = "failed"
      BY <1>2, <2>1, <2>5 DEF Restore, durable, search, pipeline
    <2>6. CASE outcome # "failed"
      <3>1. /\ run' = "running" /\ known' = RestoredSelection /\ owned' = RestoredOwnership
            /\ producer' = [pc |-> Searching(progress.attempts + 1, progress.unavailable),
                            attempt |-> progress.attempts + 1,
                            unavailable |-> progress.unavailable, failed |-> FALSE]
            /\ UNCHANGED <<toStore, closing, placing, terminalErr>>
            /\ UNCHANGED <<removed, checklist, progress, candidate, credit, owner, order>>
        BY <1>2, <2>6 DEF Restore, durable
      <3>2. stage' \in [Urls -> {"off", "download", "waiting", "hash", "vision", "follower"}]
        BY <1>2, <2>6 DEF Restore
      <3> QED BY <2>1, <2>2, <2>3, <2>4, <3>1, <3>2
    <2> QED BY <2>5, <2>6
  <1>3. ASSUME NEW found \in SUBSET Urls, SearchTweets(found)
        PROVE  TypeOK'
    <2>1. [producer EXCEPT !.pc = IF found = {} THEN "usable" ELSE "store"] \in Producer
      BY DEF Producer
    <2>2. /\ owned' \in [Urls -> {"none", "in_flight", "terminal"}]
          /\ stage' \in [Urls -> {"off", "download", "waiting", "hash", "vision", "follower"}]
      BY <1>3 DEF SearchTweets, SpawnCandidates
    <2> QED BY <1>3, <2>1, <2>2 DEF SearchTweets, durable
  <1>4. CASE SearchUnavailable
    <2>1. producer.unavailable + 1 \in 0..MaxUnavailable
      BY <1>4, <1>p DEF SearchUnavailable, SearchFollowsRecord, Spent
    <2>2. [producer EXCEPT !.pc = "unavailable", !.unavailable = @ + 1] \in Producer
      BY <2>1 DEF Producer
    <2> QED BY <1>4, <2>2 DEF SearchUnavailable, durable, pipeline
  <1>5. ASSUME NEW u \in Urls, NEW outcome \in Outcomes, StoreCandidate(u, outcome)
        PROVE  TypeOK'
    <2>1. faults' \in 0..MaxFaults
      BY <1>5, ReturnsTyped DEF StoreCandidate
    <2>2. candidate' \in [Urls -> {"none", "pending"} \cup Terminal]
      BY <1>5, ObservedTyped DEF StoreCandidate
    <2>3. \A failed \in BOOLEAN, pc \in {"store", "done", "usable"} :
              [producer EXCEPT !.failed = failed, !.pc = pc] \in Producer
      BY DEF Producer
    <2>4. (producer.failed \/ outcome # "ok") \in BOOLEAN
      OBVIOUS
    <2>5. \E failed \in BOOLEAN, pc \in {"store", "done", "usable"} :
              producer' = [producer EXCEPT !.failed = failed, !.pc = pc]
      BY <1>5, <2>4 DEF StoreCandidate
    <2> QED BY <1>5, <2>1, <2>2, <2>3, <2>5 DEF StoreCandidate, pipeline
  <1>6. ASSUME NEW outcome \in Outcomes, RecordProgress(outcome)
        PROVE  TypeOK'
    <2> DEFINE done == IF producer.pc = "usable" THEN producer.attempt ELSE producer.attempt - 1
    <2>1. faults' \in 0..MaxFaults
      BY <1>6, ReturnsTyped DEF RecordProgress
    <2>2. done \in 0..MaxAttempts
      BY <1>6, <1>p, SMTT(30) DEF RecordProgress, SearchFollowsRecord, Spent
    <2>3. /\ AtLeast(progress.attempts, done) \in 0..MaxAttempts
          /\ AtLeast(progress.unavailable, producer.unavailable) \in 0..MaxUnavailable
      BY <1>p, <2>2 DEF AtLeast
    <2>4. /\ done + 1 \in 1..MaxAttempts + 1
          /\ Searching(done + 1, producer.unavailable) \in {"search", "done"}
      BY <1>p, <2>2 DEF Searching
    <2> HIDE DEF done
    <2>5. progress' \in Progress
      <3>1. progress' = progress \/ progress' = [attempts |-> AtLeast(progress.attempts, done),
                          unavailable |-> AtLeast(progress.unavailable, producer.unavailable)]
        BY <1>6 DEF RecordProgress, done
      <3> QED BY <2>3, <3>1 DEF Progress
    <2>6. producer' \in Producer
      <3>1. \/ producer' = [producer EXCEPT !.attempt = done + 1, !.pc = Searching(done + 1, producer.unavailable)]
            \/ producer' = [producer EXCEPT !.failed = TRUE, !.pc = "done"]
        BY <1>6 DEF RecordProgress, done
      <3> QED BY <2>4, <3>1 DEF Producer
    <2> QED BY <1>6, <2>1, <2>5, <2>6 DEF RecordProgress, pipeline
  <1> QED BY <1>1, <1>2, <1>3, <1>4, <1>5, <1>6 DEF Produce

(* A callback leaves every post in a queue it knows.                       *)
LEMMA CallbackTyped ==
    ASSUME TypeOK, UNCHANGED content,
           \/ \E u \in Urls, result \in {"failed", "rejected", "passed"} : OnDownloadDone(u, result)
           \/ \E u, next \in Urls, result \in {"failed", "rejected", "invalid", "passed"} :
                OnHashDone(u, next, result)
           \/ \E u \in Urls, best \in Media, result \in {"failed", "rejected", "accepted"} :
                OnVisionDone(u, best, result)
    PROVE  TypeOK'
  <1> USE DEF TypeOK
  <1>m. \A u \in Urls : content[u] \in Media
    BY DiscoveryAssumption
  <1>c. ASSUME NEW S \in SUBSET Urls, NEW outcome \in {"rejected", "failed"}, Close(S, outcome)
        PROVE  /\ stage' \in [Urls -> {"off", "download", "waiting", "hash", "vision", "follower"}]
               /\ closing' \in [Urls -> {"none", "rejected", "failed"}] /\ placing' \in Placements \cup {None}
    BY <1>c DEF Close
  <1>p. ASSUME NEW u \in Urls, NEW followers \in SUBSET Urls, NEW new \in BOOLEAN, NEW winner \in Media,
               NEW losers \in SUBSET Media, NEW hashed \in BOOLEAN,
               Place(u, followers, new, winner, losers, hashed)
        PROVE  /\ stage' \in [Urls -> {"off", "download", "waiting", "hash", "vision", "follower"}]
               /\ closing' \in [Urls -> {"none", "rejected", "failed"}] /\ placing' \in Placements \cup {None}
    <2>1. [url |-> u, followers |-> followers, new |-> new, winner |-> winner, losers |-> losers,
           hashed |-> hashed] \in Placements
      BY DEF Placements
    <2> QED BY <1>p, <2>1 DEF Place
  <1>1. ASSUME NEW u \in Urls, NEW result \in {"failed", "rejected", "passed"}, OnDownloadDone(u, result)
        PROVE  TypeOK'
    <2>1. /\ stage' \in [Urls -> {"off", "download", "waiting", "hash", "vision", "follower"}]
          /\ closing' \in [Urls -> {"none", "rejected", "failed"}] /\ placing' \in Placements \cup {None}
      <3>1. CASE result \in {"failed", "rejected"} /\ Close({u}, result)
        BY <1>c, <3>1
      <3>2. CASE known[content[u]] # None /\ Place(u, {}, FALSE, known[content[u]], {}, FALSE)
        <4>1. known[content[u]] \in Media
          BY <1>m, <3>2 DEF Owners
        <4> QED BY <1>p, <3>2, <4>1
      <3>3. CASE /\ stage' = [stage EXCEPT ![u] = IF Same(u, "vision") # {} THEN "follower"
                                                  ELSE IF Same(u, "hash") # {} THEN "waiting" ELSE "hash"]
                 /\ UNCHANGED <<closing, placing>>
        BY <3>3
      <3> QED BY <1>1, <3>1, <3>2, <3>3 DEF OnDownloadDone
    <2> QED BY <1>1, <2>1 DEF OnDownloadDone, durable, search
  <1>2. ASSUME NEW u \in Urls, NEW next \in Urls, NEW result \in {"failed", "rejected", "invalid", "passed"},
               OnHashDone(u, next, result)
        PROVE  TypeOK'
    <2>1. /\ stage' \in [Urls -> {"off", "download", "waiting", "hash", "vision", "follower"}]
          /\ closing' \in [Urls -> {"none", "rejected", "failed"}] /\ placing' \in Placements \cup {None}
      <3>1. CASE result = "failed"
        <4>1. /\ closing' = [closing EXCEPT ![u] = "failed"] /\ UNCHANGED placing
              /\ stage' = [v \in Urls |-> IF v = u THEN "off" ELSE IF v = next THEN "hash" ELSE stage[v]]
          BY <1>2, <3>1 DEF OnHashDone
        <4> QED BY <4>1
      <3>2. CASE result \in {"rejected", "invalid"}
        <4>1. {u} \cup Same(u, "waiting") \in SUBSET Urls
          BY DEF Same
        <4> QED BY <1>2, <1>c, <3>2, <4>1 DEF OnHashDone
      <3>3. CASE result = "passed"
        BY <1>2, <3>3 DEF OnHashDone
      <3> QED BY <3>1, <3>2, <3>3
    <2> QED BY <1>2, <2>1 DEF OnHashDone, durable, search
  <1>3. ASSUME NEW u \in Urls, NEW best \in Media, NEW result \in {"failed", "rejected", "accepted"},
               OnVisionDone(u, best, result)
        PROVE  TypeOK'
    <2> DEFINE followers == Same(u, "follower")
               matched == MatchAssets(content[u])
    <2>f. followers \in SUBSET Urls /\ {u} \cup followers \in SUBSET Urls /\ matched \in SUBSET Media
      BY DEF Same, MatchAssets, Live
    <2>1. /\ stage' \in [Urls -> {"off", "download", "waiting", "hash", "vision", "follower"}]
          /\ closing' \in [Urls -> {"none", "rejected", "failed"}] /\ placing' \in Placements \cup {None}
      <3>1. CASE result \in {"failed", "rejected"} /\ Close({u} \cup followers, result)
        BY <1>c, <3>1, <2>f
      <3>2. CASE \/ Place(u, followers, TRUE, content[u], {}, TRUE)
                 \/ Place(u, followers, TRUE, content[u], matched, TRUE)
                 \/ Place(u, followers, FALSE, best, {}, TRUE)
        BY <1>m, <1>p, <3>2, <2>f
      <3> QED BY <1>3, <3>1, <3>2 DEF OnVisionDone, DedupAndCommit
    <2> QED BY <1>3, <2>1 DEF OnVisionDone, durable, search
  <1> QED BY <1>1, <1>2, <1>3

(* The variables keep their types in the durable writes of the pipeline.   *)
LEMMA WriteTyped ==
    ASSUME TypeOK, UNCHANGED content,
           \/ \E u \in Urls, outcome \in Outcomes : UpsertCandidateOutcome(u, outcome)
           \/ \E outcome \in Outcomes : CommitClipPlacement(outcome)
    PROVE  TypeOK'
  <1> USE DEF TypeOK
  <1>e. \A outcome \in Outcomes : (terminalErr \/ outcome # "ok") \in BOOLEAN
    OBVIOUS
  <1>1. ASSUME NEW u \in Urls, NEW outcome \in Outcomes, UpsertCandidateOutcome(u, outcome)
        PROVE  TypeOK'
    <2>1. faults' \in 0..MaxFaults
      BY <1>1, ReturnsTyped DEF UpsertCandidateOutcome
    <2>2. candidate' \in [Urls -> {"none", "pending"} \cup Terminal]
      BY <1>1, ObservedTyped DEF UpsertCandidateOutcome
    <2>3. terminalErr' \in BOOLEAN
      BY <1>1, <1>e DEF UpsertCandidateOutcome
    <2> QED BY <1>1, <2>1, <2>2, <2>3 DEF UpsertCandidateOutcome, search
  <1>2. ASSUME NEW outcome \in Outcomes, CommitClipPlacement(outcome)
        PROVE  TypeOK'
    <2>0. placing \in Placements /\ placing' = None
          /\ UNCHANGED <<removed, checklist, progress, run, producer, toStore, stage, closing>>
      BY <1>2 DEF CommitClipPlacement, search
    <2>1. faults' \in 0..MaxFaults
      BY <1>2, ReturnsTyped DEF CommitClipPlacement
    <2>2. terminalErr' \in BOOLEAN
      BY <1>2, <1>e DEF CommitClipPlacement
    <2>3. owned' \in [Urls -> {"none", "in_flight", "terminal"}]
      BY <1>2 DEF CommitClipPlacement
    <2>4. /\ candidate' \in [Urls -> {"none", "pending"} \cup Terminal]
          /\ order' \in Seq(Media) /\ owner' \in Owners
          /\ credit' \in [Urls -> Media \cup {None}]
      <3>1. CASE UNCHANGED <<candidate, order, owner, credit>>
        BY <3>1
      <3>2. CASE RejectRemoved(placing)
        BY <3>2, ObservedTyped DEF RejectRemoved
      <3>3. ASSUME CommitPlacement(placing)
            PROVE  /\ candidate' \in [Urls -> {"none", "pending"} \cup Terminal]
                   /\ order' \in Seq(Media) /\ owner' \in Owners
                   /\ credit' \in [Urls -> Media \cup {None}]
        BY <2>0, <3>3, PlacementTyped
      <3> QED BY <1>2, <3>1, <3>2, <3>3 DEF CommitClipPlacement
    <2>5. known' \in Owners
      <3>1. known' = known \/ known' = Unknown \/ known' = Roots(owner')
        BY <1>2 DEF CommitClipPlacement
      <3> QED BY <2>4, <3>1, ForgetTyped, RootsTyped
    <2> QED BY <2>0, <2>1, <2>2, <2>3, <2>4, <2>5
  <1> QED BY <1>1, <1>2

(* The variables keep their types when a run ends and when the event is    *)
(* removed.                                                                *)
LEMMA EndTyped ==
    ASSUME TypeOK, UNCHANGED content,
           \/ Finish \/ StopRun \/ RemoveEvent \/ \E late \in SUBSET Urls : CancelRun(late)
    PROVE  TypeOK'
  <1> USE DEF TypeOK
  <1>f. Forget => /\ producer' \in Producer /\ toStore' \subseteq Urls
                  /\ owned' \in [Urls -> {"none", "in_flight", "terminal"}]
                  /\ stage' \in [Urls -> {"off", "download", "waiting", "hash", "vision", "follower"}]
                  /\ known' \in Owners
                  /\ closing' \in [Urls -> {"none", "rejected", "failed"}]
                  /\ placing' \in Placements \cup {None} /\ terminalErr' \in BOOLEAN
    BY ForgetTyped, ZenonT(40) DEF Forget
  <1>1. CASE FinishRun
    <2>1. run' \in {"failed", "finalizing"}
      BY <1>1 DEF FinishRun, RunOutcome
    <2> QED BY <1>1, <1>f, <2>1 DEF FinishRun, durable
  <1>2. ASSUME NEW outcome \in Outcomes, FinalizeEvent(outcome)
        PROVE  TypeOK'
    <2>1. faults' \in 0..MaxFaults
      BY <1>2, ReturnsTyped DEF FinalizeEvent
    <2>2. checklist' \in {"open", "done", "event_removed"} /\ run' \in {"completed", "failed"}
      BY <1>2 DEF FinalizeEvent, CompleteDownstreamWorkflow
    <2> QED BY <1>2, <2>1, <2>2 DEF FinalizeEvent, search, pipeline
  <1>3. CASE StopRun
    <2>1. faults' \in 0..MaxFaults
      BY <1>3, DiscoveryAssumption DEF StopRun
    <2> QED BY <1>3, <1>f, <2>1 DEF StopRun, durable
  <1>4. CASE RemoveEvent
    <2>1. candidate' \in [Urls -> {"none", "pending"} \cup Terminal]
      BY <1>4 DEF RemoveEvent, Terminal
    <2> QED BY <1>4, <2>1 DEF RemoveEvent, search, pipeline
  <1>5. ASSUME NEW late \in SUBSET Urls, CancelRun(late)
        PROVE  TypeOK'
    <2>1. candidate' \in [Urls -> {"none", "pending"} \cup Terminal]
      BY <1>5, ObservedTyped DEF CancelRun
    <2> QED BY <1>5, <1>f, <2>1 DEF CancelRun
  <1> QED BY <1>1, <1>2, <1>3, <1>4, <1>5 DEF Finish

(* Every step keeps the types.                                             *)
LEMMA StepTyped ==
    ASSUME TypeOK, SearchFollowsRecord, [Next]_vars
    PROVE  TypeOK'
  <1>1. CASE UNCHANGED vars
    BY <1>1 DEF vars, TypeOK
  <1>2. CASE Work \/ Disturb
    BY <1>2, ProduceTyped, CallbackTyped, WriteTyped, EndTyped DEF Work, Disturb, Consume
  <1> QED BY <1>1, <1>2 DEF Next

-----------------------------------------------------------------------------
(* The pipeline: callbacks move the duty of a post and never drop it. *)

(* A callback that keeps every duty, and touches no row, keeps what the    *)
(* run owns.                                                               *)
LEMMA DutiesMoved ==
    ASSUME TypeOK, PipelineInv, run = "running",
           UNCHANGED <<candidate, run, toStore, owned, terminalErr, content>>,
           \A u \in Urls : Active(u)' <=> Active(u), OneDuty', Claimed', PlacesOneMedia'
    PROVE  PipelineInv'
  <1> USE DEF PipelineInv
  <1>1. MemoryNeedsRun'
    BY DEF MemoryNeedsRun
  <1>2. DutiesAreOwned' /\ OwnedHaveDuties'
    <2> HIDE DEF PipelineInv
    <2>1. DutiesAreOwned /\ OwnedHaveDuties
      BY DEF PipelineInv
    <2> QED BY <2>1 DEF DutiesAreOwned, OwnedHaveDuties
  <1>3. TerminalIsStored' /\ StoredIsOwned'
    BY DEF TerminalIsStored, StoredIsOwned
  <1> QED BY <1>1, <1>2, <1>3

(* Posts that are closed go from their queue to the write of the outcome.  *)
LEMMA CloseMoves ==
    ASSUME TypeOK, PipelineInv, Idle, NEW S \in SUBSET Urls, NEW outcome \in {"rejected", "failed"},
           Close(S, outcome), \A u \in S : stage[u] # "off"
    PROVE  /\ \A u \in Urls : Active(u)' <=> Active(u)
           /\ OneDuty' /\ PlacesOneMedia'
  <1>1. placing = None /\ placing' = None /\ \A u \in Urls : closing[u] = "none"
    BY DEF Idle, Close
  <1>2. /\ \A u \in S : closing'[u] = outcome /\ stage'[u] = "off"
        /\ \A u \in Urls \ S : closing'[u] = closing[u] /\ stage'[u] = stage[u]
    BY DEF Close
  <1>3. \A u \in Urls : Active(u)' <=> Active(u)
    BY <1>1, <1>2 DEF Active, Placed
  <1>4. OneDuty' /\ PlacesOneMedia'
    BY <1>1, <1>2 DEF OneDuty, Placed, PlacesOneMedia
  <1> QED BY <1>3, <1>4

(* A clip and its followers go from their queues to the placement.         *)
LEMMA PlaceMoves ==
    ASSUME TypeOK, PipelineInv, Idle, UNCHANGED <<closing, content>>, placing' \in Placements,
           NEW S \in SUBSET Urls, S = Sources(placing'),
           \A v \in S : stage[v] # "off" /\ stage'[v] = "off" /\ content[v] = content[placing'.url],
           \A v \in Urls \ S : stage'[v] = stage[v],
           placing'.new => placing'.winner = content[placing'.url] /\ placing'.hashed
    PROVE  /\ \A v \in Urls : Active(v)' <=> Active(v)
           /\ OneDuty' /\ PlacesOneMedia'
  <1>1. placing = None /\ placing' # None /\ \A v \in Urls : closing[v] = "none" /\ closing'[v] = "none"
    BY NoneAssumption DEF Idle
  <1>2. \A v \in Urls : Active(v)' <=> Active(v)
    BY <1>1 DEF Active, Placed
  <1>3. OneDuty'
    BY <1>1 DEF OneDuty, Placed
  <1>4. PlacesOneMedia'
    BY <1>1 DEF PlacesOneMedia, Sources
  <1> QED BY <1>2, <1>3, <1>4

(* onDownloadDone (workflow/pipeline.go) keeps the invariant of the        *)
(* pipeline.                                                               *)
LEMMA DownloadKeepsDuties ==
    ASSUME TypeOK, PipelineInv, UNCHANGED content, NEW u \in Urls,
           NEW result \in {"failed", "rejected", "passed"}, OnDownloadDone(u, result)
    PROVE  PipelineInv'
  <1>0. /\ run = "running" /\ Idle /\ stage[u] = "download"
        /\ UNCHANGED <<candidate, run, toStore, owned, terminalErr>>
    BY DEF OnDownloadDone, durable, search
  <1>c. Claimed
    BY DEF PipelineInv
  <1>1. CASE result \in {"failed", "rejected"} /\ Close({u}, result)
    <2>1. /\ \A v \in Urls : Active(v)' <=> Active(v)
          /\ OneDuty' /\ PlacesOneMedia'
      BY <1>0, <1>1, CloseMoves
    <2>2. stage'[u] = "off" /\ \A v \in Urls \ {u} : stage'[v] = stage[v]
      BY <1>1 DEF Close
    <2>3. Claimed'
      BY <1>0, <1>c, <2>2 DEF Claimed
    <2> QED BY <1>0, <2>1, <2>3, DutiesMoved
  <1>2. CASE known[content[u]] # None /\ Place(u, {}, FALSE, known[content[u]], {}, FALSE)
    <2>1. known[content[u]] \in Media
      BY <1>2, DiscoveryAssumption DEF TypeOK, Owners
    <2>p. /\ placing' \in Placements /\ placing'.url = u /\ placing'.followers = {} /\ ~placing'.new
          /\ UNCHANGED closing
      BY <1>2, <2>1 DEF Place, Placements
    <2>3. stage'[u] = "off" /\ \A v \in Urls \ {u} : stage'[v] = stage[v]
      BY <1>2 DEF Place
    <2>s. Sources(placing') = {u}
      BY <2>p DEF Sources
    <2>2. /\ \A v \in Urls : Active(v)' <=> Active(v)
          /\ OneDuty' /\ PlacesOneMedia'
      BY <1>0, <2>p, <2>s, <2>3, PlaceMoves
    <2>4. Claimed'
      BY <1>0, <1>c, <2>3 DEF Claimed
    <2> QED BY <1>0, <2>2, <2>4, DutiesMoved
  <1>3. CASE /\ stage' = [stage EXCEPT ![u] = IF Same(u, "vision") # {} THEN "follower"
                                              ELSE IF Same(u, "hash") # {} THEN "waiting" ELSE "hash"]
             /\ UNCHANGED <<closing, placing>>
    <2>1. /\ \A v \in Urls \ {u} : stage'[v] = stage[v]
          /\ stage'[u] \in {"follower", "waiting", "hash"}
          /\ stage'[u] = "follower" => Same(u, "vision") # {}
          /\ stage'[u] = "waiting" => Same(u, "hash") # {}
      BY <1>3 DEF TypeOK
    <2>2. Claimed'
      BY <1>0, <1>c, <2>1 DEF Claimed, Same
    <2>3. \A v \in Urls : Active(v)' <=> Active(v)
      BY <1>0, <1>3, <2>1 DEF Active, Placed
    <2>4. OneDuty' /\ PlacesOneMedia'
      BY <1>0, <1>3, <2>1 DEF PipelineInv, OneDuty, Placed, PlacesOneMedia
    <2> QED BY <1>0, <2>2, <2>3, <2>4, DutiesMoved
  <1> QED BY <1>1, <1>2, <1>3 DEF OnDownloadDone

(* onHashDone hands the claim to the next post waiting, or takes all of    *)
(* them along.                                                             *)
LEMMA HashKeepsDuties ==
    ASSUME TypeOK, PipelineInv, UNCHANGED content, NEW u \in Urls, NEW next \in Urls,
           NEW result \in {"failed", "rejected", "invalid", "passed"}, OnHashDone(u, next, result)
    PROVE  PipelineInv'
  <1> DEFINE waiting == Same(u, "waiting")
  <1>0. /\ run = "running" /\ Idle /\ stage[u] = "hash"
        /\ UNCHANGED <<candidate, run, toStore, owned, terminalErr>>
    BY DEF OnHashDone, durable, search
  <1>c. Claimed
    BY DEF PipelineInv
  <1>w. \A v \in Urls : v \in waiting <=> v # u /\ content[v] = content[u] /\ stage[v] = "waiting"
    BY DEF Same
  <1>s. waiting \in SUBSET Urls
    BY DEF Same
  <1>1. CASE result = "failed"
    <2>1. /\ closing' = [closing EXCEPT ![u] = "failed"] /\ UNCHANGED placing
          /\ stage' = [v \in Urls |-> IF v = u THEN "off" ELSE IF v = next THEN "hash" ELSE stage[v]]
          /\ next \in IF waiting # {} THEN waiting ELSE {u}
      BY <1>1 DEF OnHashDone
    <2>2. /\ stage'[u] = "off" /\ closing'[u] = "failed"
          /\ \A v \in Urls \ {u} : closing'[v] = closing[v]
          /\ \A v \in Urls \ {u, next} : stage'[v] = stage[v]
          /\ next # u => stage'[next] = "hash" /\ stage[next] = "waiting"
      BY <1>w, <2>1 DEF TypeOK
    <2>3. placing = None /\ placing' = None /\ \A v \in Urls : closing[v] = "none"
      BY <1>0, <2>1 DEF Idle
    <2>4. \A v \in Urls : Active(v)' <=> Active(v)
      BY <1>0, <2>2, <2>3 DEF Active, Placed
    <2>5. OneDuty' /\ PlacesOneMedia'
      BY <2>2, <2>3 DEF OneDuty, Placed, PlacesOneMedia
    <2>6. Claimed'
      <3> SUFFICES ASSUME NEW w \in Urls
                   PROVE  /\ stage'[w] = "waiting" => \E v \in Urls : content[v] = content[w] /\ stage'[v] = "hash"
                          /\ stage'[w] = "follower" => \E v \in Urls : content[v] = content[w] /\ stage'[v] = "vision"
        BY DEF Claimed
      <3>1. CASE stage'[w] = "waiting"
        <4>1. w # u /\ w # next /\ stage[w] = "waiting"
          BY <2>2, <3>1
        <4>2. PICK v \in Urls : content[v] = content[w] /\ stage[v] = "hash"
          BY <1>c, <4>1 DEF Claimed
        <4>3. CASE v = u
          <5>1. w \in waiting
            BY <1>w, <4>1, <4>2, <4>3
          <5>2. next # u /\ content[next] = content[w]
            BY <1>w, <2>1, <4>2, <4>3, <5>1
          <5> QED BY <2>2, <3>1, <5>2
        <4>4. CASE v # u
          BY <2>2, <3>1, <4>2, <4>4
        <4> QED BY <4>3, <4>4
      <3>2. CASE stage'[w] = "follower"
        BY <1>0, <1>c, <2>2, <3>2 DEF Claimed
      <3> QED BY <3>1, <3>2
    <2> QED BY <1>0, <2>4, <2>5, <2>6, DutiesMoved
  <1>2. CASE result \in {"rejected", "invalid"}
    <2>1. Close({u} \cup waiting, IF result = "rejected" THEN result ELSE "failed")
      BY <1>2 DEF OnHashDone
    <2>2. /\ \A v \in {u} \cup waiting : stage'[v] = "off"
          /\ \A v \in Urls \ ({u} \cup waiting) : stage'[v] = stage[v]
      BY <1>s, <2>1 DEF Close
    <2>3. /\ \A v \in Urls : Active(v)' <=> Active(v)
          /\ OneDuty' /\ PlacesOneMedia'
      <3>1. \A v \in {u} \cup waiting : stage[v] # "off"
        BY <1>0, <1>s, <1>w
      <3>2. (IF result = "rejected" THEN result ELSE "failed") \in {"rejected", "failed"}
        OBVIOUS
      <3>3. {u} \cup waiting \in SUBSET Urls
        BY <1>s
      <3> QED BY <1>0, <2>1, <3>1, <3>2, <3>3, CloseMoves
    <2>4. Claimed'
      BY <1>0, <1>c, <1>w, <2>2 DEF Claimed
    <2> QED BY <1>0, <2>3, <2>4, DutiesMoved
  <1>3. CASE result = "passed"
    <2>1. /\ stage' = [v \in Urls |-> IF v = u THEN "vision" ELSE IF v \in waiting THEN "follower" ELSE stage[v]]
          /\ UNCHANGED <<closing, placing>>
      BY <1>3 DEF OnHashDone
    <2>2. /\ stage'[u] = "vision" /\ \A v \in waiting : stage'[v] = "follower" /\ stage[v] = "waiting"
          /\ \A v \in Urls \ ({u} \cup waiting) : stage'[v] = stage[v]
      BY <1>s, <1>w, <2>1
    <2>3. \A v \in Urls : Active(v)' <=> Active(v)
      BY <1>0, <2>1, <2>2 DEF Active, Placed
    <2>4. OneDuty' /\ PlacesOneMedia'
      BY <1>0, <2>1, <2>2 DEF PipelineInv, OneDuty, Placed, PlacesOneMedia
    <2>5. Claimed'
      BY <1>0, <1>c, <1>w, <2>2 DEF Claimed
    <2> QED BY <1>0, <2>3, <2>4, <2>5, DutiesMoved
  <1> QED BY <1>1, <1>2, <1>3

(* onVisionDone takes every follower along, to the write of the verdict or *)
(* into the placement.                                                     *)
LEMMA VisionKeepsDuties ==
    ASSUME TypeOK, PipelineInv, UNCHANGED content, NEW u \in Urls, NEW best \in Media,
           NEW result \in {"failed", "rejected", "accepted"}, OnVisionDone(u, best, result)
    PROVE  PipelineInv'
  <1> DEFINE followers == Same(u, "follower")
             matched == MatchAssets(content[u])
  <1>0. /\ run = "running" /\ Idle /\ stage[u] = "vision"
        /\ UNCHANGED <<candidate, run, toStore, owned, terminalErr>>
    BY DEF OnVisionDone, durable, search
  <1>c. Claimed
    BY DEF PipelineInv
  <1>w. \A v \in Urls : v \in followers <=> v # u /\ content[v] = content[u] /\ stage[v] = "follower"
    BY DEF Same
  <1>s. followers \in SUBSET Urls /\ {u} \cup followers \in SUBSET Urls /\ matched \in SUBSET Media
        /\ content[u] \in Media
    BY DiscoveryAssumption DEF Same, MatchAssets, Live, TypeOK
  <1>f. \A v \in {u} \cup followers : stage[v] # "off" /\ content[v] = content[u]
    BY <1>0, <1>s, <1>w
  <1>1. /\ \A v \in Urls : Active(v)' <=> Active(v)
        /\ OneDuty' /\ PlacesOneMedia'
        /\ \A v \in {u} \cup followers : stage'[v] = "off"
        /\ \A v \in Urls \ ({u} \cup followers) : stage'[v] = stage[v]
    <2>1. CASE result \in {"failed", "rejected"} /\ Close({u} \cup followers, result)
      <3>1. /\ \A v \in {u} \cup followers : stage'[v] = "off"
            /\ \A v \in Urls \ ({u} \cup followers) : stage'[v] = stage[v]
        BY <1>s, <2>1 DEF Close
      <3> QED BY <1>0, <1>s, <1>f, <2>1, <3>1, CloseMoves
    <2>2. CASE \/ Place(u, followers, TRUE, content[u], {}, TRUE)
               \/ Place(u, followers, TRUE, content[u], matched, TRUE)
               \/ Place(u, followers, FALSE, best, {}, TRUE)
      <3>1. /\ placing' \in Placements /\ placing'.url = u /\ placing'.followers = followers
            /\ placing'.new => placing'.winner = content[u] /\ placing'.hashed
            /\ UNCHANGED closing
        <4> HIDE DEF followers, matched
        <4>1. CASE Place(u, followers, TRUE, content[u], {}, TRUE)
          BY <1>s, <4>1 DEF Place, Placements
        <4>2. CASE Place(u, followers, TRUE, content[u], matched, TRUE)
          BY <1>s, <4>2 DEF Place, Placements
        <4>3. CASE Place(u, followers, FALSE, best, {}, TRUE)
          BY <1>s, <4>3 DEF Place, Placements
        <4> QED BY <2>2, <4>1, <4>2, <4>3
      <3>2. /\ \A v \in {u} \cup followers : stage'[v] = "off"
            /\ \A v \in Urls \ ({u} \cup followers) : stage'[v] = stage[v]
        BY <1>s, <2>2 DEF Place
      <3>3. Sources(placing') = {u} \cup followers
        BY <3>1 DEF Sources
      <3> QED BY <1>0, <1>s, <1>f, <3>1, <3>2, <3>3, PlaceMoves
    <2>3. \/ result \in {"failed", "rejected"} /\ Close({u} \cup followers, result)
          \/ Place(u, followers, TRUE, content[u], {}, TRUE)
          \/ Place(u, followers, TRUE, content[u], matched, TRUE)
          \/ Place(u, followers, FALSE, best, {}, TRUE)
      BY DEF OnVisionDone, DedupAndCommit
    <2> QED BY <2>1, <2>2, <2>3
  <1>2. Claimed'
    BY <1>0, <1>c, <1>w, <1>1 DEF Claimed
  <1> QED BY <1>0, <1>1, <1>2, DutiesMoved

(* A run without memory has no duties.                                     *)
LEMMA ForgottenKeepsDuties ==
    ASSUME Forgotten', run' # "running"
    PROVE  PipelineInv'
  <1>1. \A u \in Urls : ~Active(u)' /\ owned'[u] = "none" /\ stage'[u] = "off" /\ closing'[u] = "none"
    BY DEF Forgotten, Active, Placed
  <1>2. placing' = None /\ toStore' = {}
    BY DEF Forgotten
  <1>3. MemoryNeedsRun' /\ OneDuty' /\ PlacesOneMedia'
    BY <1>1, <1>2 DEF MemoryNeedsRun, OneDuty, PlacesOneMedia
  <1>4. DutiesAreOwned' /\ OwnedHaveDuties' /\ TerminalIsStored'
    BY <1>1 DEF DutiesAreOwned, OwnedHaveDuties, TerminalIsStored
  <1>5. StoredIsOwned' /\ Claimed'
    BY <1>1, <1>2 DEF StoredIsOwned, Claimed
  <1> QED BY <1>3, <1>4, <1>5 DEF PipelineInv

(* A run that starts owns every post that has a row, and drives the        *)
(* pending ones (LoadEventRecoveryState, workflow/event.go).               *)
LEMMA RestoreKeepsDuties ==
    ASSUME TypeOK, PipelineInv, NEW outcome \in Outcomes, Restore(outcome)
    PROVE  PipelineInv'
  <1>0. run = "restoring" /\ Forgotten /\ UNCHANGED candidate
    BY DEF Restore, PipelineInv, MemoryNeedsRun, durable
  <1>1. CASE outcome = "failed"
    <2>1. Forgotten' /\ run' # "running"
      BY <1>0, <1>1 DEF Restore, Forgotten, search, pipeline
    <2> QED BY <2>1, ForgottenKeepsDuties
  <1>2. CASE outcome # "failed"
    <2>1. /\ run' = "running" /\ owned' = RestoredOwnership
          /\ stage' = [u \in Urls |-> IF RestoredOwnership[u] = "in_flight" THEN "download" ELSE "off"]
          /\ UNCHANGED <<toStore, closing, placing, terminalErr>>
      BY <1>2 DEF Restore
    <2>2. toStore' = {} /\ placing' = None /\ \A u \in Urls : closing'[u] = "none"
      BY <1>0, <2>1 DEF Forgotten
    <2>3. \A u \in Urls : /\ stage'[u] = IF owned'[u] = "in_flight" THEN "download" ELSE "off"
                          /\ owned'[u] = "in_flight" <=> candidate[u] = "pending"
                          /\ owned'[u] = "none" <=> candidate[u] = "none"
      BY <2>1 DEF RestoredOwnership
    <2>4. \A u \in Urls : Active(u)' <=> owned'[u] = "in_flight"
      BY <2>2, <2>3 DEF Active, Placed
    <2>5. OneDuty' /\ PlacesOneMedia' /\ Claimed'
      BY <2>2, <2>3 DEF OneDuty, Placed, PlacesOneMedia, Claimed
    <2>6. DutiesAreOwned' /\ OwnedHaveDuties'
      BY <1>0, <2>3, <2>4 DEF DutiesAreOwned, OwnedHaveDuties
    <2>7. TerminalIsStored'
      BY <1>0, <2>3 DEF TerminalIsStored, TypeOK
    <2>8. StoredIsOwned' /\ MemoryNeedsRun'
      BY <1>0, <2>1, <2>2, <2>3 DEF StoredIsOwned, MemoryNeedsRun
    <2> QED BY <2>5, <2>6, <2>7, <2>8 DEF PipelineInv
  <1> QED BY <1>1, <1>2

(* A search hands new posts to the pipeline (spawnCandidate).              *)
LEMMA SearchKeepsDuties ==
    ASSUME TypeOK, PipelineInv, UNCHANGED content, NEW found \in SUBSET Urls, SearchTweets(found)
    PROVE  PipelineInv'
  <1> USE DEF TypeOK
  <1>0. /\ run = "running" /\ toStore' = found
        /\ UNCHANGED <<candidate, run, closing, placing, terminalErr>>
    BY DEF SearchTweets, durable
  <1>1. /\ \A u \in found : owned[u] = "none" /\ owned'[u] = "in_flight" /\ stage'[u] = "download"
        /\ \A u \in Urls \ found : owned'[u] = owned[u] /\ stage'[u] = stage[u]
    BY DEF SearchTweets, SpawnCandidates
  <1>2. \A u \in found : ~Active(u) /\ candidate[u] = "none"
    BY <1>0, <1>1 DEF PipelineInv, DutiesAreOwned, StoredIsOwned
  <1>3. \A u \in Urls : /\ u \in found => Active(u)' /\ ~Placed(u)' /\ closing'[u] = "none" /\ stage[u] = "off"
                        /\ u \notin found => (Active(u)' <=> Active(u))
                        /\ Placed(u)' <=> Placed(u)
    BY <1>0, <1>1, <1>2 DEF Active, Placed
  <1>4. OneDuty'
    BY <1>0, <1>1, <1>3 DEF PipelineInv, OneDuty
  <1>5. DutiesAreOwned' /\ OwnedHaveDuties'
    <2>1. DutiesAreOwned /\ OwnedHaveDuties
      BY DEF PipelineInv
    <2> QED BY <1>0, <1>1, <1>2, <1>3, <2>1 DEF DutiesAreOwned, OwnedHaveDuties
  <1>6. TerminalIsStored' /\ StoredIsOwned' /\ MemoryNeedsRun' /\ PlacesOneMedia'
    BY <1>0, <1>1 DEF PipelineInv, TerminalIsStored, StoredIsOwned, MemoryNeedsRun, PlacesOneMedia
  <1>7. Claimed'
    BY <1>1, <1>3 DEF PipelineInv, Claimed
  <1> QED BY <1>4, <1>5, <1>6, <1>7 DEF PipelineInv

(* A step that changes rows only, and in the way of an observation: a post *)
(* without a terminal outcome keeps having none, a terminal outcome stays. *)
LEMMA RowsKeepDuties ==
    ASSUME TypeOK, PipelineInv,
           UNCHANGED <<run, owned, stage, closing, placing, terminalErr, content>>,
           run # "running" => UNCHANGED <<producer, toStore, known>>,
           toStore' \subseteq toStore,
           \A u \in Urls : /\ candidate[u] \in {"none", "pending", "event_removed"} =>
                                candidate'[u] \in {"none", "pending", "event_removed"}
                           /\ candidate[u] \in Terminal => candidate'[u] \in Terminal
                           /\ owned[u] = "none" => candidate'[u] = candidate[u] \/ run # "running"
    PROVE  PipelineInv'
  <1>1. \A u \in Urls : Active(u)' <=> Active(u)
    BY DEF Active, Placed
  <1>2. MemoryNeedsRun'
    BY DEF PipelineInv, MemoryNeedsRun, Forgotten
  <1>3. OneDuty' /\ PlacesOneMedia' /\ Claimed'
    BY DEF PipelineInv, OneDuty, Placed, PlacesOneMedia, Claimed
  <1>4. DutiesAreOwned' /\ OwnedHaveDuties'
    <2>1. DutiesAreOwned /\ OwnedHaveDuties
      BY DEF PipelineInv
    <2> QED BY <1>1, <2>1 DEF DutiesAreOwned, OwnedHaveDuties
  <1>5. TerminalIsStored'
    BY DEF PipelineInv, TerminalIsStored
  <1>6. StoredIsOwned'
    BY DEF PipelineInv, StoredIsOwned
  <1> QED BY <1>2, <1>3, <1>4, <1>5, <1>6 DEF PipelineInv

(* StoreCandidate writes the row of a post the run owns.                   *)
LEMMA StoreKeepsDuties ==
    ASSUME TypeOK, PipelineInv, UNCHANGED content, NEW u \in Urls, NEW outcome \in Outcomes,
           StoreCandidate(u, outcome)
    PROVE  PipelineInv'
  <1>1. /\ run = "running" /\ u \in toStore /\ toStore' \subseteq toStore
        /\ UNCHANGED <<run, owned, stage, closing, placing, terminalErr>>
        /\ candidate' = candidate \/ candidate' = [candidate EXCEPT ![u] = Observed(u)]
    BY DEF StoreCandidate, pipeline
  <1>2. owned[u] # "none"
    BY <1>1 DEF PipelineInv, StoredIsOwned
  <1>3. /\ candidate[u] \in {"none", "pending", "event_removed"} => Observed(u) \in {"pending", "event_removed"}
        /\ candidate[u] \in Terminal => Observed(u) \in Terminal
    BY DEF Observed, Terminal, Credited
  <1>4. \A v \in Urls : /\ candidate[v] \in {"none", "pending", "event_removed"} =>
                                candidate'[v] \in {"none", "pending", "event_removed"}
                        /\ candidate[v] \in Terminal => candidate'[v] \in Terminal
                        /\ owned[v] = "none" => candidate'[v] = candidate[v]
    BY <1>1, <1>2, <1>3 DEF TypeOK
  <1> QED BY <1>1, <1>4, RowsKeepDuties

(* The removal closes the pending rows and leaves the run alone.           *)
LEMMA RemoveKeepsDuties ==
    ASSUME TypeOK, PipelineInv, UNCHANGED content, RemoveEvent
    PROVE  PipelineInv'
  <1>1. /\ UNCHANGED <<run, owned, stage, closing, placing, terminalErr, producer, toStore, known>>
        /\ \A u \in Urls : candidate'[u] = IF candidate[u] = "pending" THEN "event_removed" ELSE candidate[u]
    BY DEF RemoveEvent, search, pipeline
  <1>2. \A u \in Urls : run = "running" /\ owned[u] = "none" => candidate[u] = "none"
    BY DEF PipelineInv, StoredIsOwned
  <1>3. \A v \in Urls : /\ candidate[v] \in {"none", "pending", "event_removed"} =>
                                candidate'[v] \in {"none", "pending", "event_removed"}
                        /\ candidate[v] \in Terminal => candidate'[v] \in Terminal
                        /\ owned[v] = "none" => candidate'[v] = candidate[v] \/ run # "running"
    BY <1>1, <1>2 DEF Terminal, Credited
  <1> QED BY <1>1, <1>3, RowsKeepDuties

(* recordOutcome ends the duty of a post: its verdict is in its row, or    *)
(* the run keeps the error.                                                *)
LEMMA UpsertKeepsDuties ==
    ASSUME TypeOK, PipelineInv, UNCHANGED content, NEW u \in Urls, NEW outcome \in Outcomes,
           UpsertCandidateOutcome(u, outcome)
    PROVE  PipelineInv'
  <1> USE DEF TypeOK
  <1>1. /\ closing[u] # "none" /\ UNCHANGED <<run, toStore, stage, placing>>
        /\ closing'[u] = "none" /\ \A v \in Urls \ {u} : closing'[v] = closing[v]
        /\ candidate' = candidate \/ candidate' = [candidate EXCEPT ![u] = Complete(u, closing[u])]
        /\ outcome = "ok" => candidate' = [candidate EXCEPT ![u] = Complete(u, closing[u])]
        /\ owned' = IF outcome = "ok" THEN [owned EXCEPT ![u] = "terminal"] ELSE owned
        /\ terminalErr' = (terminalErr \/ outcome # "ok")
    BY DEF UpsertCandidateOutcome, search
  <1>2. placing = None /\ stage[u] = "off" /\ owned[u] = "in_flight" /\ run = "running"
        /\ candidate[u] \in {"none", "pending", "event_removed"}
    <2>1. Active(u)
      BY <1>1 DEF Active
    <2> QED BY <1>1, <2>1 DEF PipelineInv, OneDuty, DutiesAreOwned, MemoryNeedsRun, Forgotten
  <1>3. Complete(u, closing[u]) \in Terminal
    BY <1>1, <1>2 DEF Complete, Observed, Terminal
  <1>4. /\ \A v \in Urls \ {u} : candidate'[v] = candidate[v] /\ owned'[v] = owned[v]
        /\ outcome = "ok" => owned'[u] = "terminal" /\ candidate'[u] \in Terminal
        /\ outcome # "ok" => owned'[u] = "in_flight" /\ terminalErr'
    BY <1>1, <1>2, <1>3
  <1>5. ~Active(u)' /\ \A v \in Urls \ {u} : Active(v)' <=> Active(v)
    BY <1>1, <1>2 DEF Active, Placed
  <1>6. OneDuty' /\ PlacesOneMedia' /\ Claimed'
    BY <1>1, <1>2 DEF PipelineInv, OneDuty, Placed, PlacesOneMedia, Claimed
  <1>7. MemoryNeedsRun'
    BY <1>1, <1>2 DEF MemoryNeedsRun
  <1>8. DutiesAreOwned'
    BY <1>4, <1>5 DEF PipelineInv, DutiesAreOwned
  <1>9. OwnedHaveDuties'
    <2>1. OwnedHaveDuties /\ (terminalErr => terminalErr')
      BY <1>1 DEF PipelineInv
    <2> SUFFICES ASSUME NEW v \in Urls, owned'[v] = "in_flight" PROVE Active(v)' \/ terminalErr'
      BY DEF OwnedHaveDuties
    <2>2. CASE v = u
      BY <1>4, <2>2
    <2>3. CASE v # u
      BY <1>4, <1>5, <2>1, <2>3 DEF OwnedHaveDuties
    <2> QED BY <2>2, <2>3
  <1>10. TerminalIsStored'
    BY <1>4 DEF PipelineInv, TerminalIsStored
  <1>11. StoredIsOwned'
    BY <1>1, <1>4 DEF PipelineInv, StoredIsOwned
  <1> QED BY <1>6, <1>7, <1>8, <1>9, <1>10, <1>11 DEF PipelineInv

(* CommitClipPlacement ends the duties of the clip and its followers: they *)
(* are credited or closed, or the run keeps the error.                     *)
LEMMA CommitKeepsDuties ==
    ASSUME TypeOK, PipelineInv, UNCHANGED content, NEW outcome \in Outcomes, CommitClipPlacement(outcome)
    PROVE  PipelineInv'
  <1> USE DEF TypeOK
  <1> DEFINE S == Sources(placing)
  <1>1. /\ placing # None /\ placing' = None /\ UNCHANGED <<run, toStore, stage, closing>>
        /\ terminalErr' <=> terminalErr \/ outcome # "ok"
        /\ \A u \in Urls : owned'[u] = IF outcome = "ok" /\ u \in S THEN "terminal" ELSE owned[u]
    BY DEF CommitClipPlacement, search
  <1>2. run = "running" /\ S \subseteq Urls
    BY <1>1 DEF PipelineInv, MemoryNeedsRun, Forgotten, Sources, Placements
  <1>3. \A u \in S : Active(u) /\ owned[u] = "in_flight" /\ stage[u] = "off" /\ closing[u] = "none"
                     /\ candidate[u] \in {"none", "pending", "event_removed"}
    BY <1>1, <1>2 DEF PipelineInv, DutiesAreOwned, OneDuty, Active, Placed
  <1>4. /\ \A u \in Urls \ S : \/ candidate'[u] = candidate[u]
                               \/ candidate[u] = "promoted" /\ candidate'[u] = "superseded"
        /\ outcome = "ok" => \A u \in S : candidate'[u] \in Terminal
    <2>1. CASE UNCHANGED candidate /\ outcome # "ok"
      BY <2>1
    <2>2. CASE removed /\ RejectRemoved(placing)
      BY <1>2, <1>3, <2>2 DEF RejectRemoved, Observed, Terminal
    <2>3. ASSUME CommitPlacement(placing)
          PROVE  /\ \A u \in Urls \ S : \/ candidate'[u] = candidate[u]
                                        \/ candidate[u] = "promoted" /\ candidate'[u] = "superseded"
                 /\ \A u \in S : candidate'[u] \in Terminal
      <3>1. candidate' = PlacementOutcomes(placing)
        BY <2>3 DEF CommitPlacement
      <3>2. placing.url \in S
        BY DEF Sources
      <3> QED BY <1>2, <3>1, <3>2 DEF PlacementOutcomes, Terminal, Credited
    <2> QED BY <2>1, <2>2, <2>3 DEF CommitClipPlacement, Outcomes
  <1>5. \A u \in Urls : Active(u)' <=> Active(u) /\ u \notin S
    BY <1>1, <1>3 DEF Active, Placed
  <1> HIDE DEF S
  <1>6. OneDuty' /\ PlacesOneMedia' /\ Claimed'
    BY <1>1 DEF PipelineInv, OneDuty, Placed, PlacesOneMedia, Claimed
  <1>7. MemoryNeedsRun'
    BY <1>1, <1>2 DEF MemoryNeedsRun
  <1>8. DutiesAreOwned'
    BY <1>1, <1>4, <1>5 DEF PipelineInv, DutiesAreOwned
  <1>9. OwnedHaveDuties'
    <2>1. OwnedHaveDuties
      BY DEF PipelineInv
    <2> SUFFICES ASSUME NEW u \in Urls, owned'[u] = "in_flight", ~terminalErr' PROVE Active(u)'
      BY DEF OwnedHaveDuties
    <2> QED BY <1>1, <1>5, <2>1 DEF OwnedHaveDuties
  <1>10. TerminalIsStored'
    BY <1>1, <1>3, <1>4 DEF PipelineInv, TerminalIsStored, Terminal, Credited
  <1>11. StoredIsOwned'
    BY <1>1, <1>2, <1>3, <1>4 DEF PipelineInv, StoredIsOwned
  <1> QED BY <1>6, <1>7, <1>8, <1>9, <1>10, <1>11 DEF PipelineInv

(* Every step keeps the invariant of the pipeline.                         *)
LEMMA StepKeepsDuties ==
    ASSUME TypeOK, PipelineInv, [Next]_vars
    PROVE  PipelineInv'
  <1>f. Forget => Forgotten'
    BY DEF Forget, Forgotten
  <1>1. CASE UNCHANGED vars
    <2>1. UNCHANGED <<run, owned, stage, closing, placing, terminalErr, content, producer, toStore, known, candidate>>
      BY <1>1 DEF vars
    <2> QED BY <2>1, RowsKeepDuties
  <1>2. CASE SpawnEvent \/ SpawnLate \/ \E outcome \in Outcomes : FinalizeEvent(outcome)
    <2>1. /\ run # "running" /\ run' # "running"
          /\ UNCHANGED <<producer, toStore, owned, stage, known, closing, placing, terminalErr>>
      BY <1>2 DEF SpawnEvent, SpawnLate, FinalizeEvent, search, pipeline
    <2>2. Forgotten'
      BY <2>1 DEF PipelineInv, MemoryNeedsRun, Forgotten
    <2> QED BY <2>1, <2>2, ForgottenKeepsDuties
  <1>3. CASE FinishRun \/ StopRun \/ \E late \in SUBSET Urls : CancelRun(late)
    <2>1. Forget /\ run' # "running"
      BY <1>3 DEF FinishRun, StopRun, CancelRun, RunOutcome
    <2> QED BY <1>f, <2>1, ForgottenKeepsDuties
  <1>4. CASE (SearchUnavailable \/ \E outcome \in Outcomes : RecordProgress(outcome)) /\ UNCHANGED content
    <2>1. /\ run = "running" /\ UNCHANGED <<candidate, run, toStore, content>>
          /\ UNCHANGED <<owned, stage, known, closing, placing, terminalErr>>
      BY <1>4 DEF SearchUnavailable, RecordProgress, pipeline, durable
    <2> QED BY <2>1, RowsKeepDuties
  <1>5. CASE Work
    <2>1. UNCHANGED content
      BY <1>5 DEF Work
    <2>2. CASE Produce
      BY <1>4, <2>1, <2>2, SearchKeepsDuties, StoreKeepsDuties DEF Produce
    <2>3. CASE Consume
      BY <2>1, <2>3, DownloadKeepsDuties, HashKeepsDuties, VisionKeepsDuties, UpsertKeepsDuties, CommitKeepsDuties
         DEF Consume
    <2> QED BY <1>2, <1>3, <1>5, <2>2, <2>3, RestoreKeepsDuties DEF Work, Finish
  <1>6. CASE Disturb
    BY <1>2, <1>3, <1>6, RemoveKeepsDuties DEF Disturb
  <1> QED BY <1>1, <1>5, <1>6 DEF Next

-----------------------------------------------------------------------------
(* The search budget and the rows. *)

(* A run searches exactly when the recorded budget is not used up, and a   *)
(* search that is recorded moves the record to where the producer is.      *)
LEMMA StepFollowsRecord ==
    ASSUME TypeOK, SearchFollowsRecord, [Next]_vars
    PROVE  SearchFollowsRecord'
  <1> USE DEF TypeOK
  <1>p. /\ progress.attempts \in 0..MaxAttempts /\ progress.unavailable \in 0..MaxUnavailable
        /\ producer.pc \in {"off", "search", "store", "usable", "unavailable", "done"}
        /\ producer.attempt \in 1..MaxAttempts + 1 /\ producer.unavailable \in 0..MaxUnavailable
        /\ producer.failed \in BOOLEAN /\ MaxAttempts \in Nat /\ MaxUnavailable \in Nat
    BY DiscoveryAssumption DEF Progress, Producer
  <1>s. \A done \in 0..MaxAttempts, unavailable \in 0..MaxUnavailable :
            Searching(done + 1, unavailable) =
               IF done = MaxAttempts \/ unavailable = MaxUnavailable THEN "done" ELSE "search"
    BY <1>p DEF Searching
  <1>1. CASE run' # "running" \/ UNCHANGED <<run, producer, progress>>
    BY <1>1 DEF SearchFollowsRecord, Spent
  <1>2. ASSUME NEW outcome \in Outcomes, Restore(outcome)
        PROVE  SearchFollowsRecord'
    <2>1. CASE outcome = "failed"
      BY <1>2, <2>1 DEF Restore, SearchFollowsRecord
    <2>2. CASE outcome # "failed"
      <3>1. /\ producer' = [pc |-> Searching(progress.attempts + 1, progress.unavailable),
                            attempt |-> progress.attempts + 1,
                            unavailable |-> progress.unavailable, failed |-> FALSE]
            /\ UNCHANGED progress
        BY <1>2, <2>2 DEF Restore, durable
      <3>2. /\ producer'.attempt = progress.attempts + 1 /\ producer'.unavailable = progress.unavailable
            /\ producer'.pc = Searching(progress.attempts + 1, progress.unavailable)
        BY <3>1
      <3>3. producer'.pc = IF Spent THEN "done" ELSE "search"
        BY <1>p, <1>s, <3>2 DEF Spent
      <3> QED BY <3>1, <3>2, <3>3 DEF SearchFollowsRecord, Spent
    <2> QED BY <2>1, <2>2
  <1>3. ASSUME NEW found \in SUBSET Urls, SearchTweets(found)
        PROVE  SearchFollowsRecord'
    <2>1. /\ producer.pc = "search" /\ producer'.pc \in {"usable", "store"} /\ UNCHANGED <<progress, run>>
          /\ producer'.attempt = producer.attempt /\ producer'.unavailable = producer.unavailable
      BY <1>3 DEF SearchTweets, durable, Producer
    <2> QED BY <2>1 DEF SearchFollowsRecord, Spent
  <1>4. CASE SearchUnavailable
    <2>1. /\ producer.pc = "search" /\ producer'.pc = "unavailable" /\ UNCHANGED <<progress, run>>
          /\ producer'.attempt = producer.attempt /\ producer'.unavailable = producer.unavailable + 1
      BY <1>4 DEF SearchUnavailable, durable, Producer
    <2> QED BY <2>1 DEF SearchFollowsRecord, Spent
  <1>5. ASSUME NEW u \in Urls, NEW outcome \in Outcomes, StoreCandidate(u, outcome)
        PROVE  SearchFollowsRecord'
    <2>1. /\ producer.pc = "store" /\ UNCHANGED <<progress, run>>
          /\ producer'.attempt = producer.attempt /\ producer'.unavailable = producer.unavailable
          /\ producer'.pc \in {"store", "usable", "done"}
          /\ producer'.pc = "done" => producer'.failed
      BY <1>5 DEF StoreCandidate, Producer
    <2> QED BY <2>1 DEF SearchFollowsRecord, Spent
  <1>6. ASSUME NEW outcome \in Outcomes, RecordProgress(outcome)
        PROVE  SearchFollowsRecord'
    <2> DEFINE done == IF producer.pc = "usable" THEN producer.attempt ELSE producer.attempt - 1
    <2>1. run = "running" /\ producer.pc \in {"usable", "unavailable"} /\ run' = run
      BY <1>6 DEF RecordProgress
    <2>2. CASE outcome = "ok"
      <3>1. /\ progress'.attempts = AtLeast(progress.attempts, done)
            /\ progress'.unavailable = AtLeast(progress.unavailable, producer.unavailable)
        BY <1>6, <2>2 DEF RecordProgress
      <3>2. /\ producer'.attempt = done + 1 /\ producer'.pc = Searching(done + 1, producer.unavailable)
            /\ producer'.unavailable = producer.unavailable
        BY <1>6, <2>2 DEF RecordProgress, Producer
      <3>3. done = progress'.attempts /\ producer.unavailable = progress'.unavailable
            /\ done \in 0..MaxAttempts
        BY <1>p, <2>1, <3>1, SMTT(30) DEF SearchFollowsRecord, Spent, AtLeast
      <3> HIDE DEF done
      <3>4. producer'.pc = IF done = MaxAttempts \/ producer.unavailable = MaxUnavailable THEN "done" ELSE "search"
        BY <1>p, <1>s, <3>2, <3>3
      <3> QED BY <3>2, <3>3, <3>4 DEF SearchFollowsRecord, Spent
    <2>3. CASE outcome # "ok"
      <3>1. producer'.pc = "done" /\ producer'.failed
        BY <1>6, <2>3 DEF RecordProgress, Producer
      <3> QED BY <3>1 DEF SearchFollowsRecord
    <2> QED BY <2>2, <2>3
  <1>7. \/ run' # "running" \/ UNCHANGED <<run, producer, progress>>
        \/ \E outcome \in Outcomes : Restore(outcome)
        \/ Produce
    BY DEF Next, vars, Work, Disturb, SpawnEvent, SpawnLate, Consume, OnDownloadDone, OnHashDone, OnVisionDone,
           UpsertCandidateOutcome, CommitClipPlacement, Finish, FinishRun, RunOutcome, FinalizeEvent, StopRun,
           RemoveEvent, CancelRun, durable, search, pipeline
  <1> QED BY <1>1, <1>2, <1>3, <1>4, <1>5, <1>6, <1>7 DEF Produce

(* What a step may do to the rows: a post becomes pending only when a      *)
(* search stores it, the progress moves only when a search is recorded,    *)
(* and the checklist row is closed once.                                   *)
LEMMA RowEffects ==
    ASSUME TypeOK, PipelineInv, RowsSettle, [Next]_vars
    PROVE  /\ \A u \in Urls : candidate'[u] = "pending" =>
                 ~removed' /\ (candidate[u] = "pending" \/ (run = "running" /\ producer.pc = "store"))
           /\ progress' = progress \/ (run = "running" /\ producer.pc \in {"usable", "unavailable"})
           /\ \/ checklist' = checklist
              \/ checklist = "open" /\ checklist' = "event_removed" /\ removed'
              \/ /\ checklist = "open" /\ checklist' = "done" /\ run = "finalizing"
                 /\ UNCHANGED <<candidate, progress>>
           /\ removed => removed'
           /\ run' = "finalizing" => run = "finalizing" \/ FinishRun
  <1> USE DEF TypeOK
  <1>r. removed => \A u \in Urls : candidate[u] # "pending"
    BY DEF RowsSettle, NonePending
  <1>o. \A u \in Urls : removed => Observed(u) # "pending"
    BY DEF Observed
  <1>1. CASE UNCHANGED <<removed, checklist, progress, candidate>> /\ (run' = "finalizing" => run = "finalizing" \/ FinishRun)
    BY <1>1, <1>r
  <1>2. ASSUME NEW u \in Urls, NEW outcome \in Outcomes, StoreCandidate(u, outcome)
        PROVE  /\ \A v \in Urls : candidate'[v] = "pending" =>
                     ~removed' /\ (candidate[v] = "pending" \/ (run = "running" /\ producer.pc = "store"))
               /\ UNCHANGED <<progress, checklist, removed, run>>
    BY <1>2, <1>r, <1>o DEF StoreCandidate
  <1>3. ASSUME NEW outcome \in Outcomes, RecordProgress(outcome)
        PROVE  /\ UNCHANGED <<candidate, checklist, removed, run>>
               /\ run = "running" /\ producer.pc \in {"usable", "unavailable"}
    BY <1>3 DEF RecordProgress
  <1>4. ASSUME NEW u \in Urls, NEW outcome \in Outcomes, UpsertCandidateOutcome(u, outcome)
        PROVE  /\ \A v \in Urls : candidate'[v] = "pending" => ~removed' /\ candidate[v] = "pending"
               /\ UNCHANGED <<progress, checklist, removed, run>>
    <2>1. closing[u] \in {"rejected", "failed"}
      BY <1>4 DEF UpsertCandidateOutcome
    <2>2. Complete(u, closing[u]) # "pending"
      BY <1>o, <2>1 DEF Complete
    <2>3. /\ candidate' = candidate \/ candidate' = [candidate EXCEPT ![u] = Complete(u, closing[u])]
          /\ UNCHANGED <<progress, checklist, removed, run>>
      BY <1>4 DEF UpsertCandidateOutcome
    <2> QED BY <1>r, <2>2, <2>3
  <1>5. ASSUME NEW outcome \in Outcomes, CommitClipPlacement(outcome)
        PROVE  /\ \A v \in Urls : candidate'[v] = "pending" => ~removed' /\ candidate[v] = "pending"
               /\ UNCHANGED <<progress, checklist, removed, run>>
    <2>1. UNCHANGED <<progress, checklist, removed, run>>
      BY <1>5 DEF CommitClipPlacement
    <2>2. CASE UNCHANGED candidate
      BY <1>r, <2>1, <2>2
    <2>3. CASE removed /\ RejectRemoved(placing)
      BY <1>r, <1>o, <2>1, <2>3 DEF RejectRemoved
    <2>4. CASE ~removed /\ candidate' = PlacementOutcomes(placing)
      BY <2>1, <2>4 DEF PlacementOutcomes
    <2> QED BY <1>5, <2>1, <2>2, <2>3, <2>4 DEF CommitClipPlacement, CommitPlacement
  <1>6. ASSUME NEW outcome \in Outcomes, FinalizeEvent(outcome)
        PROVE  /\ UNCHANGED <<candidate, progress, removed>> /\ run' # "finalizing"
               /\ checklist' = checklist \/ (checklist = "open" /\ checklist' = "done" /\ run = "finalizing")
    BY <1>6 DEF FinalizeEvent, CompleteDownstreamWorkflow
  <1>7. CASE RemoveEvent
    <2>1. /\ removed' /\ UNCHANGED <<progress, run>>
          /\ checklist' = IF checklist = "open" THEN "event_removed" ELSE checklist
          /\ \A u \in Urls : candidate'[u] # "pending"
      BY <1>7 DEF RemoveEvent
    <2> QED BY <2>1
  <1>8. ASSUME NEW late \in SUBSET Urls, CancelRun(late)
        PROVE  /\ UNCHANGED <<checklist, progress, removed>> /\ run' = "failed"
               /\ \A u \in Urls : candidate'[u] # "pending"
    BY <1>8, <1>r, <1>o DEF CancelRun
  <1>9. \/ UNCHANGED <<removed, checklist, progress, candidate>> /\ (run' = "finalizing" => run = "finalizing" \/ FinishRun)
        \/ \E u \in Urls, outcome \in Outcomes : StoreCandidate(u, outcome)
        \/ \E outcome \in Outcomes : RecordProgress(outcome)
        \/ \E u \in Urls, outcome \in Outcomes : UpsertCandidateOutcome(u, outcome)
        \/ \E outcome \in Outcomes : CommitClipPlacement(outcome)
        \/ \E outcome \in Outcomes : FinalizeEvent(outcome)
        \/ RemoveEvent
        \/ \E late \in SUBSET Urls : CancelRun(late)
    BY ZenonT(40) DEF Next, vars, Work, Disturb, SpawnEvent, SpawnLate, Restore, Produce, SearchTweets, SearchUnavailable,
           Consume, OnDownloadDone, OnHashDone, OnVisionDone, Finish, FinishRun, StopRun, durable
  <1> QED BY <1>r, <1>1, <1>2, <1>3, <1>4, <1>5, <1>6, <1>7, <1>8, <1>9

(* A run that goes on to close the checklist row has settled every post    *)
(* and used up the search budget (run and finalizeEvent,                   *)
(* workflow/event.go).                                                     *)
LEMMA FinishSettles ==
    ASSUME TypeOK, PipelineInv, SearchFollowsRecord, FinishRun, run' = "finalizing"
    PROVE  NonePending' /\ Spent'
  <1>1. /\ run = "running" /\ producer.pc = "done" /\ ~producer.failed /\ UNCHANGED <<candidate, progress>>
        /\ \A u \in Urls : owned[u] # "in_flight"
    BY DEF FinishRun, RunOutcome, Quiescent, durable
  <1>2. \A u \in Urls : owned[u] = "none" \/ owned[u] = "terminal"
    BY <1>1 DEF TypeOK
  <1>3. \A u \in Urls : candidate[u] # "pending"
    BY <1>1, <1>2 DEF PipelineInv, StoredIsOwned, TerminalIsStored, Terminal, Credited
  <1>4. Spent
    BY <1>1 DEF SearchFollowsRecord
  <1> QED BY <1>1, <1>3, <1>4 DEF NonePending, Spent

(* Rows stay settled: after a removal, while a run closes the checklist    *)
(* row, and after it is closed.                                            *)
LEMMA StepSettles ==
    ASSUME TypeOK, PipelineInv, SearchFollowsRecord, RowsSettle, DoneIsSettled, [Next]_vars
    PROVE  RowsSettle' /\ DoneIsSettled'
  <1>q. NonePending /\ Spent /\ run # "running" => NonePending' /\ Spent'
    BY RowEffects DEF NonePending, Spent
  <1>s. NonePending /\ Spent => NonePending' /\ Spent'
    <2>1. Spent /\ run = "running" => producer.pc = "done"
      BY DEF SearchFollowsRecord
    <2> QED BY <2>1, RowEffects DEF NonePending, Spent
  <1>1. run' = "finalizing" => NonePending' /\ Spent'
    BY <1>s, RowEffects, FinishSettles DEF RowsSettle
  <1>2. removed' => NonePending'
    BY RowEffects DEF NonePending
  <1>3. checklist' = "event_removed" => removed'
    BY RowEffects DEF RowsSettle
  <1>4. checklist' = "done" => NonePending' /\ Spent'
    <2>1. CASE checklist = "done"
      BY <1>s, <2>1 DEF DoneIsSettled, NonePending, Spent
    <2>2. CASE run = "finalizing"
      BY <1>s, <2>2 DEF RowsSettle
    <2> QED BY <2>1, <2>2, RowEffects
  <1> QED BY <1>1, <1>2, <1>3, <1>4 DEF RowsSettle, DoneIsSettled, NonePending, Spent

-----------------------------------------------------------------------------
(* The public clips and their credits. *)

(* PlanSelection (domain/video/selection.go:121-187), for every ownership  *)
(* whose roots are live: the plan knows the same clips, every one of them  *)
(* is under a public clip, and under one that shows it unless its own      *)
(* object is gone.                                                         *)
THEOREM PlanShowsEveryClip ==
    ASSUME NEW own \in Owners, NEW seen, NEW ready \in SUBSET Media, NEW plan \in Owners,
           \A k \in Known(own) : own[k] \in Media /\ Root(own, k) \in Live(own),
           plan \in PlanSelection(own, seen, ready)
    PROVE  /\ Known(plan) = Known(own)
           /\ \A k \in Known(plan) : /\ plan[k] \in Live(plan)
                                     /\ k \in ready => <<k, plan[k]>> \in Match
  <1>n. None \notin Media /\ \A k \in Media : <<k, k>> \in Match
    BY SelectionAssumption
  <1>1. PICK selected \in SUBSET Known(own) :
            \A k \in Media : plan[k] \in IF own[k] = None THEN {None} ELSE Keepers(own, selected, ready, k)
    BY DEF PlanSelection, PublicSets
  <1>2. Live(own) \subseteq ready
    BY DEF PlanSelection
  <1>3. \A k \in Media : k \in Known(own) <=> own[k] # None
    BY Zenon DEF Known
  <1>k. Known(own) \subseteq Media
    BY DEF Known
  <1>4. \A k \in Known(own) : plan[k] \in Keepers(own, selected, ready, k)
    <2> TAKE k \in Known(own)
    <2>1. k \in Media /\ own[k] # None
      BY <1>3, <1>k
    <2> QED BY <1>1, <2>1
  <1>5. \A k \in Live(own) : k \in Known(own) /\ k \in Media /\ Root(own, k) = k /\ k \in ready
    <2> TAKE k \in Live(own)
    <2>1. k \in Media /\ own[k] = k
      BY Zenon DEF Live
    <2> QED BY <1>n, <1>2, <1>3, <2>1 DEF Root
  <1>6. \A k \in selected : plan[k] = k
    BY <1>4 DEF Keepers
  <1>7. \A k \in Live(own) : plan[k] = k
    <2> SUFFICES ASSUME NEW k \in Live(own), k \notin selected PROVE plan[k] = k
      BY <1>6
    <2>1. Keepers(own, selected, ready, k) = {k}
      BY <1>n, <1>5 DEF Keepers
    <2> QED BY <1>4, <1>5, <2>1
  <1>8. ASSUME NEW k \in Known(own)
        PROVE  /\ plan[k] \in Media /\ plan[plan[k]] = plan[k]
               /\ k \in ready => <<k, plan[k]>> \in Match
    <2>0. k \in Media /\ Root(own, k) \in Live(own)
      BY DEF Known
    <2>1. CASE k \in selected
      BY <1>n, <1>6, <2>0, <2>1
    <2>2. CASE k \notin selected /\ (k \notin ready \/ <<k, Root(own, k)>> \in Match)
      <3>1. plan[k] = Root(own, k)
        BY <1>4, <2>2 DEF Keepers
      <3> QED BY <1>5, <1>7, <2>0, <2>2, <3>1
    <2>3. CASE k \notin selected /\ k \in ready /\ <<k, Root(own, k)>> \notin Match
      <3>1. plan[k] \in Best({j \in selected : <<k, j>> \in Match})
        BY <1>4, <2>3 DEF Keepers
      <3>2. plan[k] \in selected /\ <<k, plan[k]>> \in Match
        BY <3>1 DEF Best
      <3> QED BY <1>6, <3>2 DEF Known
    <2> QED BY <2>1, <2>2, <2>3
  <1>9. \A k \in Media : k \in Known(plan) <=> k \in Known(own)
    <2> SUFFICES ASSUME NEW k \in Media PROVE k \in Known(plan) <=> k \in Known(own)
      BY Zenon
    <2>1. k \in Known(plan) <=> plan[k] # None
      BY Zenon DEF Known
    <2>2. own[k] = None => plan[k] = None
      BY <1>1
    <2>3. k \in Known(own) => plan[k] # None
      BY <1>n, <1>8
    <2> QED BY <1>3, <2>1, <2>2, <2>3
  <1>10. Known(plan) = Known(own)
    BY <1>9 DEF Known
  <1> QED BY <1>8, <1>10 DEF Live

(* What a placement that fits the rows makes of the recorded ownership,    *)
(* before the planner runs: the winner is live, the clip is under it, and  *)
(* every clip still has a live root, two steps away at most                *)
(* (applyClipPlacementTx).                                                 *)
LEMMA PlacementRoots ==
    ASSUME TypeOK, AcceptedIsShown, NEW p \in Placements, PlacementFits(p),
           p.new => p.winner = content[p.url] /\ p.hashed
    PROVE  /\ PlacementOwners(p) \in Owners
           /\ PlacementOwners(p)[p.winner] = p.winner
           /\ PlacementOwners(p)[content[p.url]] = p.winner
           /\ Known(PlacementOwners(p)) = Known(owner) \cup {content[p.url]}
           /\ \A k \in Known(PlacementOwners(p)) : /\ PlacementOwners(p)[k] \in Media
                                                   /\ Root(PlacementOwners(p), k) \in Live(PlacementOwners(p))
  <1> DEFINE m == content[p.url]
             w == p.winner
             own == PlacementOwners(p)
  <1>0. m \in Media /\ w \in Media /\ None \notin Media /\ owner \in Owners
    BY DiscoveryAssumption, SelectionAssumption DEF TypeOK, Placements
  <1>1. /\ \A k \in Media : own[k] = IF k \in p.losers \ {w} \/ (k = m /\ owner[k] = None) THEN w ELSE owner[k]
        /\ own \in Owners
    BY <1>0 DEF PlacementOwners, Owners
  <1>2. /\ IF p.new THEN owner[m] \in {None, m} ELSE owner[w] = w
        /\ ~p.new /\ p.hashed => owner[m] \in {None, w}
        /\ ~p.hashed => owner[m] = w
        /\ \A k \in p.losers \ {w} : owner[k] \in {k, w}
    BY DEF PlacementFits
  <1>b. p.new \in BOOLEAN /\ p.hashed \in BOOLEAN /\ p.losers \subseteq Media
    BY DEF Placements
  <1>w. p.new => w = m /\ p.hashed
    OBVIOUS
  <1>s. \A k \in Known(owner) : k \in Media /\ owner[k] \in Media /\ owner[owner[k]] = owner[k]
    BY DEF AcceptedIsShown, Known, Live
  <1> HIDE DEF m, w, own
  <1>3. own[w] = w
    BY <1>0, <1>1, <1>2, <1>b, <1>w
  <1>4. own[m] = w
    BY <1>0, <1>1, <1>2, <1>3, <1>b, <1>w
  <1>5. \A k \in Media : k \in Known(own) <=> k \in Known(owner) \/ k = m
    <2> SUFFICES ASSUME NEW k \in Media PROVE k \in Known(own) <=> k \in Known(owner) \/ k = m
      BY Zenon
    <2>1. (k \in Known(own) <=> own[k] # None) /\ (k \in Known(owner) <=> owner[k] # None)
      BY Zenon DEF Known
    <2>2. CASE k = m
      BY <1>0, <1>4, <2>1, <2>2
    <2>3. CASE k # m
      <3>1. own[k] = IF k \in p.losers \ {w} THEN w ELSE owner[k]
        <4>1. own[k] = IF k \in p.losers \ {w} \/ (k = m /\ owner[k] = None) THEN w ELSE owner[k]
          BY <1>1
        <4> QED BY <2>3, <4>1
      <3>2. k \in p.losers \ {w} => owner[k] \in Media
        BY <1>0, <1>2
      <3> QED BY <1>0, <2>1, <2>3, <3>1, <3>2
    <2> QED BY <2>2, <2>3
  <1>6. Known(own) = Known(owner) \cup {m}
    BY <1>0, <1>5 DEF Known
  <1>7. ASSUME NEW k \in Known(own)
        PROVE  own[k] \in Media /\ own[own[own[k]]] = own[own[k]] /\ own[own[k]] \in Media
    <2>1. CASE own[k] = w
      BY <1>0, <1>3, <2>1
    <2>2. CASE own[k] # w
      <3>1. k \in Known(owner) /\ own[k] = owner[k]
        BY <1>1, <1>4, <1>5, <2>2 DEF Known
      <3>2. owner[k] \in Media /\ owner[owner[k]] = owner[k] /\ owner[k] # None
        BY <1>0, <1>s, <3>1
      <3>3. own[owner[k]] = w \/ own[owner[k]] = owner[k]
        BY <1>1, <3>2
      <3> QED BY <1>0, <1>3, <3>1, <3>2, <3>3
    <2> QED BY <2>1, <2>2
  <1>8. \A k \in Known(own) : own[k] \in Media /\ Root(own, k) \in Live(own)
    BY <1>7 DEF Root, Live
  <1> QED BY <1>1, <1>3, <1>4, <1>6, <1>8 DEF m, w, own

(* After a placement every credit is complete, so the planner always runs: *)
(* validateCredits (domain/video/selection_graph.go:123-143) cannot refuse *)
(* it.                                                                     *)
LEMMA PlacementCreditsValid ==
    ASSUME TypeOK, AcceptedIsShown, CreditsComplete, NEW p \in Placements, PlacementFits(p),
           p.new => p.winner = content[p.url] /\ p.hashed,
           \A v \in p.followers : content[v] = content[p.url]
    PROVE  LET sources == {u \in Urls : PlacementOutcomes(p)[u] \in Credited}
           IN /\ sources = {u \in Urls : u \in Sources(p) \/ candidate[u] \in Credited}
              /\ CreditsValid(PlacementOwners(p), sources, content, PlacementCredits(p))
  <1> DEFINE m == content[p.url]
             w == p.winner
             own == PlacementOwners(p)
             sources == {u \in Urls : PlacementOutcomes(p)[u] \in Credited}
  <1>0. /\ m \in Media /\ w \in Media /\ None \notin Media /\ owner \in Owners
        /\ p.url \in Urls /\ p.followers \subseteq Urls /\ p.losers \subseteq Media
        /\ \A u \in Urls : content[u] \in Media
    BY DiscoveryAssumption, SelectionAssumption DEF TypeOK, Placements
  <1>r. own[w] = w /\ own[m] = w /\ Known(own) = Known(owner) \cup {m}
    BY PlacementRoots
  <1>o. \A k \in Media : own[k] = IF k \in p.losers \ {w} \/ (k = m /\ owner[k] = None) THEN w ELSE owner[k]
    BY DEF PlacementOwners
  <1>l. \A k \in p.losers \ {w} : owner[k] \in {k, w}
    BY DEF PlacementFits
  <1>s. \A u \in Sources(p) : u \in Urls /\ content[u] = m
    BY <1>0 DEF Sources
  <1>a. \A k \in Known(owner) : k \in Media /\ owner[k] \in Media /\ owner[owner[k]] = owner[k]
    BY DEF AcceptedIsShown, Known, Live
  <1>c. \A u \in Urls : candidate[u] \in Credited => content[u] \in Known(owner) /\ credit[u] = owner[content[u]]
    BY <1>0 DEF CreditsComplete, Known
  <1>1. sources = {u \in Urls : u \in Sources(p) \/ candidate[u] \in Credited}
    <2>1. \A u \in Urls : PlacementOutcomes(p)[u] \in Credited <=> u \in Sources(p) \/ candidate[u] \in Credited
      BY DEF PlacementOutcomes, Credited, Sources
    <2> QED BY <2>1
  <1>2. \A u \in Urls : PlacementCredits(p)[u] = IF u \in Sources(p) \/ credit[u] \in p.losers THEN w ELSE credit[u]
    BY DEF PlacementCredits
  <1> HIDE DEF m, w, own, sources
  <1>3. ASSUME NEW u \in Urls, u \in Sources(p) \/ candidate[u] \in Credited
        PROVE  PlacementCredits(p)[u] = own[own[content[u]]]
    <2>1. CASE u \in Sources(p)
      BY <1>2, <1>r, <1>s, <2>1
    <2>2. CASE u \notin Sources(p)
      <3> DEFINE c == content[u]
                 r == owner[c]
      <3>1. c \in Media /\ r \in Media /\ owner[r] = r /\ credit[u] = r /\ r # None
        BY <1>3, <1>0, <1>a, <1>c, <2>2
      <3> HIDE DEF c, r
      <3>2. owner[c] = r
        BY DEF r
      <3>3. CASE r \in p.losers
        <4>1. own[r] = w
          BY <1>o, <1>r, <3>1, <3>3
        <4>2. own[c] = w \/ own[c] = r
          BY <1>o, <3>1, <3>2
        <4> QED BY <1>2, <1>r, <2>2, <3>1, <3>3, <4>1, <4>2 DEF c
      <3>4. CASE r \notin p.losers
        <4>1. own[r] = r
          BY <1>o, <3>1, <3>4
        <4>2. own[c] = r
          BY <1>o, <1>l, <3>1, <3>2, <3>4
        <4> QED BY <1>2, <2>2, <3>1, <3>4, <4>1, <4>2 DEF c
      <3> QED BY <3>3, <3>4
    <2> QED BY <2>1, <2>2
  <1>4. \A k \in Known(own) : \E u \in sources : content[u] = k
    <2> SUFFICES ASSUME NEW k \in Known(own) PROVE \E u \in sources : content[u] = k
      OBVIOUS
    <2>1. CASE k = m
      BY <1>0, <1>1, <2>1 DEF Sources, m
    <2>2. CASE k \in Known(owner)
      BY <1>1, <2>2 DEF CreditsComplete
    <2> QED BY <1>r, <2>1, <2>2
  <1>5. CreditsValid(own, sources, content, PlacementCredits(p))
    BY <1>1, <1>3, <1>4 DEF CreditsValid, Root
  <1> QED BY <1>1, <1>5 DEF sources, own

(* A placement reaches the rows.                                           *)
CommitsPlacement ==
    /\ ~removed /\ placing # None /\ PlacementFits(placing)
    /\ CommitPlacement(placing)

(* What a step may do to the public clips: only the commit of a placement  *)
(* of an event that is not removed touches them, or gives a post credit.   *)
LEMMA OnlyPlacementsCredit ==
    ASSUME TypeOK, PipelineInv, [Next]_vars
    PROVE  /\ content' = content
           /\ \/ CommitsPlacement
              \/ /\ UNCHANGED <<owner, order, credit>>
                 /\ \A u \in Urls : candidate'[u] \in Credited <=> candidate[u] \in Credited
  <1> USE DEF TypeOK
  <1>c. content' = content
    BY DEF Next, Work, Disturb, vars
  <1>o. \A u \in Urls : Observed(u) \in Credited <=> candidate[u] \in Credited
    BY DEF Observed, Credited
  <1>1. ASSUME NEW u \in Urls, NEW outcome \in Outcomes, StoreCandidate(u, outcome)
        PROVE  /\ UNCHANGED <<owner, order, credit>>
               /\ \A v \in Urls : candidate'[v] \in Credited <=> candidate[v] \in Credited
    <2>1. /\ candidate' = candidate \/ candidate' = [candidate EXCEPT ![u] = Observed(u)]
          /\ UNCHANGED <<owner, order, credit>>
      BY <1>1 DEF StoreCandidate
    <2> QED BY <1>o, <2>1
  <1>2. ASSUME NEW u \in Urls, NEW outcome \in Outcomes, UpsertCandidateOutcome(u, outcome)
        PROVE  /\ UNCHANGED <<owner, order, credit>>
               /\ \A v \in Urls : candidate'[v] \in Credited <=> candidate[v] \in Credited
    <2>1. /\ candidate' = candidate \/ candidate' = [candidate EXCEPT ![u] = Complete(u, closing[u])]
          /\ UNCHANGED <<owner, order, credit>> /\ closing[u] \in {"rejected", "failed"}
      BY <1>2 DEF UpsertCandidateOutcome
    <2>2. candidate[u] \in {"none", "pending", "event_removed"}
      BY <2>1 DEF PipelineInv, DutiesAreOwned, Active
    <2>3. candidate[u] \notin Credited /\ Complete(u, closing[u]) \notin Credited
      BY <1>o, <2>1, <2>2 DEF Complete, Credited
    <2> QED BY <2>1, <2>3
  <1>3. ASSUME NEW outcome \in Outcomes, CommitClipPlacement(outcome)
        PROVE  \/ CommitsPlacement
               \/ /\ UNCHANGED <<owner, order, credit>>
                  /\ \A v \in Urls : candidate'[v] \in Credited <=> candidate[v] \in Credited
    <2>1. \/ UNCHANGED <<candidate, order, owner, credit>>
          \/ RejectRemoved(placing)
          \/ CommitsPlacement
      BY <1>3 DEF CommitClipPlacement, CommitsPlacement
    <2>2. CASE RejectRemoved(placing)
      BY <1>o, <2>2 DEF RejectRemoved
    <2> QED BY <2>1, <2>2
  <1>4. CASE RemoveEvent
    <2>1. UNCHANGED <<owner, order, credit>>
      BY <1>4 DEF RemoveEvent
    <2>2. \A u \in Urls : candidate'[u] = IF candidate[u] = "pending" THEN "event_removed" ELSE candidate[u]
      BY <1>4 DEF RemoveEvent
    <2> QED BY <2>1, <2>2, <1>c DEF Credited
  <1>5. ASSUME NEW late \in SUBSET Urls, CancelRun(late)
        PROVE  /\ UNCHANGED <<owner, order, credit>>
               /\ \A v \in Urls : candidate'[v] \in Credited <=> candidate[v] \in Credited
    BY <1>5, <1>o DEF CancelRun
  <1>6. \/ UNCHANGED <<owner, order, credit, candidate>>
        \/ \E u \in Urls, outcome \in Outcomes : StoreCandidate(u, outcome)
        \/ \E u \in Urls, outcome \in Outcomes : UpsertCandidateOutcome(u, outcome)
        \/ \E outcome \in Outcomes : CommitClipPlacement(outcome)
        \/ RemoveEvent
        \/ \E late \in SUBSET Urls : CancelRun(late)
    BY DEF Next, vars, Work, Disturb, SpawnEvent, SpawnLate, Restore, Produce, SearchTweets, SearchUnavailable,
           RecordProgress, Consume, OnDownloadDone, OnHashDone, OnVisionDone, Finish, FinishRun, FinalizeEvent,
           StopRun, durable
  <1> QED BY <1>1, <1>2, <1>3, <1>4, <1>5, <1>6, <1>c

(* Steps that leave the clips alone and credit no post keep the credits    *)
(* complete, the clips shown and the order of first sight.                 *)
LEMMA RowsKeepCredits ==
    ASSUME CreditsComplete, AcceptedIsShown, OrderListsKnown, UNCHANGED <<owner, order, credit, content>>,
           \A u \in Urls : candidate'[u] \in Credited <=> candidate[u] \in Credited
    PROVE  CreditsComplete' /\ AcceptedIsShown' /\ OrderListsKnown'
  <1>1. CreditsComplete'
    BY DEF CreditsComplete, Known
  <1>2. AcceptedIsShown'
    BY DEF AcceptedIsShown, Known, Live
  <1>3. OrderListsKnown'
    BY DEF OrderListsKnown, Known
  <1> QED BY <1>1, <1>2, <1>3

(* The commit of a placement (applyClipPlacementTx and PlanSelection)      *)
(* keeps every credit complete and every accepted clip shown, and lists a  *)
(* clip that is new at the end of the order.                               *)
LEMMA PlacementKeepsCredits ==
    ASSUME TypeOK, PipelineInv, CreditsComplete, AcceptedIsShown, OrderListsKnown, content' = content,
           CommitsPlacement
    PROVE  CreditsComplete' /\ AcceptedIsShown' /\ OrderListsKnown'
  <1> DEFINE p == placing
             m == content[p.url]
             own == PlacementOwners(p)
             credits == PlacementCredits(p)
             sources == {u \in Urls : PlacementOutcomes(p)[u] \in Credited}
  <1>p. /\ p \in Placements /\ PlacementFits(p) /\ (p.new => p.winner = m /\ p.hashed)
        /\ \A v \in p.followers : content[v] = m
    BY DEF TypeOK, CommitsPlacement, PipelineInv, PlacesOneMedia
  <1>0. /\ None \notin Media /\ m \in Media /\ owner \in Owners /\ order \in Seq(Media)
        /\ \A u \in Urls : content[u] \in Media
    BY <1>p, DiscoveryAssumption, SelectionAssumption DEF TypeOK, Placements
  <1>1. /\ own \in Owners /\ Known(own) = Known(owner) \cup {m}
        /\ \A k \in Known(own) : own[k] \in Media /\ Root(own, k) \in Live(own)
    BY <1>p, PlacementRoots
  <1>2. /\ sources = {u \in Urls : u \in Sources(p) \/ candidate[u] \in Credited}
        /\ CreditsValid(own, sources, content, credits)
    BY <1>p, PlacementCreditsValid
  <1>3. PICK plan \in Owners : CommitPlacement(p) /\ owner' = plan
    BY <1>p, PlacementTyped DEF CommitsPlacement
  <1>4. candidate' = PlacementOutcomes(p) /\ order' = PlacementOrder(p) /\ owner' = plan
    BY <1>3 DEF CommitPlacement
  <1>5. {u \in Urls : candidate'[u] \in Credited} = sources
    BY <1>4
  <1>6. /\ plan \in PlanSelection(own, order', Media)
        /\ credit' = [u \in Urls |-> IF u \in sources THEN plan[content[u]] ELSE credits[u]]
    BY <1>2, <1>3, <1>5 DEF CommitPlacement
  <1>7. /\ Known(plan) = Known(own)
        /\ \A k \in Known(plan) : plan[k] \in Live(plan) /\ (k \in Media => <<k, plan[k]>> \in Match)
    BY <1>1, <1>6, PlanShowsEveryClip
  <1> HIDE DEF p, m, own, credits, sources
  <1>k. \A k \in Media : (k \in Known(plan) <=> plan[k] # None) /\ (k \in Known(owner) <=> owner[k] # None)
    BY Zenon DEF Known
  <1>s. \A u \in Urls : candidate'[u] \in Credited <=> u \in sources
    BY Zenon, <1>5
  <1>8. AcceptedIsShown'
    <2>1. \A k \in Known(plan) : k \in Media
      BY DEF Known
    <2> QED BY <1>4, <1>7, <2>1 DEF AcceptedIsShown
  <1>9. CreditsComplete'
    <2>1. ASSUME NEW u \in sources
          PROVE  u \in Urls /\ plan[content[u]] # None /\ credit'[u] = plan[content[u]]
      <3>1. u \in Urls /\ (u \in Sources(p) \/ candidate[u] \in Credited)
        BY <1>2
      <3>2. content[u] = m \/ owner[content[u]] # None
        BY <1>p, <3>1 DEF CreditsComplete, Sources, m
      <3>3. content[u] \in Known(plan)
        BY <1>0, <1>1, <1>7, <1>k, <3>1, <3>2
      <3> QED BY <1>0, <1>6, <1>k, <3>1, <3>3
    <2>2. \A k \in Known(plan) : \E u \in sources : content[u] = k
      BY <1>2, <1>7 DEF CreditsValid
    <2> QED BY <1>s, <1>4, <2>1, <2>2 DEF CreditsComplete
  <1>10. OrderListsKnown'
    <2>1. \A k \in Media : k \in Known(plan) <=> k \in Known(owner) \/ k = m
      BY Zenon, <1>1, <1>7
    <2>o. /\ \A k \in Media : k \in Known(owner) <=> \E i \in DOMAIN order : order[i] = k
          /\ \A i, j \in DOMAIN order : order[i] = order[j] => i = j
      BY DEF OrderListsKnown
    <2>2. CASE owner[m] = None
      <3>1. order' = Append(order, m)
        BY <1>4, <2>2 DEF PlacementOrder, m
      <3>2. DOMAIN order = 1..Len(order) /\ Len(order) \in Nat /\ DOMAIN order' = 1..Len(order) + 1
        BY <1>0, <3>1
      <3>3. order'[Len(order) + 1] = m /\ \A i \in 1..Len(order) : order'[i] = order[i]
        BY <1>0, <3>1
      <3>4. \A i \in DOMAIN order : order[i] # m
        BY <1>0, <1>k, <2>2, <2>o
      <3>5. \A k \in Media : k \in Known(plan) <=> \E i \in DOMAIN order' : order'[i] = k
        <4> SUFFICES ASSUME NEW k \in Media
                     PROVE  k \in Known(plan) <=> \E i \in DOMAIN order' : order'[i] = k
          BY Zenon
        <4>1. ASSUME k \in Known(plan) PROVE \E i \in DOMAIN order' : order'[i] = k
          BY <2>1, <2>o, <3>2, <3>3, <4>1
        <4>2. ASSUME NEW i \in DOMAIN order', order'[i] = k PROVE k \in Known(plan)
          BY <2>1, <2>o, <3>2, <3>3, <4>2
        <4> QED BY <4>1, <4>2
      <3>6. \A i, j \in DOMAIN order' : order'[i] = order'[j] => i = j
        BY <2>o, <3>2, <3>3, <3>4
      <3> QED BY <1>4, <3>5, <3>6 DEF OrderListsKnown
    <2>3. CASE owner[m] # None
      <3>1. order' = order
        BY <1>4, <2>3 DEF PlacementOrder, m
      <3>2. \A k \in Media : k \in Known(plan) <=> k \in Known(owner)
        BY Zenon, <1>0, <1>k, <2>1, <2>3
      <3> QED BY <1>4, <2>o, <3>1, <3>2 DEF OrderListsKnown
    <2> QED BY <2>2, <2>3
  <1> QED BY <1>8, <1>9, <1>10

(* Every step keeps the credits complete, the clips shown and the order.   *)
LEMMA StepKeepsCredits ==
    ASSUME TypeOK, PipelineInv, CreditsComplete, AcceptedIsShown, OrderListsKnown, [Next]_vars
    PROVE  CreditsComplete' /\ AcceptedIsShown' /\ OrderListsKnown'
  BY OnlyPlacementsCredit, RowsKeepCredits, PlacementKeepsCredits

-----------------------------------------------------------------------------
(* The theorems. *)

(* No post has a duty, no row is pending and no clip is stored when the    *)
(* checklist row has just been registered.                                 *)
LEMMA InitDiscovery == Init => DiscoveryInv
  <1> SUFFICES ASSUME Init PROVE DiscoveryInv
    OBVIOUS
  <1>1. TypeOK
    BY InitTyped
  <1>2. /\ Forgotten /\ run = "none" /\ checklist = "open" /\ removed = FALSE /\ placing = None /\ toStore = {}
        /\ \A u \in Urls : /\ stage[u] = "off" /\ closing[u] = "none" /\ owned[u] = "none"
                           /\ candidate[u] = "none"
    BY DEF Init, Forgotten
  <1>3. PipelineInv
    BY <1>2 DEF PipelineInv, MemoryNeedsRun, OneDuty, Placed, Active, DutiesAreOwned, OwnedHaveDuties,
                TerminalIsStored, StoredIsOwned, Claimed, PlacesOneMedia
  <1>4. SearchFollowsRecord /\ RowsSettle /\ DoneIsSettled
    BY <1>2 DEF SearchFollowsRecord, RowsSettle, NonePending, DoneIsSettled
  <1>5. \A k \in Media : owner[k] = None
    BY DEF Init, Unknown
  <1>6. Known(owner) = {}
    BY <1>5 DEF Known
  <1>7. CreditsComplete /\ AcceptedIsShown
    BY <1>2, <1>6 DEF CreditsComplete, Credited, AcceptedIsShown
  <1>8. order = <<>>
    BY DEF Init
  <1>9. OrderListsKnown
    BY <1>6, <1>8 DEF OrderListsKnown
  <1> QED BY <1>1, <1>3, <1>4, <1>7, <1>9 DEF DiscoveryInv

(* One step of the discovery.                                              *)
LEMMA StepDiscovery == DiscoveryInv /\ [Next]_vars => DiscoveryInv'
  <1> SUFFICES ASSUME DiscoveryInv, [Next]_vars PROVE DiscoveryInv'
    OBVIOUS
  <1> USE DEF DiscoveryInv
  <1>1. TypeOK'
    BY StepTyped
  <1>2. PipelineInv'
    BY StepKeepsDuties
  <1>3. SearchFollowsRecord'
    BY StepFollowsRecord
  <1>4. RowsSettle' /\ DoneIsSettled'
    BY StepSettles
  <1>5. CreditsComplete' /\ AcceptedIsShown' /\ OrderListsKnown'
    BY StepKeepsCredits
  <1> QED BY <1>1, <1>2, <1>3, <1>4, <1>5

(* The inductive invariant of EventWorkflow and the rows it commits.       *)
THEOREM DiscoveryInvariance == Spec => []DiscoveryInv
  BY InitDiscovery, StepDiscovery, PTL DEF Spec

(* The variables keep their types: in particular the attempts and probes   *)
(* recorded never exceed their budgets, whatever is lost or restarted      *)
(* (RecordDiscoveryProgress).                                              *)
THEOREM DiscoveryTypes == Spec => []TypeOK
  <1>1. DiscoveryInv => TypeOK
    BY DEF DiscoveryInv
  <1> QED BY <1>1, DiscoveryInvariance, PTL

(* finalizeEvent closes the checklist row as done only when every post has *)
(* a terminal outcome and the search budget is used up.                    *)
THEOREM DoneRowsSettled == Spec => []DoneIsSettled
  <1>1. DiscoveryInv => DoneIsSettled
    BY DEF DiscoveryInv
  <1> QED BY <1>1, DiscoveryInvariance, PTL

(* PlanSelection in every placement transaction: an accepted clip is       *)
(* public, or a public clip that matches it shows it directly.             *)
THEOREM AcceptedClipsShown == Spec => []AcceptedIsShown
  <1>1. DiscoveryInv => AcceptedIsShown
    BY DEF DiscoveryInv
  <1> QED BY <1>1, DiscoveryInvariance, PTL

(* The candidate pipeline strands no post: when it has drained without a   *)
(* durability error, every post it took is terminal in memory and in its   *)
(* row, so that "ended in non-terminal state" (workflow/event.go) is never *)
(* reported for any other reason.                                          *)
THEOREM PipelineDrains == Spec => []NothingStranded
  <1>1. DiscoveryInv => NothingStranded
    <2> SUFFICES ASSUME DiscoveryInv, Quiescent, ~terminalErr, NEW u \in Urls, owned[u] # "none"
                 PROVE  owned[u] = "terminal" /\ candidate[u] \in Terminal
      BY DEF NothingStranded
    <2>1. placing = None /\ \A v \in Urls : closing[v] = "none" /\ stage[v] \notin {"download", "hash", "vision"}
      BY DEF Quiescent, Idle, InFlight
    <2>2. \A v \in Urls : stage[v] \in {"off", "download", "waiting", "hash", "vision", "follower"}
      BY DEF DiscoveryInv, TypeOK
    <2>3. stage[u] # "waiting" /\ stage[u] # "follower"
      BY <2>1 DEF DiscoveryInv, PipelineInv, Claimed
    <2>4. ~Active(u)
      BY <2>1, <2>2, <2>3 DEF Active, Placed
    <2>5. owned[u] \in {"none", "in_flight", "terminal"}
      BY DEF DiscoveryInv, TypeOK
    <2>6. owned[u] = "terminal"
      BY <2>4, <2>5 DEF DiscoveryInv, PipelineInv, OwnedHaveDuties
    <2> QED BY <2>6 DEF DiscoveryInv, PipelineInv, TerminalIsStored
  <1> QED BY <1>1, DiscoveryInvariance, PTL

(* A removed event stays quiet: the placement transaction refuses it, and  *)
(* the writes of calls still under way find its rows closed                *)
(* (registerAbsenceTx, rejectRemovedPlacementCandidates).                  *)
THEOREM RemovalIsFinal == Spec => NothingAfterRemoval
  <1>1. DiscoveryInv /\ DiscoveryInv' /\ [Next]_vars => RemovedIsQuiet
    <2> SUFFICES ASSUME DiscoveryInv, DiscoveryInv', [Next]_vars PROVE RemovedIsQuiet
      OBVIOUS
    <2>1. removed => UNCHANGED <<owner, order, credit>>
      BY OnlyPlacementsCredit DEF DiscoveryInv, CommitsPlacement
    <2>2. removed' => \A u \in Urls : candidate'[u] # "pending"
      BY DEF DiscoveryInv, RowsSettle, NonePending
    <2> QED BY <2>1, <2>2 DEF RemovedIsQuiet
  <1> QED BY <1>1, DiscoveryInvariance, PTL DEF Spec, NothingAfterRemoval

(* A step of the workflow, seen through its rows, is a step of the life    *)
(* cycle or none.                                                          *)
LEMMA StepImplements ==
    ASSUME DiscoveryInv, DiscoveryInv', [Next]_vars
    PROVE  [Lifecycle!Next]_(Lifecycle!vars)
  <1> USE DEF Lifecycle!Next, Lifecycle!vars
  <1>o. candidate' = candidate => OpenPosts' = OpenPosts
    BY DEF OpenPosts
  <1>r. Discovery = IF run \in {"restoring", "running", "finalizing"} THEN "running" ELSE run
    BY DEF Discovery
  <1>d. Discovery' = IF run' \in {"restoring", "running", "finalizing"} THEN "running" ELSE run'
    BY DEF Discovery
  <1>t. /\ checklist \in {"open", "done", "event_removed"} /\ checklist' \in {"open", "done", "event_removed"}
        /\ run \in {"none", "restoring", "running", "finalizing", "completed", "failed"}
    BY DEF DiscoveryInv, TypeOK
  <1>e. removed => OpenPosts = {}
    BY DEF DiscoveryInv, RowsSettle, NonePending, OpenPosts
  <1>f. removed' => OpenPosts' = {}
    BY DEF DiscoveryInv, RowsSettle, NonePending, OpenPosts
  <1>g. checklist' # "open" => OpenPosts' = {}
    <2>1. checklist' = "done" => OpenPosts' = {}
      BY DEF DiscoveryInv, DoneIsSettled, OpenPosts
    <2>2. checklist' = "event_removed" => removed'
      BY DEF DiscoveryInv, RowsSettle
    <2> QED BY <1>f, <1>t, <2>1, <2>2
  <1>1. CASE SpawnEvent \/ SpawnLate
    <2>1. /\ run \in {"none", "failed"} /\ run' = "restoring"
          /\ UNCHANGED <<removed, checklist, candidate>>
      BY <1>1 DEF SpawnEvent, SpawnLate, durable
    <2> QED BY <1>o, <1>r, <1>d, <1>t, <2>1 DEF Lifecycle!Start
  <1>2. CASE \E outcome \in Outcomes : Restore(outcome)
    <2>1. /\ run = "restoring" /\ run' \in {"running", "failed"}
          /\ UNCHANGED <<removed, checklist, candidate>>
      BY <1>2 DEF Restore, durable
    <2> QED BY <1>o, <1>r, <1>d, <2>1 DEF Lifecycle!Fail
  <1>3. CASE Produce \/ Consume
    <2>1. ASSUME Produce
          PROVE  run = "running" /\ UNCHANGED <<run, removed, checklist>>
      <3>1. ASSUME NEW found, SearchTweets(found) \/ SearchUnavailable
            PROVE  run = "running" /\ UNCHANGED <<run, removed, checklist>>
        BY <3>1 DEF SearchTweets, SearchUnavailable, durable
      <3>2. ASSUME NEW u, NEW outcome, StoreCandidate(u, outcome)
            PROVE  run = "running" /\ UNCHANGED <<run, removed, checklist>>
        BY <3>2 DEF StoreCandidate
      <3>3. ASSUME NEW outcome, RecordProgress(outcome)
            PROVE  run = "running" /\ UNCHANGED <<run, removed, checklist>>
        BY <3>3, Zenon DEF RecordProgress
      <3> QED BY <2>1, <3>1, <3>2, <3>3 DEF Produce
    <2>2. ASSUME NEW u, NEW next, NEW best, NEW result,
                 OnDownloadDone(u, result) \/ OnHashDone(u, next, result) \/ OnVisionDone(u, best, result)
          PROVE  run = "running" /\ UNCHANGED <<run, removed, checklist>>
      BY <2>2 DEF OnDownloadDone, OnHashDone, OnVisionDone, durable
    <2>3. run # "running" => placing = None /\ \A u \in Urls : closing[u] = "none"
      BY DEF DiscoveryInv, PipelineInv, MemoryNeedsRun, Forgotten
    <2>4. ASSUME NEW u \in Urls, NEW outcome \in Outcomes, UpsertCandidateOutcome(u, outcome)
          PROVE  run = "running" /\ UNCHANGED <<run, removed, checklist>>
      BY <2>3, <2>4 DEF UpsertCandidateOutcome
    <2>5. ASSUME NEW outcome \in Outcomes, CommitClipPlacement(outcome)
          PROVE  run = "running" /\ UNCHANGED <<run, removed, checklist>>
      <3>1. placing # None /\ UNCHANGED <<run, removed, checklist>>
        BY <2>5 DEF CommitClipPlacement
      <3> QED BY <2>3, <3>1
    <2>6. run = "running" /\ UNCHANGED <<run, removed, checklist>>
      BY <1>3, <2>1, <2>2, <2>4, <2>5 DEF Consume
    <2> QED BY <1>r, <1>d, <1>g, <2>6 DEF Lifecycle!Discover
  <1>4. CASE FinishRun
    <2>1. /\ run = "running" /\ run' \in {"finalizing", "failed"}
          /\ UNCHANGED <<removed, checklist, candidate>>
      BY <1>4 DEF FinishRun, Quiescent, RunOutcome, durable
    <2> QED BY <1>o, <1>r, <1>d, <2>1 DEF Lifecycle!Fail
  <1>5. CASE \E outcome \in Outcomes : FinalizeEvent(outcome)
    <2>1. /\ run = "finalizing" /\ run' \in {"completed", "failed"}
          /\ \/ checklist' = IF checklist = "open" THEN "done" ELSE checklist
             \/ run' = "failed" /\ checklist' = checklist
          /\ UNCHANGED <<removed, candidate>>
      BY <1>5 DEF FinalizeEvent, CompleteDownstreamWorkflow
    <2>2. OpenPosts = {}
      BY <2>1 DEF DiscoveryInv, RowsSettle, NonePending, OpenPosts
    <2> QED BY <1>o, <1>r, <1>d, <1>t, <2>1, <2>2 DEF Lifecycle!Close, Lifecycle!Fail
  <1>6. CASE StopRun
    <2>1. /\ run \in {"restoring", "running", "finalizing"} /\ run' = "failed"
          /\ UNCHANGED <<removed, checklist, candidate>>
      BY <1>6 DEF StopRun, durable
    <2> QED BY <1>o, <1>r, <1>d, <2>1 DEF Lifecycle!Fail
  <1>7. CASE RemoveEvent
    <2>1. /\ ~removed /\ removed' = TRUE /\ run' = run
          /\ checklist' = IF checklist = "open" THEN "event_removed" ELSE checklist
      BY <1>7 DEF RemoveEvent
    <2> QED BY <1>r, <1>d, <1>f, <2>1 DEF Lifecycle!Remove
  <1>8. CASE \E late \in SUBSET Urls : CancelRun(late)
    <2>1. /\ removed /\ UNCHANGED <<removed, checklist>>
          /\ run \in {"restoring", "running", "finalizing"} /\ run' = "failed"
      BY <1>8 DEF CancelRun
    <2> QED BY <1>r, <1>d, <1>e, <1>f, <2>1 DEF Lifecycle!Fail
  <1>9. CASE UNCHANGED vars
    BY <1>9, <1>o, <1>r, <1>d DEF vars
  <1> QED BY <1>1, <1>2, <1>3, <1>4, <1>5, <1>6, <1>7, <1>8, <1>9 DEF Next, Work, Disturb, Finish

(* The workflow implements what the monitor and the completion of the      *)
(* fixture rely on, whatever is restarted, lost, removed or late: a        *)
(* completed discovery is never started again, and a closed row never gets *)
(* an open post.                                                           *)
THEOREM DiscoveryImplementsLifecycle == Spec => ImplementsLifecycle
  <1>1. Init => Lifecycle!Init
    <2> SUFFICES ASSUME Init PROVE Lifecycle!Init
      OBVIOUS
    <2>1. OpenPosts = {}
      BY DEF Init, OpenPosts
    <2>2. Discovery = "none"
      BY DEF Init, Discovery
    <2>3. removed = FALSE /\ checklist = "open"
      BY DEF Init
    <2> QED BY <2>1, <2>2, <2>3 DEF Lifecycle!Init
  <1>2. DiscoveryInv /\ DiscoveryInv' /\ [Next]_vars => [Lifecycle!Next]_(Lifecycle!vars)
    BY StepImplements
  <1> QED BY <1>1, <1>2, DiscoveryInvariance, PTL DEF Spec, ImplementsLifecycle, Lifecycle!Spec

=============================================================================
