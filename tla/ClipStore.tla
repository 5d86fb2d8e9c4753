------------------------------- MODULE ClipStore -------------------------------
(***************************************************************************)
(* The media of one event: asset rows, public shares, stored bytes and the *)
(* credits of the posts, as four writers change them.                      *)
(*                                                                         *)
(*   - the placement activity of the discovery workflow, step by step,     *)
(*     retried after a failure and overtaken by its own timed-out attempt; *)
(*   - the operator's reselection, prepared from an earlier snapshot;      *)
(*   - DestroyEvent, dispatched for an overturned event or by retention;   *)
(*   - the compatibility activities of histories that predate the atomic   *)
(*     placement (path "legacy").                                          *)
(*                                                                         *)
(* A clip c shows the media Content[c].  The asset, its share and its      *)
(* object are named by that media.  owner[m] is m for a live row, the      *)
(* successor for a superseded one and None when there is no row.           *)
(***************************************************************************)
EXTENDS VideoSelection, FiniteSets, FiniteSetsExt

CONSTANTS
    Clips,       \* accepted posts, one source each
    Content,     \* the media a post shows
    Paths,       \* which placement code the workflow history runs
    Posts,       \* the posts found in a history of each kind
    First,       \* the post whose clip was placed before the history begins
    MaxFaults    \* failed or timed-out activity attempts, lost dispatches,
                 \* and reselections by an operator

ASSUME StoreAssumption ==
    /\ None \notin Clips
    /\ IsFiniteSet(Media) /\ IsFiniteSet(Clips)
    /\ Content \in [Clips -> Media]
    /\ Paths \subseteq {"selection", "atomic", "legacy"}
    /\ Posts \in [Paths -> SUBSET Clips]
    /\ First \in Clips
    /\ MaxFaults \in Nat

VARIABLES
    path,        \* fixed by the history: GetVersion markers
    removed,     \* events.removed
    expired,     \* completed fixture outside the public window
    owner,       \* video_assets.superseded_by
    pop,         \* video_assets.popularity
    gone,        \* video_assets.object_reclaimed_at
    seen,        \* rows in the order of first_seen_at
    share,       \* video_shares.state
    outcome,     \* event_search_candidates.outcome_class
    credit,      \* event_search_candidates.credited_asset_id
    receipts,    \* video_selection_commits, by the clip that caused it
    objects,     \* media whose final object exists
    staged,      \* clips whose staging object exists
    alias,       \* workflow memory: exact media to kept asset
    request,     \* the placement the workflow waits for
    main,        \* its current attempt
    late,        \* a timed-out attempt that is still running
    destroy,     \* the DestroyEvent activities
    operator,    \* the operator's prepared reselection
    faults

rows    == <<owner, pop, gone, seen, share, outcome, credit, receipts>>
bytes   == <<objects, staged>>
event   == <<path, removed, expired>>
flow    == <<alias, request>>
vars    == <<event, rows, bytes, flow, main, late, destroy, operator, faults>>

ShareStates == {"none", "active", "superseded", "removed"}

Idle == [pc |-> "idle", of |-> None, snap |-> None, ready |-> {},
         fresh |-> FALSE, left |-> {}, loser |-> None]

Attempt(r) == [Idle EXCEPT !.pc = "load", !.of = r, !.left = r.losers]

(* After the transaction an attempt needs neither snapshot nor object list. *)
After(a, pc) == [a EXCEPT !.pc = pc, !.snap = None, !.ready = {}]

End(a, pc) == [Idle EXCEPT !.pc = pc, !.of = a.of]

NoRun == [pc |-> "idle", left |-> {}, at |-> None]

(* An event that already shows the clip of one post.                        *)
Init ==
    LET shown == Content[First] IN
    /\ path \in Paths
    /\ removed = FALSE /\ expired = FALSE
    /\ owner = [m \in Media |-> IF m = shown THEN m ELSE None]
    /\ pop = [m \in Media |-> IF m = shown THEN 1 ELSE 0]
    /\ gone = [m \in Media |-> FALSE]
    /\ seen = <<shown>>
    /\ share = [m \in Media |-> IF m = shown THEN "active" ELSE "none"]
    /\ outcome = [c \in Clips |-> IF c = First THEN "accepted" ELSE "pending"]
    /\ credit = [c \in Clips |-> IF c = First /\ path # "legacy" THEN shown ELSE None]
    /\ receipts = IF path = "selection" THEN {First} ELSE {}
    /\ objects = {shown}
    /\ staged = Posts[path]
    /\ alias = owner
    /\ request = None
    /\ main = Idle /\ late = Idle
    /\ destroy = NoRun
    /\ operator = Idle
    /\ faults = 0

-----------------------------------------------------------------------------
(* What the readers see.                                                    *)

(* The end of the superseded_by chain; no chain is longer than the rows.    *)
Terminal(own, m) ==
    LET step[i \in 0 .. Cardinality(Media)] == IF i = 0 THEN m ELSE own[step[i - 1]]
    IN step[Cardinality(Media)]

(* ResolveShare: what the public address of a share answers.                *)
ResolveShare(m) ==
    IF share[m] = "none" THEN "unknown"
    ELSE IF share[m] = "removed" \/ gone[Terminal(owner, m)] THEN "gone"
    ELSE "serving"

(* ListLiveForEvents before the popularity filter.                          *)
Listed == {m \in Media : share[m] = "active" /\ owner[m] = m /\ ~gone[m]}

(* The workflow-side projection of one consistent snapshot.                 *)
Project(own, shr, gn) ==
    LET live == {m \in Media : own[m] = m /\ shr[m] = "active" /\ ~gn[m]}
    IN [m \in Media |-> IF own[m] # None /\ Terminal(own, m) \in live
                        THEN Terminal(own, m) ELSE None]

ProjectSelection ==
    IF removed THEN [m \in Media |-> None] ELSE Project(owner, share, gone)

(* The fingerprint of a snapshot covers every column it reads.              *)
LoadSelection ==
    [removed |-> removed, owner |-> owner, pop |-> pop, gone |-> gone,
     share |-> share, outcome |-> outcome, credit |-> credit]

(* Objects a selection may restore or keep: not reclaimed, not revoked, and *)
(* found in the bucket.                                                     *)
Prepared(m) ==
    {k \in objects : \/ owner[k] # None /\ ~gone[k] /\ share[k] # "removed"
                     \/ owner[k] = None /\ k = m}

-----------------------------------------------------------------------------
(* The workflow decides and waits for one placement at a time.              *)

Request(c, new, winner, losers, exact) ==
    [clip |-> c, new |-> new, winner |-> winner, losers |-> losers, exact |-> exact]

(* dedupAndCommit and collapseExact against the remembered keepers.         *)
Decide(c) ==
    LET m == Content[c]
        matched == {k \in Live(alias) : <<m, k>> \in Match}
        rest(best) == IF path = "legacy" THEN matched \ {best} ELSE {}
    IN IF alias[m] # None THEN {Request(c, FALSE, alias[m], {}, TRUE)}
       ELSE IF matched = {} THEN {Request(c, TRUE, m, {}, FALSE)}
       ELSE {IF IsUpgrade(m, best) THEN Request(c, TRUE, m, matched, FALSE)
             ELSE Request(c, FALSE, best, rest(best), FALSE) : best \in Best(matched)}

Begin(c) ==
    /\ request = None /\ main = Idle
    /\ c \in Posts[path] /\ outcome[c] = "pending"
    /\ \E r \in Decide(c) : request' = r /\ main' = Attempt(r)
    /\ UNCHANGED <<event, rows, bytes, alias, late, destroy, operator, faults>>

(* The attempt failed, or its worker died: Temporal starts another.  An     *)
(* attempt whose transaction was refused is not a fault.                    *)
Fail ==
    /\ main # Idle
    /\ \/ main.pc = "failed" /\ UNCHANGED faults
       \/ faults < MaxFaults /\ faults' = faults + 1
    /\ main' = Attempt(request)
    /\ UNCHANGED <<event, rows, bytes, flow, late, destroy, operator>>

(* The start-to-close timeout passed while the attempt still runs.          *)
Timeout ==
    /\ main # Idle /\ late = Idle /\ faults < MaxFaults
    /\ faults' = faults + 1
    /\ late' = main
    /\ main' = Attempt(request)
    /\ UNCHANGED <<event, rows, bytes, flow, destroy, operator>>

(* No attempt is left: the run ends in an error, or its cancellation after  *)
(* a removal arrived.  The next run restores its memory from the rows.      *)
GiveUp ==
    /\ main # Idle
    /\ \/ removed /\ UNCHANGED faults
       \/ faults < MaxFaults /\ faults' = faults + 1
    /\ request' = None /\ main' = Idle
    /\ alias' = ProjectSelection
    /\ UNCHANGED <<event, rows, bytes, late, destroy, operator>>

(* The result reached the workflow: it replaces its memory by the committed *)
(* selection, or updates what it remembers.                                 *)
Return ==
    /\ main.pc = "done"
    /\ LET r == request
           m == Content[r.clip]
           w == IF r.new THEN m ELSE r.winner
       IN alias' = IF path = "selection" \/ outcome[r.clip] = "removed" THEN ProjectSelection
                   ELSE [k \in Media |-> IF k = m THEN w
                                         ELSE IF alias[k] \in r.losers THEN w ELSE alias[k]]
    /\ request' = None /\ main' = Idle
    /\ UNCHANGED <<event, rows, bytes, late, destroy, operator, faults>>

(* The timed-out attempt ends; nobody reads its result.  One whose worker   *)
(* died simply takes no further step.                                       *)
Vanish ==
    /\ late.pc \in {"done", "failed"}
    /\ late' = Idle
    /\ UNCHANGED <<event, rows, bytes, flow, main, destroy, operator, faults>>

-----------------------------------------------------------------------------
(* CommitClipPlacement, one external call at a time.  a is the attempt and  *)
(* b its successor state, so that both the current attempt and a timed-out  *)
(* one take the same steps.                                                 *)

Load(a, b) ==
    /\ a.pc = "load" /\ path # "legacy"
    /\ b = [a EXCEPT !.pc = "copy", !.snap = LoadSelection]
    /\ UNCHANGED <<rows, bytes>>

(* A row proves that the bytes were copied; a removed event is owed only    *)
(* the clean-up.                                                            *)
Copy(a, b) ==
    LET m == Content[a.of.clip]
        fresh == owner[m] = None
        copies == fresh /\ (path = "atomic" \/ ~a.snap.removed)
    IN /\ a.pc = "copy"
       /\ fresh => ~a.of.exact
       /\ copies => a.of.clip \in staged
       /\ objects' = IF copies THEN objects \cup {m} ELSE objects
       /\ b = [a EXCEPT !.pc = IF path = "selection" THEN "head" ELSE "commit", !.fresh = fresh]
       /\ UNCHANGED <<rows, staged>>

HeadObjects(a, b) ==
    /\ a.pc = "head"
    /\ b = [a EXCEPT !.pc = "commit", !.ready = Prepared(Content[a.of.clip])]
    /\ UNCHANGED <<rows, bytes>>

(* A placement that lost the event row to a removal.                        *)
RejectRemoved(a, b) ==
    /\ a.pc = "commit" /\ removed
    /\ outcome' = [outcome EXCEPT ![a.of.clip] = IF @ = "pending" THEN "removed" ELSE @]
    /\ b = After(a, "discard")
    /\ UNCHANGED <<owner, pop, gone, seen, share, credit, receipts, bytes>>

Winner(r) == IF r.new THEN Content[r.clip] ELSE r.winner

PlacedOwner(r) ==
    LET m == Content[r.clip] IN
    [k \in Media |-> IF k = m /\ owner[m] = None THEN Winner(r)
                     ELSE IF k \in r.losers \ {Winner(r)} THEN Winner(r) ELSE owner[k]]

PlacedCredit(r) ==
    [c \in Clips |-> IF c = r.clip \/ credit[c] \in r.losers \ {Winner(r)}
                     THEN Winner(r) ELSE credit[c]]

(* The vote counts once: a new row starts with it, an existing winner is    *)
(* incremented, and the votes of the losers move.                           *)
VotedByOutcome(r) == outcome[r.clip] \in {"pending", "accepted"}    \* mutant
Voted(r) == credit[r.clip] = None /\ outcome[r.clip] # "accepted"

VotesOf(votes, S) == MapThenSumSet(LAMBDA l : votes[l], S)

PlacedPopularity(r) ==
    LET w == Winner(r)
        created == owner[w] = None
        added == IF Voted(r) /\ ~created THEN 1 ELSE 0
        merged == {l \in r.losers \ {w} : owner[l] = l}
    IN [k \in Media |->
          IF k = w THEN (IF created THEN 1 ELSE pop[w]) + added
                        + VotesOf(pop, merged)
          ELSE IF k = Content[r.clip] /\ owner[k] = None THEN 1 ELSE pop[k]]

PlacedShare(r) ==
    [k \in Media |-> IF k = Winner(r) /\ share[k] = "none" THEN "active"
                     ELSE IF k \in r.losers \ {Winner(r)} /\ share[k] = "active" THEN "superseded"
                     ELSE share[k]]

PlacedSeen(r) ==
    IF owner[Content[r.clip]] = None THEN Append(seen, Content[r.clip]) ELSE seen

(* The checks of applyClipPlacementTx; any of them fails the transaction.   *)
PlacementApplies(r) ==
    LET m == Content[r.clip]
        w == Winner(r)
    IN /\ owner[w] = w \/ (r.new /\ owner[w] = None)
       /\ owner[m] # None /\ ~r.new => IF r.exact THEN Terminal(owner, m) = w ELSE owner[m] = w
       /\ r.exact => owner[m] # None
       /\ share[w] \in {"none", "active"}
       /\ credit[r.clip] \in {None, w} \cup r.losers
       /\ owner[w] = None => Voted(r)
       /\ \A l \in r.losers \ {w} : owner[l] \in {l, w}

(* One selection over given rows.  Live rows must be public and present.    *)
Selections(own, order, shr, cr, ready) ==
    LET eligible == {m \in ready : shr[m] # "removed" /\ ~gone[m]} IN
    {plan \in PlanSelection(own, order, eligible) : \A m \in Live(own) : shr[m] = "active"}

Support(m, out) == Cardinality({c \in Clips : out[c] = "accepted" /\ <<Content[c], m>> \in Match})

(* applySelectionTx: ownership, credits, derived popularity and shares.     *)
ApplySelection(plan, pp, shr, out, cr) ==
    /\ owner' = plan
    /\ credit' = [c \in Clips |-> IF out[c] = "accepted" THEN plan[Content[c]] ELSE cr[c]]
    /\ pop' = [m \in Media |-> IF plan[m] = m THEN Support(m, out) ELSE pp[m]]
    /\ share' = [m \in Media |-> IF plan[m] = m THEN "active" ELSE shr[m]]

Accepted(r) == [outcome EXCEPT ![r.clip] = "accepted"]

(* The combined transaction of the current path.  The snapshot whose        *)
(* objects were checked must still be the rows, no live row may be revoked, *)
(* and a new row needs its object.                                          *)
SelectionCommitsUnchecked(a) ==                                   \* mutant
    PlacementApplies(a.of)
SelectionCommits(a) ==
    LET r == a.of IN
    /\ a.snap = LoadSelection
    /\ \A m \in Live(owner) : ~gone[m] /\ share[m] = "active"
    /\ PlacementApplies(r)
    /\ owner[Content[r.clip]] = None => Content[r.clip] \in a.ready

SelectionPlans(a) ==
    LET r == a.of IN
    IF SelectionCommits(a)
    THEN Selections(PlacedOwner(r), PlacedSeen(r), PlacedShare(r), PlacedCredit(r), a.ready)
    ELSE {}

(* A receipt answers a repeated request.                                    *)
CommitSelected(a, b) ==
    LET r == a.of IN
    /\ a.pc = "commit" /\ path = "selection" /\ ~removed
    /\ b = After(a, "clean")
    /\ \/ r.clip \in receipts /\ UNCHANGED rows
       \/ /\ r.clip \notin receipts
          /\ \E plan \in SelectionPlans(a) :
                ApplySelection(plan, PlacedPopularity(r), PlacedShare(r), Accepted(r), PlacedCredit(r))
          /\ seen' = PlacedSeen(r)
          /\ outcome' = Accepted(r)
          /\ receipts' = receipts \cup {r.clip}
          /\ UNCHANGED gone
    /\ UNCHANGED bytes

(* The transaction of histories before the reversible selection.            *)
CommitPlaced(a, b) ==
    LET r == a.of IN
    /\ a.pc = "commit" /\ path = "atomic" /\ ~removed
    /\ PlacementApplies(r)
    /\ owner' = PlacedOwner(r) /\ credit' = PlacedCredit(r)
    /\ pop' = PlacedPopularity(r) /\ share' = PlacedShare(r)
    /\ seen' = PlacedSeen(r) /\ outcome' = Accepted(r)
    /\ b = After(a, "clean")
    /\ UNCHANGED <<gone, receipts, bytes>>

(* A refused transaction rolls back and fails the attempt.                  *)
CommitRefused(a, b) ==
    /\ a.pc = "commit" /\ ~removed
    /\ \/ path = "selection" /\ a.of.clip \notin receipts /\ SelectionPlans(a) = {}
       \/ path = "atomic" /\ ~PlacementApplies(a.of)
    /\ b = End(a, "failed")
    /\ UNCHANGED <<rows, bytes>>

(* Staging is dropped last; a discarded placement also drops the bytes it   *)
(* copied, or that an earlier attempt copied for a row that never came.     *)
Clean(a, b) ==
    /\ a.pc \in {"clean", "discard"}
    /\ staged' = staged \ {a.of.clip}
    /\ objects' = IF a.pc = "discard" /\ a.fresh THEN objects \ {Content[a.of.clip]} ELSE objects
    /\ b = End(a, "done")
    /\ UNCHANGED rows

-----------------------------------------------------------------------------
(* The compatibility activities: every statement commits by itself.         *)

(* PromoteAndPersist.                                                       *)
PromoteCopy(a, b) ==
    LET m == Content[a.of.clip] IN
    /\ a.pc = "load" /\ path = "legacy" /\ a.of.new
    /\ owner[m] = None => a.of.clip \in staged
    /\ objects' = IF owner[m] = None THEN objects \cup {m} ELSE objects
    /\ b = [a EXCEPT !.pc = "insert"]
    /\ UNCHANGED <<rows, staged>>

InsertAsset(a, b) ==
    LET m == Content[a.of.clip] IN
    /\ a.pc = "insert"
    /\ owner' = IF owner[m] = None THEN [owner EXCEPT ![m] = m] ELSE owner
    /\ pop' = IF owner[m] = None THEN [pop EXCEPT ![m] = 1] ELSE pop
    /\ seen' = IF owner[m] = None THEN Append(seen, m) ELSE seen
    /\ b = [a EXCEPT !.pc = "share"]
    /\ UNCHANGED <<gone, share, outcome, credit, receipts, bytes>>

MintShare(a, b) ==
    LET m == Content[a.of.clip] IN
    /\ a.pc = "share"
    /\ share' = [share EXCEPT ![m] = IF @ = "none" THEN "active" ELSE @]
    /\ b = [a EXCEPT !.pc = "drop"]
    /\ UNCHANGED <<owner, pop, gone, seen, outcome, credit, receipts, bytes>>

(* BumpAssetPopularity, which counts again when its result is lost.         *)
AddPopularity(a, b) ==
    /\ a.pc = "load" /\ path = "legacy" /\ ~a.of.new
    /\ pop' = [pop EXCEPT ![a.of.winner] = @ + 1]
    /\ b = [a EXCEPT !.pc = "drop"]
    /\ UNCHANGED <<owner, gone, seen, share, outcome, credit, receipts, bytes>>

DeleteStaging(a, b) ==
    /\ a.pc = "drop"
    /\ staged' = staged \ {a.of.clip}
    /\ b = [a EXCEPT !.pc = "retire"]
    /\ UNCHANGED <<rows, objects>>

(* SupersedeAssets: the row and its votes, then its share, then its bytes.  *)
Supersede(a, b) ==
    /\ a.pc = "retire"
    /\ \E l \in a.left \ {Winner(a.of)} :
        /\ owner' = IF owner[l] = l THEN [owner EXCEPT ![l] = Winner(a.of)] ELSE owner
        /\ pop' = IF owner[l] = l THEN [pop EXCEPT ![Winner(a.of)] = @ + pop[l]] ELSE pop
        /\ b = [a EXCEPT !.pc = "mark", !.loser = l]
    /\ UNCHANGED <<gone, seen, share, outcome, credit, receipts, bytes>>

MarkSuperseded(a, b) ==
    /\ a.pc = "mark"
    /\ share' = [share EXCEPT ![a.loser] = IF @ = "active" THEN "superseded" ELSE @]
    /\ b = [a EXCEPT !.pc = "reclaim"]
    /\ UNCHANGED <<owner, pop, gone, seen, outcome, credit, receipts, bytes>>

(* Best effort: a failed delete leaves the bytes to retention.              *)
ReclaimLoser(a, b) ==
    /\ a.pc = "reclaim"
    /\ \/ objects' = objects \ {a.loser} /\ gone' = [gone EXCEPT ![a.loser] = TRUE]
       \/ objects' \in {objects, objects \ {a.loser}} /\ UNCHANGED gone
    /\ b = [a EXCEPT !.pc = "retire", !.left = @ \ {a.loser}, !.loser = None]
    /\ UNCHANGED <<owner, pop, seen, share, outcome, credit, receipts, staged>>

RecordOutcome(a, b) ==
    /\ a.pc = "retire" /\ a.left \subseteq {Winner(a.of)}
    /\ outcome' = Accepted(a.of)
    /\ b = End(a, "done")
    /\ UNCHANGED <<owner, pop, gone, seen, share, credit, receipts, bytes>>

Step(a, b) ==
    \/ Load(a, b) \/ Copy(a, b) \/ HeadObjects(a, b)
    \/ RejectRemoved(a, b) \/ CommitSelected(a, b) \/ CommitPlaced(a, b)
    \/ CommitRefused(a, b) \/ Clean(a, b)
    \/ PromoteCopy(a, b) \/ InsertAsset(a, b) \/ MintShare(a, b) \/ AddPopularity(a, b)
    \/ DeleteStaging(a, b) \/ Supersede(a, b) \/ MarkSuperseded(a, b) \/ ReclaimLoser(a, b)
    \/ RecordOutcome(a, b)

MainStep == Step(main, main') /\ UNCHANGED <<event, flow, late, destroy, operator, faults>>
LateStep == Step(late, late') /\ UNCHANGED <<event, flow, main, destroy, operator, faults>>

-----------------------------------------------------------------------------
(* DestroyEvent: revoke first, then delete, then record each deletion.      *)

(* The poll that removed the event dispatches it, unless the result of the  *)
(* reconciliation was lost on its way to the workflow.  A fixture that is   *)
(* outside the public window is completed and no longer polled.             *)
Overturn ==
    /\ ~removed /\ ~expired
    /\ removed' = TRUE
    /\ \/ /\ destroy' = [NoRun EXCEPT !.pc = "revoke"]
          /\ UNCHANGED faults
       \/ /\ faults < MaxFaults /\ faults' = faults + 1
          /\ UNCHANGED destroy
    /\ outcome' = [c \in Clips |-> IF outcome[c] = "pending" THEN "removed" ELSE outcome[c]]
    /\ UNCHANGED <<path, expired, owner, pop, gone, seen, share, credit, receipts,
                   bytes, flow, main, late, operator>>

(* The fixture leaves the public window, days after the last attempt of its *)
(* event; a placement that follows is an operator's replay.                 *)
Expire ==
    /\ ~expired
    /\ request = None /\ late = Idle
    /\ expired' = TRUE
    /\ UNCHANGED <<path, removed, rows, bytes, flow, main, late, destroy, operator, faults>>

Unreclaimed == {m \in Media : owner[m] # None /\ ~gone[m]}

(* The daily ingest plans every expired event that has unreclaimed rows.    *)
PlanPublicMedia ==                                                \* mutant
    /\ expired /\ Unreclaimed # {}
    /\ \E m \in Unreclaimed : share[m] \in {"active", "superseded"}
    /\ destroy = NoRun
    /\ destroy' = [NoRun EXCEPT !.pc = "revoke"]
    /\ UNCHANGED <<event, rows, bytes, flow, main, late, operator, faults>>
PlanMediaRetention ==
    /\ expired /\ Unreclaimed # {}
    /\ destroy = NoRun
    /\ destroy' = [NoRun EXCEPT !.pc = "revoke"]
    /\ UNCHANGED <<event, rows, bytes, flow, main, late, operator, faults>>

RemoveByEvent ==
    /\ destroy.pc = "revoke"
    /\ share' = [m \in Media |-> IF share[m] = "none" THEN "none" ELSE "removed"]
    /\ destroy' = [destroy EXCEPT !.pc = "list"]
    /\ UNCHANGED <<event, owner, pop, gone, seen, outcome, credit, receipts,
                   bytes, flow, main, late, operator, faults>>

ListUnreclaimed ==
    /\ destroy.pc = "list"
    /\ destroy' = [destroy EXCEPT !.pc = "delete", !.left = Unreclaimed]
    /\ UNCHANGED <<event, rows, bytes, flow, main, late, operator, faults>>

DeleteObject ==
    \E m \in destroy.left :
        /\ destroy.pc = "delete"
        /\ objects' = objects \ {m}
        /\ destroy' = [pc |-> "mark", left |-> destroy.left \ {m}, at |-> m]
        /\ UNCHANGED <<event, rows, staged, flow, main, late, operator, faults>>

MarkObjectReclaimed ==
    /\ destroy.pc = "mark"
    /\ gone' = [gone EXCEPT ![destroy.at] = TRUE]
    /\ destroy' = [destroy EXCEPT !.pc = "delete", !.at = None]
    /\ UNCHANGED <<event, owner, pop, seen, share, outcome, credit, receipts,
                   bytes, flow, main, late, operator, faults>>

DestroyDone ==
    /\ destroy.pc = "delete" /\ destroy.left = {}
    /\ destroy' = NoRun
    /\ UNCHANGED <<event, rows, bytes, flow, main, late, operator, faults>>

(* Some call failed: the activity is retried from its start, or given up,   *)
(* in which case only a later retention plan comes back to the event.       *)
DestroyFails ==
    /\ destroy.pc # "idle" /\ faults < MaxFaults
    /\ faults' = faults + 1
    /\ \E pc \in {"revoke", "idle"} : destroy' = [NoRun EXCEPT !.pc = pc]
    /\ UNCHANGED <<event, rows, bytes, flow, main, late, operator>>

-----------------------------------------------------------------------------
(* The operator's reselection of stored clips.                              *)

PrepareSelection ==
    /\ path = "selection" /\ operator = Idle /\ faults < MaxFaults /\ ~removed
    /\ faults' = faults + 1
    /\ operator' = [Idle EXCEPT !.pc = "commit", !.snap = LoadSelection, !.ready = Prepared(None)]
    /\ UNCHANGED <<event, rows, bytes, flow, main, late, destroy>>

CommitSelection ==
    /\ operator.pc = "commit"
    /\ operator' = Idle
    /\ \/ /\ ~removed /\ operator.snap = LoadSelection
          /\ \A c \in Clips : outcome[c] = "accepted" => credit[c] # None
          /\ CreditsValid(owner, {c \in Clips : outcome[c] = "accepted"}, Content, credit)
          /\ \E plan \in Selections(owner, seen, share, credit, operator.ready) :
                ApplySelection(plan, pop, share, outcome, credit)
       \/ UNCHANGED <<owner, pop, share, credit>>
    /\ UNCHANGED <<event, gone, seen, outcome, receipts, bytes, flow, main, late, destroy, faults>>

-----------------------------------------------------------------------------
Workflow == (\E c \in Clips : Begin(c)) \/ GiveUp \/ Return \/ MainStep

Destroying ==
    \/ RemoveByEvent \/ ListUnreclaimed \/ DeleteObject
    \/ MarkObjectReclaimed \/ DestroyDone

Next ==
    \/ Workflow \/ Fail \/ Timeout \/ LateStep \/ Vanish
    \/ Overturn \/ Expire \/ PlanMediaRetention
    \/ Destroying \/ DestroyFails
    \/ PrepareSelection \/ CommitSelection

(* The daily schedule repeats the plan, and a worker finishes an activity   *)
(* that it started.                                                         *)
Fairness ==
    /\ WF_vars(PlanMediaRetention)
    /\ WF_vars(Destroying)

Spec == Init /\ [][Next]_vars /\ Fairness

-----------------------------------------------------------------------------
Pcs == {"idle", "load", "copy", "head", "commit", "clean", "discard", "done", "failed",
        "insert", "share", "drop", "retire", "mark", "reclaim"}

Requests ==
    [clip : Clips, new : BOOLEAN, winner : Media, losers : SUBSET Media, exact : BOOLEAN]

Popularities == [Media -> Nat]
Reclaims == [Media -> BOOLEAN]
Shares == [Media -> ShareStates]
Outcomes == [Clips -> {"pending", "accepted", "removed"}]
Credits == [Clips -> Media \cup {None}]

Snapshots ==
    [removed : BOOLEAN, owner : Owners, pop : Popularities, gone : Reclaims,
     share : Shares, outcome : Outcomes, credit : Credits]

Attempts ==
    [pc : Pcs, of : Requests \cup {None}, snap : Snapshots \cup {None},
     ready : SUBSET Media, fresh : BOOLEAN, left : SUBSET Media, loser : Media \cup {None}]

(* The shapes of the rows and of the activities in progress; an attempt     *)
(* that runs has a request, and so has the workflow that waits for it.      *)
TypeOK ==
    /\ path \in Paths
    /\ {removed, expired} \subseteq BOOLEAN
    /\ owner \in Owners /\ alias \in Owners
    /\ pop \in Popularities /\ gone \in Reclaims
    /\ share \in Shares
    /\ outcome \in Outcomes
    /\ credit \in Credits
    /\ seen \in Seq(Media)
    /\ receipts \subseteq Clips /\ objects \subseteq Media /\ staged \subseteq Clips
    /\ {main, late, operator} \subseteq Attempts
    /\ main # Idle => request \in Requests
    /\ \A a \in {main, late} : a # Idle => a.pc # "idle" /\ a.of \in Requests
    /\ \A a \in {main, late} : a.pc \in {"mark", "reclaim"} => a.loser \in Media
    /\ destroy \in [pc : {"idle", "revoke", "list", "delete", "mark"}, left : SUBSET Media,
                    at : Media \cup {None}]
    /\ destroy.pc = "mark" => destroy.at \in Media
    /\ faults \in 0 .. MaxFaults

(* Popularity is what it claims to be, through retries, late attempts,      *)
(* mergers and restorations: the accepted posts that show a selected clip   *)
(* (selection), or those credited to it (atomic placement).                 *)
PopularityIsSupport ==
    \A m \in Live(owner) :
        /\ path = "selection" => pop[m] = Support(m, outcome)
        /\ path = "atomic" => pop[m] = Cardinality({c \in Clips : credit[c] = m})

(* What the API lists or plays for an event that stands has its bytes: no   *)
(* reselection or placement leaves a public address on a clip whose bytes a *)
(* concurrent retention deletes.                                            *)
ServedHasBytes ==
    path = "selection" /\ ~removed =>
        /\ Listed \subseteq objects
        /\ \A m \in Media : ResolveShare(m) = "serving" => Terminal(owner, m) \in objects

(* Once the fixture is outside the public window its bytes are reclaimed,   *)
(* although the dispatch for an overturned event or a delete may be lost.   *)
ExpiredIsReclaimed == expired ~> (Unreclaimed = {})
=============================================================================
