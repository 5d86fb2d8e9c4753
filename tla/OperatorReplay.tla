--------------------------- MODULE OperatorReplay ---------------------------
(***************************************************************************)
(* The two operator tools that reopen the finished discovery of one event: *)
(* found-footy-ops replay-event, and the repair of clock rejections        *)
(* (scripts/replay_clock_rejects).  Both register a checklist row and move *)
(* verdicts back to pending in one transaction, start an EventWorkflow     *)
(* under an identity of its own, wait for it and read the result.  They    *)
(* run beside each other, beside the discovery the monitor started and     *)
(* beside a removal; a tool may stop and a run may fail between any two    *)
(* steps.  What an EventWorkflow does inside is EventDiscovery's; here a   *)
(* run loads the pending candidates, searches, records its attempts, gives *)
(* each candidate a verdict and closes its own row.                        *)
(***************************************************************************)
EXTENDS Naturals, FiniteSets

CONSTANTS Candidates,     \* tweets the searches can find
          Operators,      \* tool processes
          Original,       \* the identity event-<id>
          Operations,     \* slugs of replay-event, each with its identity
          Repairs,        \* identities of the clock repair
          Requests,       \* the commands given: identity, mode and allowlist, {} for none
          MaxCandidatesPerEvent,
          MaxFaults       \* tools stopped and runs failed

Ids == {Original} \cup Operations \cup Repairs

Modes == {"fresh-search", "retry-transient", "recover"}

\* A slug names one identity of the event; a repair is given no allowlist or a
\* set of candidates of the event.
EventRequests == [id : Operations, mode : Modes, allow : {{}}]
RepairRequests == [id : Repairs, mode : {"repair"}, allow : SUBSET Candidates]

ASSUME ReplayAssumption ==
    /\ Original \notin Operations \cup Repairs
    /\ Operations \cap Repairs = {}
    /\ IsFiniteSet(Candidates)
    /\ Requests \subseteq EventRequests \cup RepairRequests
    /\ MaxCandidatesPerEvent \in Nat /\ MaxFaults \in Nat

\* Verdicts of a candidate: a clock rejection, a failure of the fixed transient
\* set, any other rejection or failure, a clip credited to an asset.
Verdicts == {"clock", "transient", "other", "accepted"}
Searches(mode) == mode \in {"original", "fresh-search", "recover"}
RetriesTransient(mode) == mode \in {"retry-transient", "recover"}

VARIABLES
    fixture,       \* "active" or "completed"
    removed,       \* the event was removed by the provider
    candidates,    \* candidate -> its row
    checklist,     \* identity -> its event_downstream_workflows row
    runs,          \* identity -> the latest Temporal execution of it
    tools,         \* operator -> the command being carried out
    faults

vars == <<fixture, removed, candidates, checklist, runs, tools, faults>>

None == "none"
NoRow == [state |-> None, mode |-> None, allow |-> {}, selected |-> 0, searched |-> FALSE]
NoRun == [state |-> None, seen |-> {}, mine |-> {}]
Idle == [pc |-> "idle", id |-> Original, mode |-> None, allow |-> {}]

CandidateRow == [class : Verdicts \cup {"absent", "pending", "removed"}, owner : Ids, attached : BOOLEAN]
ChecklistRow == [state : {None, "open", "done"}, mode : Modes \cup {None, "original", "repair"},
                 allow : SUBSET Candidates, selected : 0..Cardinality(Candidates),
                 searched : BOOLEAN]
Run == [state : {None, "restoring", "running", "closing", "completed", "failed"},
        seen : SUBSET Candidates, mine : SUBSET Candidates]
Tool == [pc : {"idle", "prepare", "start", "wait", "read", "verified"},
         id : Ids, mode : Modes \cup {None, "repair"}, allow : SUBSET Candidates]

TypeOK ==
    /\ fixture \in {"active", "completed"} /\ removed \in BOOLEAN
    /\ candidates \in [Candidates -> CandidateRow]
    /\ checklist \in [Ids -> ChecklistRow]
    /\ runs \in [Ids -> Run]
    /\ tools \in [Operators -> Tool]
    /\ faults \in 0..MaxFaults

\* The monitor has registered and started the discovery of a confirmed event.
Init ==
    /\ fixture = "active" /\ removed = FALSE
    /\ candidates = [c \in Candidates |-> [class |-> "absent", owner |-> Original, attached |-> FALSE]]
    /\ checklist = [w \in Ids |-> IF w = Original
                                  THEN [NoRow EXCEPT !.state = "open", !.mode = "original"]
                                  ELSE NoRow]
    /\ runs = [w \in Ids |-> IF w = Original THEN [NoRun EXCEPT !.state = "restoring"] ELSE NoRun]
    /\ tools = [t \in Operators |-> Idle]
    /\ faults = 0

OfClass(class) == {c \in Candidates : candidates[c].class = class}
Open(w) == checklist[w].state = "open"
Registered(w) == checklist[w].state # None

-----------------------------------------------------------------------------
(* The event: searches, verdicts, removal, completion of the fixture.      *)

\* LoadEventRecoveryState: every row of the event excludes its tweet from the
\* searches, and every pending one is driven again, whoever reopened it.
RestoreNewOnly(w) ==                                               \* mutant
    [state |-> "running", seen |-> Candidates \ OfClass("absent"),
     mine |-> IF Searches(checklist[w].mode) THEN OfClass("pending") ELSE {}]
Restored(w) ==
    [state |-> "running", seen |-> Candidates \ OfClass("absent"), mine |-> OfClass("pending")]

Restore(w) ==
    /\ runs[w].state = "restoring"
    /\ runs' = [runs EXCEPT ![w] = Restored(w)]
    /\ UNCHANGED <<fixture, removed, candidates, checklist, tools, faults>>

\* A search of the run finds a tweet that it does not exclude; the row that is
\* already there stays as it is.
SearchTweets(w, c) ==
    /\ runs[w].state = "running" /\ Searches(checklist[w].mode) /\ c \notin runs[w].seen
    /\ runs' = [runs EXCEPT ![w].seen = @ \cup {c}, ![w].mine = @ \cup {c}]
    /\ candidates' = [candidates EXCEPT ![c].class = IF @ # "absent" THEN @
                                                    ELSE IF removed THEN "removed" ELSE "pending"]
    /\ UNCHANGED <<fixture, removed, checklist, tools, faults>>

\* RecordDiscoveryProgress of a usable search: attempts_completed of the row
\* leaves 0 for good.  An outage is counted elsewhere and leaves it alone; the
\* monitor's own row advances too, and no tool reads it.
RecordProgress(w) ==
    /\ runs[w].state = "running" /\ w \in Operations /\ Searches(checklist[w].mode)
    /\ checklist' = [checklist EXCEPT ![w].searched = TRUE]
    /\ UNCHANGED <<fixture, removed, candidates, runs, tools, faults>>

\* The terminal write of a candidate.  A removed event keeps what it has; an
\* asset credited earlier stays attached under any later verdict.
Settle(w, c, verdict) ==
    /\ runs[w].state = "running" /\ c \in runs[w].mine
    /\ runs' = [runs EXCEPT ![w].mine = @ \ {c}]
    /\ candidates' = IF removed THEN candidates
                     ELSE [candidates EXCEPT ![c].class = verdict,
                                             ![c].attached = @ \/ verdict = "accepted"]
    /\ UNCHANGED <<fixture, removed, checklist, tools, faults>>

\* MarkDownstreamComplete: the searches are over and nothing is in flight.
CloseRow(w) ==
    /\ runs[w].state = "running" /\ runs[w].mine = {}
    /\ runs' = [runs EXCEPT ![w] = [NoRun EXCEPT !.state = "closing"]]
    /\ checklist' = [checklist EXCEPT ![w].state = "done"]
    /\ UNCHANGED <<fixture, removed, candidates, tools, faults>>

Return(w) ==
    /\ runs[w].state = "closing"
    /\ runs' = [runs EXCEPT ![w].state = "completed"]
    /\ UNCHANGED <<fixture, removed, candidates, checklist, tools, faults>>

Live(w) == runs[w].state \in {"restoring", "running", "closing"}

RunFails(w) ==
    /\ Live(w) /\ faults < MaxFaults
    /\ faults' = faults + 1
    /\ runs' = [runs EXCEPT ![w] = [NoRun EXCEPT !.state = "failed"]]
    /\ UNCHANGED <<fixture, removed, candidates, checklist, tools>>

\* Failed-only reuse of the identity: a live or completed execution is attached to.
Started(w) ==
    IF runs[w].state \in {None, "failed"}
    THEN [runs EXCEPT ![w] = [NoRun EXCEPT !.state = "restoring"]] ELSE runs

\* The events the monitor's recovery pass starts again: confirmed, not removed,
\* and without any completed discovery row.
EventsAwaitingDiscovery == ~removed /\ \A w \in Ids : checklist[w].state # "done"

Respawn ==
    /\ fixture = "active" /\ EventsAwaitingDiscovery
    /\ runs[Original].state = "failed"
    /\ runs' = Started(Original)
    /\ UNCHANGED <<fixture, removed, candidates, checklist, tools, faults>>

RemoveEvent ==
    /\ fixture = "active" /\ ~removed
    /\ removed' = TRUE
    /\ candidates' = [c \in Candidates |-> [candidates[c] EXCEPT !.class = IF @ = "pending" THEN "removed" ELSE @]]
    /\ checklist' = [w \in Ids |-> [checklist[w] EXCEPT !.state = IF @ = "open" THEN "done" ELSE @]]
    /\ UNCHANGED <<fixture, runs, tools, faults>>

CompleteFixture ==
    /\ fixture = "active" /\ \A w \in Ids : ~Open(w)
    /\ fixture' = "completed"
    /\ UNCHANGED <<removed, candidates, checklist, runs, tools, faults>>

-----------------------------------------------------------------------------
(* found-footy-ops replay-event.                                           *)

\* Failed without any asset: what recover and retry-transient reopen.
TransientReplayPredicate == {c \in OfClass("transient") : ~candidates[c].attached}

RetryCandidates(mode) == IF RetriesTransient(mode) THEN TransientReplayPredicate ELSE {}

\* The row must still be as it was registered: the same mode and, of a mode that
\* searches, no attempt completed.
SearchRecorded(w) == Searches(checklist[w].mode) /\ checklist[w].searched
ValidateStoredReplayMetadata(w, mode) == checklist[w].mode = mode /\ ~SearchRecorded(w)

\* loadEventReplayPlan, read again under the lock of the event by the
\* preparation; a request that has its row already only attaches to it.
PlanAlwaysChecksPending(w, mode) ==                                \* mutant
    /\ ~removed /\ checklist[Original].state = "done"
    /\ \A v \in Ids \ {w} : ~Open(v)
    /\ OfClass("pending") = {}
    /\ IF Registered(w) THEN ValidateStoredReplayMetadata(w, mode)
       ELSE mode = "retry-transient" => RetryCandidates(mode) # {}
PlanForgetsOwners(w, mode) ==                                      \* mutant
    /\ ~removed /\ checklist[Original].state = "done"
    /\ IF Registered(w) THEN ValidateStoredReplayMetadata(w, mode)
       ELSE /\ OfClass("pending") = {}
            /\ mode = "retry-transient" => RetryCandidates(mode) # {}
LoadEventReplayPlan(w, mode) ==
    /\ ~removed
    /\ checklist[Original].state = "done"
    /\ \A v \in Ids \ {w} : ~Open(v)
    /\ IF Registered(w) THEN ValidateStoredReplayMetadata(w, mode)
       ELSE /\ OfClass("pending") = {}
            /\ mode = "retry-transient" => RetryCandidates(mode) # {}

Take(t, request) ==
    /\ tools[t].pc \in {"idle", "verified"}
    /\ tools' = [tools EXCEPT ![t] = [pc |-> "prepare", id |-> request.id,
                                      mode |-> request.mode, allow |-> request.allow]]

PlanEventReplay(t, request) ==
    /\ request.id \in Operations
    /\ LoadEventReplayPlan(request.id, request.mode)
    /\ Take(t, request)
    /\ UNCHANGED <<fixture, removed, candidates, checklist, runs, faults>>

Step(t, pc) == [tools EXCEPT ![t] = [Idle EXCEPT !.pc = pc, !.id = tools[t].id]]

\* Registers w and moves S back to pending, in one transaction.
OpenRow(mode, allow, S) ==
    [state |-> "open", mode |-> mode, allow |-> allow, selected |-> Cardinality(S), searched |-> FALSE]
Reopen(w, mode, allow, S) ==
    /\ checklist' = [checklist EXCEPT ![w] = OpenRow(mode, allow, S)]
    /\ candidates' = [c \in Candidates |->
                       IF c \in S THEN [candidates[c] EXCEPT !.class = "pending", !.owner = w]
                                  ELSE candidates[c]]

\* The request has its row: nothing is reset, a completed one is only read.
AttachTo(t, w) ==
    /\ tools' = Step(t, IF checklist[w].state = "done" THEN "read" ELSE "start")
    /\ UNCHANGED <<candidates, checklist>>

Refuse(t) == tools' = [tools EXCEPT ![t] = Idle] /\ UNCHANGED <<candidates, checklist>>

PrepareEventReplay(t) ==
    LET w == tools[t].id  mode == tools[t].mode IN
    /\ tools[t].pc = "prepare" /\ w \in Operations
    /\ CASE ~LoadEventReplayPlan(w, mode) -> Refuse(t)
         [] LoadEventReplayPlan(w, mode) /\ Registered(w) -> AttachTo(t, w)
         [] OTHER -> /\ Reopen(w, mode, {}, RetryCandidates(mode))
                     /\ tools' = Step(t, "start")
    /\ UNCHANGED <<fixture, removed, runs, faults>>

\* verifyReplayResult: the row is closed and the whole event has nothing pending.
VerifyReplayResult(w) == checklist[w].state = "done" /\ OfClass("pending") = {}

-----------------------------------------------------------------------------
(* scripts/replay_clock_rejects.                                           *)

Selected(allow) == IF allow = {} THEN OfClass("clock") ELSE OfClass("clock") \cap allow

\* Every allowlisted row still has the verdict, or belongs to this repair.
VerifyCandidateAllowlist(w, allow) ==
    \A c \in allow : IF Registered(w) THEN candidates[c].owner = w ELSE candidates[c].class = "clock"

EligibleCandidates(w, allow) ==
    CASE allow # {} -> Cardinality(allow)
      [] allow = {} /\ Registered(w) -> checklist[w].selected
      [] OTHER -> Cardinality(Selected(allow))

ListCandidateReplayEvents(t, request) ==
    /\ request.id \in Repairs /\ ~removed
    /\ VerifyCandidateAllowlist(request.id, request.allow)
    /\ EligibleCandidates(request.id, request.allow) \in 1..MaxCandidatesPerEvent
    /\ Take(t, request)
    /\ UNCHANGED <<fixture, removed, candidates, checklist, runs, faults>>

\* The stored selector must be the same; a fresh one must match in full, though
\* no other discovery of the event is looked at.
PrepareCandidateReplay(t) ==
    LET w == tools[t].id  allow == tools[t].allow  selected == Selected(allow) IN
    /\ tools[t].pc = "prepare" /\ w \in Repairs
    /\ CASE removed \/ (Registered(w) /\ checklist[w].allow # allow) -> Refuse(t)
         [] ~removed /\ Registered(w) /\ checklist[w].allow = allow -> AttachTo(t, w)
         [] OTHER -> IF selected = {} \/ (allow # {} /\ selected # allow) THEN Refuse(t)
                     ELSE /\ Reopen(w, "repair", allow, selected)
                          /\ tools' = Step(t, "start")
    /\ UNCHANGED <<fixture, removed, runs, faults>>

\* checkedReplayResult: the repair's own rows, as many as were selected.
CheckedReplayResult(w) ==
    LET own == {c \in Candidates : candidates[c].owner = w} IN
    /\ checklist[w].state = "done"
    /\ own \cap OfClass("pending") = {}
    /\ Cardinality(own) = checklist[w].selected

-----------------------------------------------------------------------------
(* Both tools: start the run, wait for it, read the stored result.         *)

StartWorkflow(t) ==
    /\ tools[t].pc = "start"
    /\ runs' = Started(tools[t].id)
    /\ tools' = Step(t, "wait")
    /\ UNCHANGED <<fixture, removed, candidates, checklist, faults>>

WaitForRun(t) ==
    /\ tools[t].pc = "wait" /\ ~Live(tools[t].id)
    /\ tools' = IF runs[tools[t].id].state = "completed" THEN Step(t, "read") ELSE [tools EXCEPT ![t] = Idle]
    /\ UNCHANGED <<fixture, removed, candidates, checklist, runs, faults>>

ReadResult(t) ==
    LET w == tools[t].id IN
    /\ tools[t].pc = "read"
    /\ tools' = IF \/ w \in Operations /\ VerifyReplayResult(w)
                   \/ w \in Repairs /\ CheckedReplayResult(w)
                THEN Step(t, "verified") ELSE [tools EXCEPT ![t] = Idle]
    /\ UNCHANGED <<fixture, removed, candidates, checklist, runs, faults>>

\* The browser never becomes ready, a connection fails, the process is killed.
StopTool(t) ==
    /\ tools[t].pc \notin {"idle", "verified"} /\ faults < MaxFaults
    /\ faults' = faults + 1
    /\ tools' = [tools EXCEPT ![t] = Idle]
    /\ UNCHANGED <<fixture, removed, candidates, checklist, runs>>

RunStep(w) ==
    \/ Restore(w) \/ RecordProgress(w) \/ CloseRow(w) \/ Return(w)
    \/ \E c \in Candidates : SearchTweets(w, c)
    \/ \E c \in Candidates, verdict \in Verdicts : Settle(w, c, verdict)

ToolStep(t) ==
    \/ PrepareEventReplay(t) \/ PrepareCandidateReplay(t)
    \/ StartWorkflow(t) \/ WaitForRun(t) \/ ReadResult(t)

Invoke(t, request) == PlanEventReplay(t, request) \/ ListCandidateReplayEvents(t, request)

Next ==
    \/ \E w \in Ids : RunStep(w) \/ RunFails(w)
    \/ \E t \in Operators : ToolStep(t) \/ StopTool(t) \/ \E request \in Requests : Invoke(t, request)
    \/ Respawn \/ RemoveEvent \/ CompleteFixture

Spec == Init /\ [][Next]_vars

-----------------------------------------------------------------------------
(* A row of a replay that is closed leaves none of the verdicts it reopened *)
(* pending, and a tool reports success only for such a row, whichever tool, *)
(* run or removal closed it and however often the command was repeated.    *)
ClosedIsSettled ==
    /\ \A w \in Operations \cup Repairs : checklist[w].state = "done" =>
         \A c \in Candidates : candidates[c].owner = w => candidates[c].class # "pending"
    /\ \A t \in Operators : tools[t].pc = "verified" => checklist[tools[t].id].state = "done"

(* The monitor's discovery and the event replays of any number of operators *)
(* never hold the event at the same time (loadEventReplayPlan under the    *)
(* lock); only a clock repair may be open beside them.                     *)
OneEventReplay == \A v, w \in {Original} \cup Operations : Open(v) /\ Open(w) => v = w

\* Repeating the command of a repair, and the two ways it can be refused.
GrownPastCeiling(w) == checklist[w].allow = {} /\ checklist[w].selected > MaxCandidatesPerEvent
LostToRepair(w) == \E c \in checklist[w].allow : candidates[c].owner \in Repairs \ {w}
CanRepeatRepair(w) ==
    /\ VerifyCandidateAllowlist(w, checklist[w].allow)
    /\ EligibleCandidates(w, checklist[w].allow) \in 1..MaxCandidatesPerEvent

(* Whatever stopped in the middle, a registered replay is carried on by    *)
(* repeating its command, and the refusals of the tools block it in four   *)
(* cases only: an event replay waits for an open repair, or has completed  *)
(* a search of its own; a repair without an allowlist may have grown past  *)
(* its ceiling between listing and preparing, and an allowlisted one may   *)
(* have lost a row to another repair.                                      *)
OpenIsResumable ==
    /\ \A w \in Operations : Open(w) =>
         \/ LoadEventReplayPlan(w, checklist[w].mode)
         \/ SearchRecorded(w)
         \/ \E v \in Repairs : Open(v)
    /\ \A w \in Repairs : Open(w) =>
         CanRepeatRepair(w) \/ GrownPastCeiling(w) \/ LostToRepair(w)

(* What docs/operations.md says of replay-event: a process failure after   *)
(* the registration does not lose ownership, rerun the same operation.  A  *)
(* run that failed after its first completed search refutes it: its row    *)
(* stays open, its command and every new slug of the event are refused.    *)
FailedReplayIsResumable ==
    \A w \in Operations : Open(w) /\ runs[w].state = "failed" =>
        LoadEventReplayPlan(w, checklist[w].mode) \/ \E v \in Repairs : Open(v)

=============================================================================
