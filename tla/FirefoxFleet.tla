----------------------------- MODULE FirefoxFleet -----------------------------
(***************************************************************************)
(* The browsers of the fleet: one Docker container per event that is being *)
(* searched for.  The poll provisions a browser when it first sees a named *)
(* event and releases it when the event is removed; a discovery run        *)
(* releases it when it has closed its checklist row; an operator's replay  *)
(* provisions it again; the reaper removes what nobody owns.               *)
(*                                                                         *)
(* Nothing locks rows and containers together.  Every Docker call is a     *)
(* step of its own.  A container is found by its name, which is the name   *)
(* of its event and can be used again, and is removed by its ID, which     *)
(* cannot.                                                                 *)
(***************************************************************************)
EXTENDS Naturals, FiniteSets

CONSTANTS
    Events,
    None,
    MaxInstances,       \* FirefoxFleetConfig.MaxInstances
    MinAge,             \* ticks before the reaper may take a container
    ReapTimeout,        \* ticks that one attempt of the reaper may last
    ProvisionAttempts,  \* attempts of the poll's ProvisionFirefox
    MaxRuns,            \* bound: discovery runs of an event, replays included
    MaxContainers,      \* bound: containers ever created
    MaxFaults           \* bound: calls that fail or time out

(* The reaper's attempts are cut off after 60 seconds and spare containers *)
(* younger than 120 seconds.                                               *)
ASSUME FleetAssumption ==
    /\ None \notin Events
    /\ MaxInstances \in Nat \ {0}
    /\ MinAge \in Nat /\ ReapTimeout \in Nat /\ ReapTimeout < MinAge
    /\ ProvisionAttempts \in Nat \ {0}
    /\ MaxRuns \in Nat \ {0}
    /\ MaxContainers \in Nat \ {0}
    /\ MaxFaults \in Nat

Containers == 1..MaxContainers
NoBox == 0
Clients == {"poll", "operator"}       \* who provisions
Poll == 0                             \* who releases: the poll, or run k
Callers == Poll..MaxRuns

VARIABLES
    row,       \* per event, what its rows say: warming up, discovery open...
    run,       \* per event, the latest registered discovery run; 0 before it
    started,   \* events whose replay has its workflow
    newNamed,  \* newly detected events the poll has yet to provision for
    box,       \* per container: its event, its age, its state
    prov,      \* per client, the Provision call it is in
    rel,       \* per event and caller, the Release call
    reap,      \* the reaper's attempt
    kept,      \* history: containers whose event was live ever since
    handed,    \* history: those of them that a Provision has returned
    faults

vars == <<row, run, started, newNamed, box, prov, rel, reap, handed, kept, faults>>

NoCall == [pc |-> "idle", event |-> None, id |-> NoBox, tries |-> 0]
Attempt(e, n) == [pc |-> "find", event |-> e, id |-> NoBox, tries |-> n]
NoRelease == [pc |-> "idle", id |-> NoBox]
Due == [pc |-> "due", id |-> NoBox]
NoSweep == [pc |-> "idle", live |-> {}, elapsed |-> 0, todo |-> {}, id |-> NoBox]

RowStates == {"absent", "warmup", "open", "closed", "removed"}
Ids == Containers \cup {NoBox}
Boxes == [event : Events \cup {None}, age : 0..MinAge,
          state : {"unused", "created", "running", "stopped", "gone"}]
Calls == [pc : {"idle", "find", "wait", "create", "start"}, event : Events \cup {None},
          id : Ids, tries : 0..ProvisionAttempts]
Releases == [pc : {"idle", "due", "stop", "remove"}, id : Ids]
Sweeps == [pc : {"idle", "list", "sweep", "remove"}, live : SUBSET Events,
           elapsed : 0..ReapTimeout, todo : SUBSET Containers, id : Ids]

TypeOK ==
    /\ row \in [Events -> RowStates]
    /\ run \in [Events -> 0..MaxRuns]
    /\ started \in SUBSET Events
    /\ newNamed \in SUBSET Events
    /\ box \in [Containers -> Boxes]
    /\ prov \in [Clients -> Calls]
    /\ rel \in [Events -> [Callers -> Releases]]
    /\ reap \in Sweeps
    /\ handed \in SUBSET Containers
    /\ kept \in SUBSET Containers
    /\ faults \in 0..MaxFaults

Init ==
    /\ row = [e \in Events |-> "absent"]
    /\ run = [e \in Events |-> 0]
    /\ started = {}
    /\ newNamed = {}
    /\ box = [c \in Containers |-> [event |-> None, age |-> 0, state |-> "unused"]]
    /\ prov = [p \in Clients |-> NoCall]
    /\ rel = [e \in Events |-> [k \in Callers |-> NoRelease]]
    /\ reap = NoSweep
    /\ handed = {}
    /\ kept = {}
    /\ faults = 0

-----------------------------------------------------------------------------
(* Docker, as the fleet uses it.                                           *)

Exists(c) == box[c].state \in {"created", "running", "stopped"}

(* ContainerInspect by name.  The daemon keeps names unique.               *)
Named(e) == {c \in Containers : Exists(c) /\ box[c].event = e}

(* ContainerList without All: running containers only.                     *)
Running == {c \in Containers : box[c].state = "running"}

Stopped(c) == IF box[c].state = "running" THEN [box[c] EXCEPT !.state = "stopped"] ELSE box[c]

Removed(c) == [event |-> box[c].event, age |-> 0, state |-> "gone"]

Fault == faults < MaxFaults /\ faults' = faults + 1

-----------------------------------------------------------------------------
(* The rows, as the monitor, the discovery and the operator move them.     *)

(* ListLiveFleetEventIDs: a counted event without a discovery row, or one  *)
(* with a row that is not completed.  A fixture is not completed while an  *)
(* event of it is still being counted.                                     *)
Live(e) == row[e] \in {"warmup", "open"}

LiveEvents == {e \in Events : Live(e)}

(* e is no longer live: history forgets its containers.                    *)
Disown(e) ==
    /\ kept' = {c \in kept : box[c].event # e}
    /\ handed' = {c \in handed : box[c].event # e}

Detect(e) ==
    /\ row[e] = "absent"
    /\ row' = [row EXCEPT ![e] = "warmup"]
    /\ newNamed' = newNamed \cup {e}
    /\ UNCHANGED <<run, started, box, prov, rel, reap, handed, kept, faults>>

Confirm(e) ==
    /\ row[e] = "warmup"
    /\ row' = [row EXCEPT ![e] = "open"]
    /\ run' = [run EXCEPT ![e] = 1]
    /\ UNCHANGED <<started, newNamed, box, prov, rel, reap, handed, kept, faults>>

(* The poll removes an event, cancels its workflow and releases.           *)
Remove(e) ==
    /\ Live(e) \/ row[e] = "closed"
    /\ row' = [row EXCEPT ![e] = "removed"]
    /\ rel' = [rel EXCEPT ![e][Poll] = Due]
    /\ Disown(e)
    /\ UNCHANGED <<run, started, newNamed, box, prov, reap, faults>>

(* finalizeEvent: the row is closed, then the browser released.            *)
FinalizeEvent(e) ==
    /\ row[e] = "open"
    /\ run[e] = 1 \/ e \in started
    /\ row' = [row EXCEPT ![e] = "closed"]
    /\ started' = started \ {e}
    /\ rel' = [rel EXCEPT ![e][run[e]] = Due]
    /\ Disown(e)
    /\ UNCHANGED <<run, newNamed, box, prov, reap, faults>>

(* loadEventReplayPlan: every earlier discovery of the event is completed, *)
(* or the pending one is this replay itself.                               *)
Replayable(e) == row[e] = "closed" /\ run[e] < MaxRuns
AlreadyPrepared(e) == row[e] = "open" /\ run[e] > 1

(* The operator registers a replay, or repeats the command of one that is  *)
(* not completed, and then provisions.  The command waits for the workflow *)
(* it starts: it is repeated after that only if its process has died.      *)
PrepareEventReplay(e) ==
    /\ prov["operator"].pc = "idle"
    /\ \/ /\ Replayable(e)
          /\ row' = [row EXCEPT ![e] = "open"]
          /\ run' = [run EXCEPT ![e] = run[e] + 1]
          /\ UNCHANGED faults
       \/ /\ AlreadyPrepared(e)
          /\ IF e \in started THEN Fault ELSE UNCHANGED faults
          /\ UNCHANGED <<row, run>>
    /\ prov' = [prov EXCEPT !["operator"] = Attempt(e, 0)]
    /\ UNCHANGED <<started, newNamed, box, rel, reap, handed, kept>>

-----------------------------------------------------------------------------
(* Fleet.Provision.                                                        *)

(* The poll provisions for its new events, one after the other.            *)
ProvisionFirefox(e) ==
    /\ prov["poll"].pc = "idle"
    /\ e \in newNamed
    /\ newNamed' = newNamed \ {e}
    /\ prov' = [prov EXCEPT !["poll"] = Attempt(e, 0)]
    /\ UNCHANGED <<row, run, started, box, rel, reap, handed, kept, faults>>

(* The call returns the address: container c runs, or so it says.  The     *)
(* operator goes on to start the workflow.                                 *)
Provisioned(p, c) ==
    /\ handed' = handed \cup ({c} \cap kept)
    /\ started' = IF p = "operator" /\ row[prov[p].event] = "open"
                  THEN started \cup {prov[p].event} ELSE started
    /\ prov' = [prov EXCEPT ![p] = NoCall]

FindTrustsExisting(p) ==                                              \* mutant
    /\ prov[p].pc = "find"
    /\ \/ /\ Named(prov[p].event) = {}
          /\ prov' = [prov EXCEPT ![p] = [@ EXCEPT !.pc = "wait"]]
          /\ UNCHANGED <<handed, started>>
       \/ \E c \in Named(prov[p].event) : Provisioned(p, c)
    /\ UNCHANGED <<row, run, newNamed, box, rel, reap, kept, faults>>

(* The fast path returns a running container and restarts a stopped one.   *)
ProvisionFind(p) ==
    /\ prov[p].pc = "find"
    /\ \/ /\ Named(prov[p].event) = {}
          /\ prov' = [prov EXCEPT ![p] = [@ EXCEPT !.pc = "wait"]]
          /\ UNCHANGED <<handed, started>>
       \/ \E c \in Named(prov[p].event) :
             IF box[c].state = "running"
             THEN Provisioned(p, c)
             ELSE /\ prov' = [prov EXCEPT ![p] = [@ EXCEPT !.pc = "start", !.id = c]]
                  /\ UNCHANGED <<handed, started>>
    /\ UNCHANGED <<row, run, newNamed, box, rel, reap, kept, faults>>

WaitForSlot(p) ==
    /\ prov[p].pc = "wait"
    /\ Cardinality(Running) < MaxInstances
    /\ prov' = [prov EXCEPT ![p] = [@ EXCEPT !.pc = "create"]]
    /\ UNCHANGED <<row, run, started, newNamed, box, rel, reap, handed, kept, faults>>

ContainerCreate(p) ==
    LET e == prov[p].event IN
    /\ prov[p].pc = "create"
    /\ Named(e) = {}
    /\ \E c \in Containers :
          /\ box[c].state = "unused"
          /\ \A d \in Containers : box[d].state = "unused" => c <= d
          /\ box' = [box EXCEPT ![c] = [event |-> e, age |-> 0, state |-> "created"]]
          /\ prov' = [prov EXCEPT ![p] = [@ EXCEPT !.pc = "start", !.id = c]]
          /\ kept' = IF Live(e) THEN kept \cup {c} ELSE kept
    /\ UNCHANGED <<row, run, started, newNamed, rel, reap, handed, faults>>

(* An attempt has failed.  Temporal repeats the poll's; the operator has   *)
(* to repeat the command.                                                  *)
Retry(p) ==
    prov' = [prov EXCEPT ![p] =
        IF p = "poll" /\ prov[p].tries + 1 < ProvisionAttempts
        THEN Attempt(prov[p].event, prov[p].tries + 1)
        ELSE NoCall]

(* The container starts, and the call may fail all the same.               *)
ContainerStart(p) ==
    LET c == prov[p].id IN
    /\ prov[p].pc = "start"
    /\ Exists(c)
    /\ box' = [box EXCEPT ![c] = [@ EXCEPT !.state = "running"]]
    /\ \/ Provisioned(p, c) /\ UNCHANGED faults
       \/ Fault /\ Retry(p) /\ UNCHANGED <<handed, started>>
    /\ UNCHANGED <<row, run, newNamed, rel, reap, kept>>

(* No slot before the deadline, the name is taken, the container has gone. *)
Refused(p) ==
    \/ prov[p].pc = "wait" /\ Cardinality(Running) >= MaxInstances
    \/ prov[p].pc = "create" /\ Named(prov[p].event) # {}
    \/ prov[p].pc = "start" /\ ~Exists(prov[p].id)

(* An attempt fails at any of its calls.                                   *)
ProvisionFails(p) ==
    /\ prov[p].pc # "idle"
    /\ \/ Refused(p) /\ UNCHANGED faults
       \/ Fault
    /\ Retry(p)
    /\ UNCHANGED <<row, run, started, newNamed, box, rel, reap, handed, kept>>

-----------------------------------------------------------------------------
(* Fleet.Release: find by name, then stop and remove by ID.                *)

ReleaseFind(e, k) ==
    /\ rel[e][k].pc = "due"
    /\ \/ /\ Named(e) = {}
          /\ rel' = [rel EXCEPT ![e][k] = NoRelease]
       \/ \E c \in Named(e) : rel' = [rel EXCEPT ![e][k] = [pc |-> "stop", id |-> c]]
    /\ UNCHANGED <<row, run, started, newNamed, box, prov, reap, handed, kept, faults>>

(* The result of the stop is ignored: the removal is forced.               *)
ReleaseStop(e, k) ==
    LET c == rel[e][k].id IN
    /\ rel[e][k].pc = "stop"
    /\ box' = [box EXCEPT ![c] = Stopped(c)]
    /\ rel' = [rel EXCEPT ![e][k] = [pc |-> "remove", id |-> c]]
    /\ UNCHANGED <<row, run, started, newNamed, prov, reap, handed, kept, faults>>

ReleaseRemove(e, k) ==
    LET c == rel[e][k].id IN
    /\ rel[e][k].pc = "remove"
    /\ box' = [box EXCEPT ![c] = Removed(c)]
    /\ rel' = [rel EXCEPT ![e][k] = NoRelease]
    /\ UNCHANGED <<row, run, started, newNamed, prov, reap, handed, kept, faults>>

(* The call fails and is repeated or, after the last attempt, given up.    *)
ReleaseFails(e, k) ==
    /\ rel[e][k].pc # "idle"
    /\ Fault
    /\ \E pc \in {"due", "idle"} : rel' = [rel EXCEPT ![e][k] = [pc |-> pc, id |-> NoBox]]
    /\ UNCHANGED <<row, run, started, newNamed, box, prov, reap, handed, kept>>

-----------------------------------------------------------------------------
(* ReapOrphanedFirefox: read the owners, list the containers, and take the *)
(* old ones that had none.                                                 *)

ReapOwners ==
    /\ reap.pc = "idle"
    /\ reap' = [NoSweep EXCEPT !.pc = "list", !.live = LiveEvents]
    /\ UNCHANGED <<row, run, started, newNamed, box, prov, rel, handed, kept, faults>>

IsOrphan(c) == box[c].event \notin reap.live /\ box[c].age >= MinAge

ListRunningOnly == Running                                            \* mutant
ListInstances == {c \in Containers : Exists(c)}

ReapList ==
    /\ reap.pc = "list"
    /\ reap' = [reap EXCEPT !.pc = "sweep", !.live = {},
                           !.todo = {c \in ListInstances : IsOrphan(c)}]
    /\ UNCHANGED <<row, run, started, newNamed, box, prov, rel, handed, kept, faults>>

(* The listed container itself is inspected and removed.                   *)
TargetByName(c) ==                                                    \* mutant
    IF Named(box[c].event) = {} THEN c ELSE CHOOSE d \in Named(box[c].event) : TRUE
Target(c) == c

ReapStop(c) ==
    LET d == Target(c) IN
    /\ reap.pc = "sweep"
    /\ c \in reap.todo
    /\ reap' = IF Exists(d)
               THEN [reap EXCEPT !.pc = "remove", !.id = d, !.todo = @ \ {c}]
               ELSE [reap EXCEPT !.todo = @ \ {c}]
    /\ box' = [box EXCEPT ![d] = Stopped(d)]
    /\ UNCHANGED <<row, run, started, newNamed, prov, rel, handed, kept, faults>>

(* A removal that fails is reported; the sweep goes on.                    *)
ReapRemove ==
    /\ reap.pc = "remove"
    /\ \/ box' = [box EXCEPT ![reap.id] = Removed(reap.id)] /\ UNCHANGED faults
       \/ Fault /\ UNCHANGED box
    /\ reap' = [reap EXCEPT !.pc = "sweep", !.id = NoBox]
    /\ UNCHANGED <<row, run, started, newNamed, prov, rel, handed, kept>>

ReapEnd ==
    /\ reap.pc = "sweep" /\ reap.todo = {}
    /\ reap' = NoSweep
    /\ UNCHANGED <<row, run, started, newNamed, box, prov, rel, handed, kept, faults>>

(* A call fails, or the attempt reaches its deadline: the next one starts  *)
(* from the beginning.                                                     *)
ReapFails ==
    /\ reap.pc # "idle"
    /\ Fault
    /\ reap' = NoSweep
    /\ UNCHANGED <<row, run, started, newNamed, box, prov, rel, handed, kept>>

(* Time passes, but not beyond the deadline of the reaper's attempt, whose *)
(* context ends then.                                                      *)
Tick ==
    /\ reap.pc # "idle" => reap.elapsed < ReapTimeout
    /\ box' = [c \in Containers |->
                  IF Exists(c) /\ box[c].age < MinAge
                  THEN [box[c] EXCEPT !.age = box[c].age + 1] ELSE box[c]]
    /\ reap' = IF reap.pc = "idle" THEN reap ELSE [reap EXCEPT !.elapsed = @ + 1]
    /\ UNCHANGED <<row, run, started, newNamed, prov, rel, handed, kept, faults>>

-----------------------------------------------------------------------------
Reaper == \/ ReapOwners \/ ReapList \/ ReapRemove \/ ReapEnd
          \/ \E c \in Containers : ReapStop(c)

Next ==
    \/ \E e \in Events :
          \/ Detect(e) \/ Confirm(e) \/ Remove(e) \/ FinalizeEvent(e)
          \/ PrepareEventReplay(e) \/ ProvisionFirefox(e)
          \/ \E k \in Callers :
                ReleaseFind(e, k) \/ ReleaseStop(e, k) \/ ReleaseRemove(e, k) \/ ReleaseFails(e, k)
    \/ \E p \in Clients :
          \/ ProvisionFind(p) \/ WaitForSlot(p) \/ ContainerCreate(p)
          \/ ContainerStart(p) \/ ProvisionFails(p)
    \/ Reaper \/ ReapFails \/ Tick

(* The staging poll runs the reaper every 15 minutes, and time passes.     *)
(* Nothing else is promised: a release may never come.                     *)
Spec == Init /\ [][Next]_vars /\ WF_vars(Reaper) /\ WF_vars(Tick)

-----------------------------------------------------------------------------
(* The reaper never has in hand a container whose event has been live ever *)
(* since the container was created: not the browser of an event that was   *)
(* detected between the two reads, and not the replacement, under the same *)
(* name, of a container it listed.                                         *)
ReaperSparesLive == reap.todo \cap kept = {} /\ reap.id \notin kept

(* As long as an event is live for the first time, the browser that was    *)
(* provisioned for it keeps running: neither the reaper nor any release    *)
(* stops it, and Provision did not report one that had not been started.   *)
FirstRunKeepsBrowser ==
    \A c \in handed : run[box[c].event] <= 1 => box[c].state = "running"

(* The same for every live event.  "Any pending downstream checklist       *)
(* continues to protect the browser", says the ownership decision; but     *)
(* the release of a finished run finds its container by name, and may      *)
(* find the one an operator's replay has been given since.                 *)
PendingKeepsBrowser == \A c \in handed : box[c].state = "running"

(* A container whose event is not live is removed, started or not and      *)
(* whatever became of its release, unless its event is replayed.           *)
OrphansAreReaped ==
    \A c \in Containers :
        Exists(c) /\ ~Live(box[c].event) ~> ~Exists(c) \/ Live(box[c].event)

=============================================================================
