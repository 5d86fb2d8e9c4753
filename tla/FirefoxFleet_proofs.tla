-------------------------- MODULE FirefoxFleet_proofs --------------------------
(***************************************************************************)
(* Safety of the fleet for any number of events, containers, runs and      *)
(* faults, and any two time limits of which the reaper's deadline is the   *)
(* smaller one.                                                            *)
(***************************************************************************)
EXTENDS FirefoxFleet, TLAPS

(* A run exists from the moment its row is registered.                     *)
RunsFollowRows ==
    \A e \in Events :
        /\ row[e] \in {"absent", "warmup"} => run[e] = 0
        /\ row[e] \in {"open", "closed"} => run[e] >= 1

(* A release is owed only by a run that has been closed, or for an event   *)
(* that was removed, and it only holds containers of its own event.        *)
ReleasesAreOwed ==
    \A e \in Events : \A k \in Callers :
        rel[e][k].pc # "idle" =>
            /\ k = Poll => row[e] = "removed"
            /\ k # Poll => k <= run[e] /\ (row[e] \in {"closed", "removed"} \/ run[e] > k)

ReleasesHoldTheirOwn ==
    \A e \in Events : \A k \in Callers :
        rel[e][k].pc \in {"stop", "remove"} =>
            /\ rel[e][k].id \in Containers
            /\ box[rel[e][k].id].event = e /\ box[rel[e][k].id].state # "unused"

CallsHoldContainers ==
    \A p \in Clients :
        /\ prov[p].pc # "idle" => prov[p].event \in Events
        /\ prov[p].pc = "start" => prov[p].id \in Containers /\ box[prov[p].id].state # "unused"

HistoryIsSound ==
    /\ handed \subseteq kept
    /\ \A c \in kept :
          box[c].event \in Events /\ Live(box[c].event) /\ box[c].state # "unused"

(* Until the reaper lists, a container that is kept although its event is  *)
(* not among the owners it read was created after that reading.            *)
SweepIsSound ==
    /\ reap.pc = "list" =>
          \A c \in kept : box[c].event \notin reap.live => box[c].age <= reap.elapsed
    /\ \A c \in reap.todo : box[c].state # "unused"
    /\ reap.pc = "remove" => reap.id \in Containers /\ box[reap.id].state # "unused"
    /\ reap.pc # "remove" => reap.id = NoBox

IndInv ==
    /\ TypeOK
    /\ RunsFollowRows
    /\ ReleasesAreOwed
    /\ ReleasesHoldTheirOwn
    /\ CallsHoldContainers
    /\ HistoryIsSound
    /\ SweepIsSound
    /\ ReaperSparesLive
    /\ FirstRunKeepsBrowser

-----------------------------------------------------------------------------
(* Type correctness. *)
LEMMA TypeInit == Init => TypeOK
<1> USE FleetAssumption
<1>1. /\ [event |-> None, age |-> 0, state |-> "unused"] \in Boxes
      /\ NoCall \in Calls /\ NoRelease \in Releases /\ NoSweep \in Sweeps
      /\ "absent" \in RowStates
  BY DEF Boxes, Calls, Releases, Sweeps, NoCall, NoRelease, NoSweep, Ids, NoBox, RowStates
<1> QED
  BY <1>1 DEF Init, TypeOK


LEMMA BoxTypes ==
    ASSUME NEW b \in Boxes
    PROVE  /\ [b EXCEPT !.state = "stopped"] \in Boxes
           /\ [b EXCEPT !.state = "running"] \in Boxes
           /\ [event |-> b.event, age |-> 0, state |-> "gone"] \in Boxes
           /\ b.age < MinAge => [b EXCEPT !.age = b.age + 1] \in Boxes
<1> USE FleetAssumption
<1>1. [b EXCEPT !.state = "stopped"] \in Boxes /\ [b EXCEPT !.state = "running"] \in Boxes
  BY DEF Boxes
<1>2. [event |-> b.event, age |-> 0, state |-> "gone"] \in Boxes
  BY DEF Boxes
<1>3. ASSUME b.age < MinAge
      PROVE  [b EXCEPT !.age = b.age + 1] \in Boxes
  <2>1. b.age + 1 \in 0..MinAge
    BY <1>3 DEF Boxes
  <2> QED
    BY <2>1 DEF Boxes
<1> QED
  BY <1>1, <1>2, <1>3

LEMMA CallTypes ==
    /\ NoCall \in Calls
    /\ \A m \in Calls :
          /\ [m EXCEPT !.pc = "wait"] \in Calls
          /\ [m EXCEPT !.pc = "create"] \in Calls
          /\ \A c \in Containers : [m EXCEPT !.pc = "start", !.id = c] \in Calls
<1> USE FleetAssumption DEF Calls, Ids, NoBox
<1>1. NoCall \in Calls
  BY DEF NoCall
<1>2. \A m \in Calls : [m EXCEPT !.pc = "wait"] \in Calls /\ [m EXCEPT !.pc = "create"] \in Calls
  OBVIOUS
<1>3. ASSUME NEW m \in Calls, NEW c \in Containers
      PROVE  [m EXCEPT !.pc = "start", !.id = c] \in Calls
  OBVIOUS
<1> QED
  BY <1>1, <1>2, <1>3

LEMMA AttemptTypes ==
    ASSUME NEW e \in Events, NEW n \in 0..ProvisionAttempts
    PROVE  Attempt(e, n) \in Calls
  BY DEF Attempt, Calls, Ids

LEMMA ReleaseTypes ==
    /\ NoRelease \in Releases /\ Due \in Releases
    /\ \A c \in Containers : [pc |-> "stop", id |-> c] \in Releases
    /\ \A c \in Containers : [pc |-> "remove", id |-> c] \in Releases
    /\ \A pc \in {"due", "idle"} : [pc |-> pc, id |-> NoBox] \in Releases
  BY DEF Releases, Ids, NoBox, NoRelease, Due

LEMMA SweepTypes ==
    ASSUME NEW m \in Sweeps, NEW T \in SUBSET Containers
    PROVE  /\ NoSweep \in Sweeps
           /\ \A L \in SUBSET Events : [m EXCEPT !.pc = "list", !.live = L] \in Sweeps
           /\ [m EXCEPT !.pc = "sweep", !.live = {}, !.todo = T] \in Sweeps
           /\ [m EXCEPT !.todo = T] \in Sweeps
           /\ \A c \in Containers : [m EXCEPT !.pc = "remove", !.id = c, !.todo = T] \in Sweeps
           /\ [m EXCEPT !.pc = "sweep", !.id = NoBox] \in Sweeps
           /\ m.elapsed < ReapTimeout => [m EXCEPT !.elapsed = m.elapsed + 1] \in Sweeps
<1> USE FleetAssumption
<1>1. NoSweep \in Sweeps
  BY DEF Sweeps, NoSweep, Ids
<1>2. [m EXCEPT !.pc = "sweep", !.live = {}, !.todo = T] \in Sweeps
  BY DEF Sweeps, Ids
<1>3. [m EXCEPT !.todo = T] \in Sweeps
  BY DEF Sweeps, Ids
<1>4. ASSUME NEW c \in Containers
      PROVE  [m EXCEPT !.pc = "remove", !.id = c, !.todo = T] \in Sweeps
  BY DEF Sweeps, Ids
<1>5. [m EXCEPT !.pc = "sweep", !.id = NoBox] \in Sweeps
  BY DEF Sweeps, Ids
<1>6. ASSUME m.elapsed < ReapTimeout
      PROVE  [m EXCEPT !.elapsed = m.elapsed + 1] \in Sweeps
  <2>1. m.elapsed + 1 \in 0..ReapTimeout
    BY <1>6 DEF Sweeps
  <2> QED
    BY <2>1 DEF Sweeps
<1>7. \A L \in SUBSET Events : [m EXCEPT !.pc = "list", !.live = L] \in Sweeps
  BY DEF Sweeps, Ids
<1> QED
  BY <1>1, <1>2, <1>3, <1>4, <1>5, <1>6, <1>7

(* One step of each action. Every lemma has the same shape: the types,      *)
(* then the parts of the invariant the action leaves alone, then one step   *)
(* for each part that it could disturb.                                     *)

LEMMA DetectStep ==
    ASSUME NEW e \in Events, IndInv, Detect(e)
    PROVE  IndInv'
<1> USE FleetAssumption
<1>0. /\ TypeOK /\ RunsFollowRows /\ ReleasesAreOwed /\ ReleasesHoldTheirOwn
      /\ CallsHoldContainers /\ HistoryIsSound /\ SweepIsSound
      /\ ReaperSparesLive /\ FirstRunKeepsBrowser
  BY DEF IndInv
<1>1. TypeOK'
  <2>1. "warmup" \in RowStates
    BY <1>0 DEF Detect, TypeOK, RowStates
  <2> QED
    BY <1>0, <2>1 DEF Detect, TypeOK, Live
<1>2. /\ ReleasesHoldTheirOwn' /\ CallsHoldContainers' /\ SweepIsSound'
      /\ ReaperSparesLive' /\ FirstRunKeepsBrowser'
  BY <1>0 DEF Detect, ReleasesHoldTheirOwn, CallsHoldContainers, SweepIsSound, ReaperSparesLive,
     FirstRunKeepsBrowser
<1>3. RunsFollowRows'
  BY <1>0, <1>1 DEF Detect, RunsFollowRows, TypeOK, Live
<1>4. ReleasesAreOwed'
  BY <1>0, <1>1 DEF Detect, ReleasesAreOwed, TypeOK, Live, Releases
<1>5. HistoryIsSound'
  BY <1>0, <1>1 DEF Detect, HistoryIsSound, TypeOK, Live, Boxes
<1> QED
  BY <1>1, <1>2, <1>3, <1>4, <1>5 DEF IndInv

LEMMA ConfirmStep ==
    ASSUME NEW e \in Events, IndInv, Confirm(e)
    PROVE  IndInv'
<1> USE FleetAssumption
<1>0. /\ TypeOK /\ RunsFollowRows /\ ReleasesAreOwed /\ ReleasesHoldTheirOwn
      /\ CallsHoldContainers /\ HistoryIsSound /\ SweepIsSound
      /\ ReaperSparesLive /\ FirstRunKeepsBrowser
  BY DEF IndInv
<1>1. TypeOK'
  <2>1. "open" \in RowStates
    BY <1>0 DEF Confirm, TypeOK, RowStates
  <2>2. 1 \in 0..MaxRuns
    BY <1>0 DEF Confirm, TypeOK
  <2> QED
    BY <1>0, <2>1, <2>2 DEF Confirm, TypeOK, Live
<1>2. /\ ReleasesHoldTheirOwn' /\ CallsHoldContainers' /\ SweepIsSound'
      /\ ReaperSparesLive'
  BY <1>0 DEF Confirm, ReleasesHoldTheirOwn, CallsHoldContainers, SweepIsSound, ReaperSparesLive
<1>3. RunsFollowRows'
  BY <1>0, <1>1 DEF Confirm, RunsFollowRows, TypeOK, Live
<1>4. ReleasesAreOwed'
  <2> SUFFICES ASSUME NEW f \in Events, NEW k \in Callers, rel[f][k].pc # "idle"
               PROVE  /\ k = Poll => row'[f] = "removed"
                      /\ k # Poll => k <= run'[f] /\ (row'[f] \in {"closed", "removed"} \/ run'[f] > k)
    BY DEF Confirm, ReleasesAreOwed
  <2>1. f # e
    BY <1>0 DEF Confirm, TypeOK, ReleasesAreOwed, RunsFollowRows, Callers, Poll
  <2> QED
    BY <1>0, <2>1 DEF Confirm, TypeOK, ReleasesAreOwed
<1>5. HistoryIsSound'
  BY <1>0, <1>1 DEF Confirm, HistoryIsSound, TypeOK, Live, Boxes
<1>6. FirstRunKeepsBrowser'
  BY <1>0, <1>1 DEF Confirm, FirstRunKeepsBrowser, TypeOK, Live, RunsFollowRows, HistoryIsSound,
     Boxes
<1> QED
  BY <1>1, <1>2, <1>3, <1>4, <1>5, <1>6 DEF IndInv

LEMMA RemoveStep ==
    ASSUME NEW e \in Events, IndInv, Remove(e)
    PROVE  IndInv'
<1> USE FleetAssumption
<1>0. /\ TypeOK /\ RunsFollowRows /\ ReleasesAreOwed /\ ReleasesHoldTheirOwn
      /\ CallsHoldContainers /\ HistoryIsSound /\ SweepIsSound
      /\ ReaperSparesLive /\ FirstRunKeepsBrowser
  BY DEF IndInv
<1>1. TypeOK'
  <2>1. "removed" \in RowStates
    BY <1>0 DEF Remove, TypeOK, RowStates
  <2>2. Poll \in Callers
    BY <1>0 DEF Remove, TypeOK, Poll, Callers
  <2> QED
    BY <1>0, <2>1, <2>2, ReleaseTypes DEF Remove, TypeOK, Disown, Live
<1>2. CallsHoldContainers'
  BY <1>0 DEF Remove, CallsHoldContainers
<1>3. RunsFollowRows'
  BY <1>0, <1>1 DEF Remove, RunsFollowRows, TypeOK, Disown, Live
<1>4. ReleasesAreOwed'
  BY <1>0, <1>1 DEF Remove, ReleasesAreOwed, TypeOK, Due, NoRelease, Disown, Live, Releases
<1>5. ReleasesHoldTheirOwn'
  BY <1>0, <1>1 DEF Remove, ReleasesHoldTheirOwn, TypeOK, Due, NoRelease, Disown, Live, Boxes,
     Releases
<1>6. HistoryIsSound'
  BY <1>0, <1>1 DEF Remove, HistoryIsSound, TypeOK, Live, Disown, Boxes
<1>7. SweepIsSound'
  BY <1>0, <1>1 DEF Remove, SweepIsSound, TypeOK, Disown, Live, Boxes, Sweeps
<1>8. ReaperSparesLive'
  BY <1>0, <1>1 DEF Remove, ReaperSparesLive, TypeOK, Disown, Live, Sweeps
<1>9. FirstRunKeepsBrowser'
  BY <1>0, <1>1 DEF Remove, FirstRunKeepsBrowser, TypeOK, Disown, Live, Boxes
<1> QED
  BY <1>1, <1>2, <1>3, <1>4, <1>5, <1>6, <1>7, <1>8, <1>9 DEF IndInv

LEMMA FinalizeEventStep ==
    ASSUME NEW e \in Events, IndInv, FinalizeEvent(e)
    PROVE  IndInv'
<1> USE FleetAssumption
<1>0. /\ TypeOK /\ RunsFollowRows /\ ReleasesAreOwed /\ ReleasesHoldTheirOwn
      /\ CallsHoldContainers /\ HistoryIsSound /\ SweepIsSound
      /\ ReaperSparesLive /\ FirstRunKeepsBrowser
  BY DEF IndInv
<1>1. TypeOK'
  <2>1. "closed" \in RowStates
    BY <1>0 DEF FinalizeEvent, TypeOK, RowStates
  <2>2. run[e] \in Callers
    BY <1>0 DEF FinalizeEvent, TypeOK, Poll, Callers, RunsFollowRows
  <2> QED
    BY <1>0, <2>1, <2>2, ReleaseTypes DEF FinalizeEvent, TypeOK, Disown, Live
<1>2. CallsHoldContainers'
  BY <1>0 DEF FinalizeEvent, CallsHoldContainers
<1>3. RunsFollowRows'
  BY <1>0, <1>1 DEF FinalizeEvent, RunsFollowRows, TypeOK, Disown, Live
<1>4. ReleasesAreOwed'
  BY <1>0, <1>1 DEF FinalizeEvent, ReleasesAreOwed, TypeOK, Due, NoRelease, Disown, Live,
     RunsFollowRows, Callers, Poll, Releases
<1>5. ReleasesHoldTheirOwn'
  BY <1>0, <1>1 DEF FinalizeEvent, ReleasesHoldTheirOwn, TypeOK, Due, NoRelease, Disown, Live,
     Boxes, Releases
<1>6. HistoryIsSound'
  BY <1>0, <1>1 DEF FinalizeEvent, HistoryIsSound, TypeOK, Live, Disown, Boxes
<1>7. SweepIsSound'
  BY <1>0, <1>1 DEF FinalizeEvent, SweepIsSound, TypeOK, Disown, Live, Boxes, Sweeps
<1>8. ReaperSparesLive'
  BY <1>0, <1>1 DEF FinalizeEvent, ReaperSparesLive, TypeOK, Disown, Live, Sweeps
<1>9. FirstRunKeepsBrowser'
  BY <1>0, <1>1 DEF FinalizeEvent, FirstRunKeepsBrowser, TypeOK, Disown, Live, Boxes
<1> QED
  BY <1>1, <1>2, <1>3, <1>4, <1>5, <1>6, <1>7, <1>8, <1>9 DEF IndInv

LEMMA PrepareEventReplayStep ==
    ASSUME NEW e \in Events, IndInv, PrepareEventReplay(e)
    PROVE  IndInv'
<1> USE FleetAssumption
<1>0. /\ TypeOK /\ RunsFollowRows /\ ReleasesAreOwed /\ ReleasesHoldTheirOwn
      /\ CallsHoldContainers /\ HistoryIsSound /\ SweepIsSound
      /\ ReaperSparesLive /\ FirstRunKeepsBrowser
  BY DEF IndInv
<1>1. TypeOK'
  <2>1. "open" \in RowStates
    BY <1>0 DEF PrepareEventReplay, TypeOK, RowStates
  <2>2. Replayable(e) => run[e] + 1 \in 0..MaxRuns
    BY <1>0 DEF PrepareEventReplay, TypeOK, Replayable, RunsFollowRows
  <2>3. Attempt(e, 0) \in Calls
    <3>1. 0 \in 0..ProvisionAttempts
      OBVIOUS
    <3> QED
      BY <3>1, AttemptTypes
  <2>4. faults' \in 0..MaxFaults
    BY <1>0 DEF PrepareEventReplay, TypeOK, Fault
  <2>5. row' \in [Events -> RowStates] /\ run' \in [Events -> 0..MaxRuns]
    <3>1. CASE UNCHANGED <<row, run>>
      BY <1>0, <3>1 DEF TypeOK
    <3>2. CASE /\ Replayable(e) /\ row' = [row EXCEPT ![e] = "open"]
               /\ run' = [run EXCEPT ![e] = run[e] + 1]
      BY <1>0, <2>1, <2>2, <3>2 DEF TypeOK
    <3> QED
      BY <3>1, <3>2 DEF PrepareEventReplay
  <2>6. prov' \in [Clients -> Calls]
    BY <1>0, <2>3 DEF PrepareEventReplay, TypeOK, Clients
  <2> QED
    BY <1>0, <2>4, <2>5, <2>6 DEF PrepareEventReplay, TypeOK
<1>2. ReleasesHoldTheirOwn' /\ SweepIsSound' /\ ReaperSparesLive'
  BY <1>0 DEF PrepareEventReplay, ReleasesHoldTheirOwn, SweepIsSound, ReaperSparesLive
<1>3. RunsFollowRows'
  BY <1>0, <1>1 DEF PrepareEventReplay, RunsFollowRows, TypeOK, Replayable, AlreadyPrepared,
     Fault, Live
<1>4. ReleasesAreOwed'
  BY <1>0, <1>1 DEF PrepareEventReplay, ReleasesAreOwed, TypeOK, Replayable, AlreadyPrepared,
     Fault, Live, RunsFollowRows, Callers, Poll, Releases
<1>5. CallsHoldContainers'
  BY <1>0, <1>1 DEF PrepareEventReplay, CallsHoldContainers, TypeOK, Attempt, NoCall,
     Replayable, AlreadyPrepared, Fault, Live, Boxes, Calls
<1>6. HistoryIsSound'
  BY <1>0, <1>1 DEF PrepareEventReplay, HistoryIsSound, TypeOK, Live, Replayable,
     AlreadyPrepared, Fault, Boxes
<1>7. FirstRunKeepsBrowser'
  BY <1>0, <1>1 DEF PrepareEventReplay, FirstRunKeepsBrowser, TypeOK, Replayable,
     AlreadyPrepared, Fault, Live, HistoryIsSound, Boxes
<1> QED
  BY <1>1, <1>2, <1>3, <1>4, <1>5, <1>6, <1>7 DEF IndInv

LEMMA ProvisionFirefoxStep ==
    ASSUME NEW e \in Events, IndInv, ProvisionFirefox(e)
    PROVE  IndInv'
<1> USE FleetAssumption
<1>0. /\ TypeOK /\ RunsFollowRows /\ ReleasesAreOwed /\ ReleasesHoldTheirOwn
      /\ CallsHoldContainers /\ HistoryIsSound /\ SweepIsSound
      /\ ReaperSparesLive /\ FirstRunKeepsBrowser
  BY DEF IndInv
<1>1. TypeOK'
  <2>1. Attempt(e, 0) \in Calls
    <3>1. 0 \in 0..ProvisionAttempts
      OBVIOUS
    <3> QED
      BY <3>1, AttemptTypes
  <2> QED
    BY <1>0, <2>1 DEF ProvisionFirefox, TypeOK
<1>2. /\ RunsFollowRows' /\ ReleasesAreOwed' /\ ReleasesHoldTheirOwn'
      /\ HistoryIsSound' /\ SweepIsSound' /\ ReaperSparesLive'
      /\ FirstRunKeepsBrowser'
  BY <1>0 DEF ProvisionFirefox, RunsFollowRows, ReleasesAreOwed, ReleasesHoldTheirOwn,
     HistoryIsSound, SweepIsSound, ReaperSparesLive, FirstRunKeepsBrowser, Live
<1>3. CallsHoldContainers'
  BY <1>0, <1>1 DEF ProvisionFirefox, CallsHoldContainers, TypeOK, Attempt, NoCall, Boxes, Calls
<1> QED
  BY <1>1, <1>2, <1>3 DEF IndInv

LEMMA ProvisionFindStep ==
    ASSUME NEW p \in Clients, IndInv, ProvisionFind(p)
    PROVE  IndInv'
<1> USE FleetAssumption
<1>0. /\ TypeOK /\ RunsFollowRows /\ ReleasesAreOwed /\ ReleasesHoldTheirOwn
      /\ CallsHoldContainers /\ HistoryIsSound /\ SweepIsSound
      /\ ReaperSparesLive /\ FirstRunKeepsBrowser
  BY DEF IndInv
<1>1. TypeOK'
  <2>1. prov[p] \in Calls /\ prov[p].event \in Events
    BY <1>0 DEF ProvisionFind, TypeOK, CallsHoldContainers
  <2>2. NoCall \in Calls /\ [prov[p] EXCEPT !.pc = "wait"] \in Calls
    BY <1>0, CallTypes, <2>1 DEF ProvisionFind, TypeOK, CallsHoldContainers
  <2>3. \A c \in Containers : [prov[p] EXCEPT !.pc = "start", !.id = c] \in Calls
    BY <1>0, CallTypes, <2>1 DEF ProvisionFind, TypeOK, CallsHoldContainers
  <2>4. prov' \in [Clients -> Calls]
    <3>1. PICK m \in Calls : prov' = [prov EXCEPT ![p] = m]
      BY <2>2, <2>3 DEF ProvisionFind, Provisioned, Named
    <3> QED
      BY <1>0, <3>1 DEF TypeOK
  <2>5. handed' \in SUBSET Containers /\ started' \in SUBSET Events
    BY <1>0, <2>1 DEF ProvisionFind, Provisioned, TypeOK, Named
  <2> QED
    BY <1>0, <2>4, <2>5 DEF ProvisionFind, TypeOK
<1>2. /\ RunsFollowRows' /\ ReleasesAreOwed' /\ ReleasesHoldTheirOwn'
      /\ SweepIsSound' /\ ReaperSparesLive'
  <2>1. UNCHANGED <<row, run, box, rel, reap, kept>>
    BY DEF ProvisionFind
  <2> QED
    BY <1>0, <2>1 DEF RunsFollowRows, ReleasesAreOwed, ReleasesHoldTheirOwn,
       SweepIsSound, ReaperSparesLive
<1>3. CallsHoldContainers'
  <2> SUFFICES ASSUME NEW q \in Clients
               PROVE  /\ prov'[q].pc # "idle" => prov'[q].event \in Events
                      /\ prov'[q].pc = "start" => prov'[q].id \in Containers /\ box[prov'[q].id].state # "unused"
    BY DEF ProvisionFind, CallsHoldContainers
  <2>1. CASE q # p
    BY <1>0, <2>1 DEF ProvisionFind, Provisioned, TypeOK, CallsHoldContainers
  <2>2. CASE q = p
    <3>1. prov[p] \in Calls /\ prov[p].event \in Events
      BY <1>0 DEF ProvisionFind, TypeOK, CallsHoldContainers
    <3>2. CASE prov' = [prov EXCEPT ![p] = [@ EXCEPT !.pc = "wait"]]
      BY <1>0, <2>2, <3>1, <3>2 DEF TypeOK, Calls
    <3>3. CASE prov' = [prov EXCEPT ![p] = NoCall]
      BY <1>0, <2>2, <3>3 DEF TypeOK, NoCall
    <3>4. ASSUME NEW c \in Named(prov[p].event),
                 prov' = [prov EXCEPT ![p] = [@ EXCEPT !.pc = "start", !.id = c]]
          PROVE  prov'[q].event \in Events /\ prov'[q].id \in Containers /\ box[prov'[q].id].state # "unused"
      BY <1>0, <2>2, <3>1, <3>4 DEF TypeOK, Calls, Named, Exists
    <3> QED
      BY <3>2, <3>3, <3>4 DEF ProvisionFind, Provisioned
  <2> QED
    BY <2>1, <2>2
<1>4. HistoryIsSound'
  BY <1>0, <1>1 DEF ProvisionFind, HistoryIsSound, TypeOK, Live, Provisioned, Named, Exists, Boxes
<1>5. FirstRunKeepsBrowser'
  BY <1>0 DEF ProvisionFind, Provisioned, FirstRunKeepsBrowser
<1> QED
  BY <1>1, <1>2, <1>3, <1>4, <1>5 DEF IndInv

LEMMA WaitForSlotStep ==
    ASSUME NEW p \in Clients, IndInv, WaitForSlot(p)
    PROVE  IndInv'
<1> USE FleetAssumption
<1>0. /\ TypeOK /\ RunsFollowRows /\ ReleasesAreOwed /\ ReleasesHoldTheirOwn
      /\ CallsHoldContainers /\ HistoryIsSound /\ SweepIsSound
      /\ ReaperSparesLive /\ FirstRunKeepsBrowser
  BY DEF IndInv
<1>1. TypeOK'
  <2>1. prov[p] \in Calls
    BY <1>0 DEF WaitForSlot, TypeOK, CallsHoldContainers
  <2>2. [prov[p] EXCEPT !.pc = "create"] \in Calls
    BY <1>0, CallTypes, <2>1 DEF WaitForSlot, TypeOK, CallsHoldContainers
  <2> QED
    BY <1>0, <2>1, <2>2 DEF WaitForSlot, TypeOK
<1>2. /\ RunsFollowRows' /\ ReleasesAreOwed' /\ ReleasesHoldTheirOwn'
      /\ HistoryIsSound' /\ SweepIsSound' /\ ReaperSparesLive'
      /\ FirstRunKeepsBrowser'
  BY <1>0 DEF WaitForSlot, RunsFollowRows, ReleasesAreOwed, ReleasesHoldTheirOwn,
     HistoryIsSound, SweepIsSound, ReaperSparesLive, FirstRunKeepsBrowser, Live
<1>3. CallsHoldContainers'
  BY <1>0, <1>1 DEF WaitForSlot, CallsHoldContainers, TypeOK, Attempt, NoCall, Boxes, Calls
<1> QED
  BY <1>1, <1>2, <1>3 DEF IndInv

LEMMA ContainerCreateStep ==
    ASSUME NEW p \in Clients, IndInv, ContainerCreate(p)
    PROVE  IndInv'
<1> USE FleetAssumption
<1>0. /\ TypeOK /\ RunsFollowRows /\ ReleasesAreOwed /\ ReleasesHoldTheirOwn
      /\ CallsHoldContainers /\ HistoryIsSound /\ SweepIsSound
      /\ ReaperSparesLive /\ FirstRunKeepsBrowser
  BY DEF IndInv
<1>1. TypeOK'
  <2>1. prov[p] \in Calls /\ prov[p].event \in Events
    BY <1>0 DEF ContainerCreate, TypeOK, CallsHoldContainers
  <2>2. \A c \in Containers : [prov[p] EXCEPT !.pc = "start", !.id = c] \in Calls
    BY <1>0, CallTypes, <2>1 DEF ContainerCreate, TypeOK, CallsHoldContainers
  <2>3. [event |-> prov[p].event, age |-> 0, state |-> "created"] \in Boxes
    BY <1>0, <2>1 DEF ContainerCreate, TypeOK, Boxes, CallsHoldContainers
  <2>4. PICK c \in Containers :
           /\ box[c].state = "unused"
           /\ box' = [box EXCEPT ![c] = [event |-> prov[p].event, age |-> 0, state |-> "created"]]
           /\ prov' = [prov EXCEPT ![p] = [@ EXCEPT !.pc = "start", !.id = c]]
           /\ kept' = IF Live(prov[p].event) THEN kept \cup {c} ELSE kept
    BY DEF ContainerCreate
  <2>5. box' \in [Containers -> Boxes] /\ prov' \in [Clients -> Calls]
    BY <1>0, <2>2, <2>3, <2>4 DEF TypeOK
  <2>6. kept' \in SUBSET Containers
    BY <1>0, <2>4 DEF TypeOK
  <2> QED
    BY <1>0, <2>5, <2>6 DEF ContainerCreate, TypeOK
<1>2. RunsFollowRows' /\ ReleasesAreOwed'
  BY <1>0 DEF ContainerCreate, RunsFollowRows, ReleasesAreOwed
<1>3. ReleasesHoldTheirOwn'
  BY <1>0, <1>1 DEF ContainerCreate, ReleasesHoldTheirOwn, TypeOK, Live, Boxes, Releases
<1>4. CallsHoldContainers'
  BY <1>0, <1>1 DEF ContainerCreate, CallsHoldContainers, TypeOK, Attempt, NoCall, Live, Boxes,
     Calls
<1>5. HistoryIsSound'
  <2>1. PICK c \in Containers :
           /\ box[c].state = "unused"
           /\ box' = [box EXCEPT ![c] = [event |-> prov[p].event, age |-> 0, state |-> "created"]]
           /\ prov' = [prov EXCEPT ![p] = [@ EXCEPT !.pc = "start", !.id = c]]
           /\ kept' = IF Live(prov[p].event) THEN kept \cup {c} ELSE kept
    BY DEF ContainerCreate
  <2>2. \A d \in kept : d \in Containers /\ d # c /\ box'[d] = box[d]
    BY <1>0, <2>1 DEF TypeOK, HistoryIsSound
  <2>3. prov[p].event \in Events
    BY <1>0 DEF ContainerCreate, CallsHoldContainers
  <2>4. box'[c].event = prov[p].event /\ box'[c].state = "created"
    BY <1>0, <2>1 DEF TypeOK
  <2>5. handed' = handed /\ row' = row
    BY DEF ContainerCreate
  <2> QED
    BY <1>0, <2>1, <2>2, <2>3, <2>4, <2>5 DEF HistoryIsSound, Live
<1>6. SweepIsSound'
  BY <1>0, <1>1 DEF ContainerCreate, SweepIsSound, TypeOK, Live, Boxes, Sweeps
<1>7. ReaperSparesLive'
  <2>1. PICK c \in Containers :
           /\ box[c].state = "unused"
           /\ box' = [box EXCEPT ![c] = [event |-> prov[p].event, age |-> 0, state |-> "created"]]
           /\ prov' = [prov EXCEPT ![p] = [@ EXCEPT !.pc = "start", !.id = c]]
           /\ kept' = IF Live(prov[p].event) THEN kept \cup {c} ELSE kept
    BY DEF ContainerCreate
  <2>2. c \notin reap.todo /\ c # reap.id
    BY <1>0, <2>1 DEF TypeOK, SweepIsSound, NoBox, Containers
  <2> QED
    BY <1>0, <2>1, <2>2 DEF ContainerCreate, ReaperSparesLive
<1>8. FirstRunKeepsBrowser'
  BY <1>0, <1>1 DEF ContainerCreate, FirstRunKeepsBrowser, TypeOK, Live, HistoryIsSound, Boxes
<1> QED
  BY <1>1, <1>2, <1>3, <1>4, <1>5, <1>6, <1>7, <1>8 DEF IndInv

LEMMA ContainerStartStep ==
    ASSUME NEW p \in Clients, IndInv, ContainerStart(p)
    PROVE  IndInv'
<1> USE FleetAssumption
<1>0. /\ TypeOK /\ RunsFollowRows /\ ReleasesAreOwed /\ ReleasesHoldTheirOwn
      /\ CallsHoldContainers /\ HistoryIsSound /\ SweepIsSound
      /\ ReaperSparesLive /\ FirstRunKeepsBrowser
  BY DEF IndInv
<1>1. TypeOK'
  <2>1. prov[p] \in Calls /\ prov[p].event \in Events /\ prov[p].id \in Containers
    BY <1>0 DEF ContainerStart, TypeOK, CallsHoldContainers
  <2>2. [box[prov[p].id] EXCEPT !.state = "running"] \in Boxes
    BY <1>0, BoxTypes, <2>1 DEF ContainerStart, TypeOK, CallsHoldContainers
  <2>3. NoCall \in Calls
    BY CallTypes
  <2>4. prov[p].tries + 1 < ProvisionAttempts => Attempt(prov[p].event, prov[p].tries + 1) \in Calls
    <3>1. prov[p].tries \in 0..ProvisionAttempts
      BY <2>1 DEF Calls
    <3>2. prov[p].tries + 1 < ProvisionAttempts => prov[p].tries + 1 \in 0..ProvisionAttempts
      BY <3>1
    <3> QED
      BY <2>1, <3>2, AttemptTypes
  <2> QED
    BY <1>0, <2>1, <2>2, <2>3, <2>4 DEF ContainerStart, TypeOK, Provisioned, Retry, Fault, Exists
<1>2. RunsFollowRows' /\ ReleasesAreOwed' /\ ReaperSparesLive'
  BY <1>0 DEF ContainerStart, RunsFollowRows, ReleasesAreOwed, ReaperSparesLive
<1>3. ReleasesHoldTheirOwn'
  BY <1>0, <1>1 DEF ContainerStart, ReleasesHoldTheirOwn, TypeOK, Provisioned, Retry, Fault,
     Exists, Boxes, Releases
<1>4. CallsHoldContainers'
  <2>1. \A c \in Containers : box[c].state # "unused" => box'[c].state # "unused"
    BY <1>0 DEF ContainerStart, TypeOK, Boxes
  <2>2. \A q \in Clients : q # p => prov'[q] = prov[q]
    BY <1>0 DEF ContainerStart, Provisioned, Retry, TypeOK
  <2>3. prov'[p] = NoCall \/ prov'[p] = Attempt(prov[p].event, prov[p].tries + 1)
    BY <1>0 DEF ContainerStart, Provisioned, Retry, TypeOK
  <2>4. prov'[p].pc # "start" /\ (prov'[p].pc # "idle" => prov'[p].event = prov[p].event)
    BY <2>3 DEF NoCall, Attempt
  <2>5. prov[p].event \in Events
    BY <1>0 DEF ContainerStart, CallsHoldContainers
  <2> QED
    BY <1>0, <2>1, <2>2, <2>4, <2>5 DEF CallsHoldContainers
<1>5. HistoryIsSound'
  BY <1>0, <1>1 DEF ContainerStart, HistoryIsSound, TypeOK, Live, Provisioned, Retry, Fault,
     Exists, Boxes
<1>6. SweepIsSound'
  BY <1>0, <1>1 DEF ContainerStart, SweepIsSound, TypeOK, Provisioned, Retry, Fault, Exists,
     Boxes, Sweeps
<1>7. FirstRunKeepsBrowser'
  BY <1>0, <1>1 DEF ContainerStart, FirstRunKeepsBrowser, TypeOK, Provisioned, Retry, Fault,
     Exists, Boxes
<1> QED
  BY <1>1, <1>2, <1>3, <1>4, <1>5, <1>6, <1>7 DEF IndInv

LEMMA ProvisionFailsStep ==
    ASSUME NEW p \in Clients, IndInv, ProvisionFails(p)
    PROVE  IndInv'
<1> USE FleetAssumption
<1>0. /\ TypeOK /\ RunsFollowRows /\ ReleasesAreOwed /\ ReleasesHoldTheirOwn
      /\ CallsHoldContainers /\ HistoryIsSound /\ SweepIsSound
      /\ ReaperSparesLive /\ FirstRunKeepsBrowser
  BY DEF IndInv
<1>1. TypeOK'
  <2>1. prov[p] \in Calls /\ prov[p].event \in Events
    BY <1>0 DEF ProvisionFails, TypeOK, CallsHoldContainers
  <2>2. NoCall \in Calls
    BY CallTypes
  <2>3. prov[p].tries + 1 < ProvisionAttempts => Attempt(prov[p].event, prov[p].tries + 1) \in Calls
    <3>1. prov[p].tries \in 0..ProvisionAttempts
      BY <2>1 DEF Calls
    <3>2. prov[p].tries + 1 < ProvisionAttempts => prov[p].tries + 1 \in 0..ProvisionAttempts
      BY <3>1
    <3> QED
      BY <2>1, <3>2, AttemptTypes
  <2> QED
    BY <1>0, <2>1, <2>2, <2>3 DEF ProvisionFails, TypeOK, Retry, Fault
<1>2. /\ RunsFollowRows' /\ ReleasesAreOwed' /\ ReleasesHoldTheirOwn'
      /\ HistoryIsSound' /\ SweepIsSound' /\ ReaperSparesLive'
      /\ FirstRunKeepsBrowser'
  BY <1>0 DEF ProvisionFails, RunsFollowRows, ReleasesAreOwed, ReleasesHoldTheirOwn,
     HistoryIsSound, SweepIsSound, ReaperSparesLive, FirstRunKeepsBrowser, Live
<1>3. CallsHoldContainers'
  BY <1>0, <1>1 DEF ProvisionFails, CallsHoldContainers, TypeOK, Attempt, NoCall, Retry, Fault,
     Boxes, Calls
<1> QED
  BY <1>1, <1>2, <1>3 DEF IndInv

LEMMA ReleaseFindStep ==
    ASSUME NEW e \in Events, NEW k \in Callers, IndInv, ReleaseFind(e, k)
    PROVE  IndInv'
<1> USE FleetAssumption
<1>0. /\ TypeOK /\ RunsFollowRows /\ ReleasesAreOwed /\ ReleasesHoldTheirOwn
      /\ CallsHoldContainers /\ HistoryIsSound /\ SweepIsSound
      /\ ReaperSparesLive /\ FirstRunKeepsBrowser
  BY DEF IndInv
<1>1. TypeOK'
  <2>1. PICK r \in Releases : rel' = [rel EXCEPT ![e][k] = r]
    BY ReleaseTypes DEF ReleaseFind, Named
  <2>2. rel' \in [Events -> [Callers -> Releases]]
    BY <1>0, <2>1 DEF TypeOK
  <2> QED
    BY <1>0, <2>2 DEF ReleaseFind, TypeOK
<1>2. /\ RunsFollowRows' /\ CallsHoldContainers' /\ HistoryIsSound'
      /\ SweepIsSound' /\ ReaperSparesLive' /\ FirstRunKeepsBrowser'
  BY <1>0 DEF ReleaseFind, RunsFollowRows, CallsHoldContainers, HistoryIsSound, SweepIsSound,
     ReaperSparesLive, FirstRunKeepsBrowser, Live
<1>3. ReleasesAreOwed'
  <2>1. \A f \in Events : \A j \in Callers : rel'[f][j].pc # "idle" => rel[f][j].pc # "idle"
    <3>1. ASSUME NEW f \in Events, NEW j \in Callers, ~(f = e /\ j = k)
          PROVE  rel'[f][j] = rel[f][j]
      BY <1>0, <3>1 DEF ReleaseFind, TypeOK
    <3> QED
      BY <3>1 DEF ReleaseFind
  <2>2. UNCHANGED <<row, run>>
    BY DEF ReleaseFind
  <2> QED
    BY <1>0, <2>1, <2>2 DEF ReleasesAreOwed
<1>4. ReleasesHoldTheirOwn'
  <2> SUFFICES ASSUME NEW f \in Events, NEW j \in Callers, rel'[f][j].pc \in {"stop", "remove"}
               PROVE  /\ rel'[f][j].id \in Containers
                      /\ box[rel'[f][j].id].event = f /\ box[rel'[f][j].id].state # "unused"
    BY DEF ReleaseFind, ReleasesHoldTheirOwn
  <2>1. CASE f = e /\ j = k
    <3>1. rel[e] \in [Callers -> Releases]
      BY <1>0 DEF TypeOK
    <3>2. ASSUME rel' = [rel EXCEPT ![e][k] = NoRelease]
          PROVE  FALSE
      BY <1>0, <2>1, <3>1, <3>2 DEF TypeOK, NoRelease
    <3>3. ASSUME NEW c \in Named(e), rel' = [rel EXCEPT ![e][k] = [pc |-> "stop", id |-> c]]
          PROVE  rel'[e][k].id = c
      BY <1>0, <3>1, <3>3 DEF TypeOK
    <3>4. PICK c \in Named(e) : rel'[e][k].id = c
      BY <2>1, <3>2, <3>3 DEF ReleaseFind
    <3> QED
      BY <2>1, <3>4 DEF Named, Exists
  <2>2. CASE ~(f = e /\ j = k)
    <3>1. rel'[f][j] = rel[f][j]
      BY <1>0, <2>2 DEF ReleaseFind, TypeOK
    <3> QED
      BY <1>0, <3>1 DEF ReleasesHoldTheirOwn
  <2> QED
    BY <2>1, <2>2
<1> QED
  BY <1>1, <1>2, <1>3, <1>4 DEF IndInv

LEMMA ReleaseStopStep ==
    ASSUME NEW e \in Events, NEW k \in Callers, IndInv, ReleaseStop(e, k)
    PROVE  IndInv'
<1> USE FleetAssumption
<1>0. /\ TypeOK /\ RunsFollowRows /\ ReleasesAreOwed /\ ReleasesHoldTheirOwn
      /\ CallsHoldContainers /\ HistoryIsSound /\ SweepIsSound
      /\ ReaperSparesLive /\ FirstRunKeepsBrowser
  BY DEF IndInv
<1>1. TypeOK'
  <2>1. rel[e][k].id \in Containers /\ box[rel[e][k].id] \in Boxes
    BY <1>0 DEF ReleaseStop, TypeOK, ReleasesHoldTheirOwn
  <2>2. Stopped(rel[e][k].id) \in Boxes
    BY <2>1, BoxTypes DEF Stopped
  <2> QED
    BY <1>0, <2>1, <2>2, ReleaseTypes DEF ReleaseStop, TypeOK
<1>2. RunsFollowRows' /\ ReaperSparesLive'
  BY <1>0 DEF ReleaseStop, RunsFollowRows, ReaperSparesLive
<1>3. \A f \in Events : \A j \in Callers :
        IF f = e /\ j = k THEN rel'[f][j] = [pc |-> "remove", id |-> rel[e][k].id]
                         ELSE rel'[f][j] = rel[f][j]
  BY <1>0 DEF ReleaseStop, TypeOK
<1>4. \A c \in Containers :
        /\ box'[c].event = box[c].event /\ box'[c].age = box[c].age
        /\ box[c].state # "unused" => box'[c].state # "unused"
  BY <1>0 DEF ReleaseStop, Stopped, TypeOK, Boxes
<1>5. ReleasesAreOwed' /\ ReleasesHoldTheirOwn'
  <2>1. \A f \in Events : \A j \in Callers :
          /\ rel'[f][j].pc # "idle" => rel[f][j].pc # "idle"
          /\ rel'[f][j].pc \in {"stop", "remove"} =>
               rel[f][j].pc \in {"stop", "remove"} /\ rel'[f][j].id = rel[f][j].id
    BY <1>3 DEF ReleaseStop
  <2>2. ReleasesAreOwed'
    BY <1>0, <2>1 DEF ReleaseStop, ReleasesAreOwed
  <2>3. ReleasesHoldTheirOwn'
    BY <1>0, <1>4, <2>1 DEF ReleasesHoldTheirOwn
  <2> QED
    BY <2>2, <2>3
<1>6. CallsHoldContainers' /\ HistoryIsSound'
  BY <1>0, <1>4 DEF ReleaseStop, CallsHoldContainers, HistoryIsSound, TypeOK, Live
<1>7. SweepIsSound'
  BY <1>0, <1>4 DEF ReleaseStop, SweepIsSound, TypeOK, Sweeps
<1>8. FirstRunKeepsBrowser'
  <2> SUFFICES ASSUME NEW c \in handed, run[box[c].event] <= 1
               PROVE  c \in Containers /\ c # rel[e][k].id
    BY <1>0 DEF ReleaseStop, FirstRunKeepsBrowser, TypeOK, ReleasesHoldTheirOwn, Stopped, Boxes
  <2>1. c \in kept /\ c \in Containers /\ row[box[c].event] \in {"warmup", "open"} /\ box[c].event \in Events
    BY <1>0 DEF HistoryIsSound, TypeOK, Live
  <2>2. ASSUME box[c].event = e
        PROVE  FALSE
    <3>1. /\ k = Poll => row[e] = "removed"
          /\ k # Poll => k <= run[e] /\ (row[e] \in {"closed", "removed"} \/ run[e] > k)
      BY <1>0 DEF ReleaseStop, ReleasesAreOwed
    <3>2. k # Poll /\ run[e] > k /\ run[e] <= 1
      BY <2>1, <2>2, <3>1
    <3> QED
      BY <1>0, <3>2 DEF TypeOK, Callers, Poll
  <2> QED
    BY <1>0, <2>1, <2>2 DEF ReleaseStop, ReleasesHoldTheirOwn
<1> QED
  BY <1>1, <1>2, <1>5, <1>6, <1>7, <1>8 DEF IndInv

LEMMA ReleaseRemoveStep ==
    ASSUME NEW e \in Events, NEW k \in Callers, IndInv, ReleaseRemove(e, k)
    PROVE  IndInv'
<1> USE FleetAssumption
<1>0. /\ TypeOK /\ RunsFollowRows /\ ReleasesAreOwed /\ ReleasesHoldTheirOwn
      /\ CallsHoldContainers /\ HistoryIsSound /\ SweepIsSound
      /\ ReaperSparesLive /\ FirstRunKeepsBrowser
  BY DEF IndInv
<1>1. TypeOK'
  <2>1. rel[e][k].id \in Containers
    BY <1>0 DEF ReleaseRemove, TypeOK, ReleasesHoldTheirOwn
  <2>2. Removed(rel[e][k].id) \in Boxes
    BY <1>0, BoxTypes, <2>1 DEF ReleaseRemove, TypeOK, Removed, ReleasesHoldTheirOwn
  <2> QED
    BY <1>0, <2>1, <2>2, ReleaseTypes DEF ReleaseRemove, TypeOK
<1>2. RunsFollowRows' /\ ReaperSparesLive'
  BY <1>0 DEF ReleaseRemove, RunsFollowRows, ReaperSparesLive
<1>3. ReleasesAreOwed'
  BY <1>0, <1>1 DEF ReleaseRemove, ReleasesAreOwed, TypeOK, Due, NoRelease, Removed, Releases
<1>4. ReleasesHoldTheirOwn'
  BY <1>0, <1>1 DEF ReleaseRemove, ReleasesHoldTheirOwn, TypeOK, Due, NoRelease, Removed, Boxes,
     Releases
<1>5. CallsHoldContainers'
  BY <1>0, <1>1 DEF ReleaseRemove, CallsHoldContainers, TypeOK, Removed, Boxes, Calls
<1>6. HistoryIsSound'
  BY <1>0, <1>1 DEF ReleaseRemove, HistoryIsSound, TypeOK, Live, Removed, Boxes
<1>7. SweepIsSound'
  BY <1>0, <1>1 DEF ReleaseRemove, SweepIsSound, TypeOK, Removed, Boxes, Sweeps
<1>8. FirstRunKeepsBrowser'
  BY <1>0, <1>1 DEF ReleaseRemove, FirstRunKeepsBrowser, TypeOK, Removed, HistoryIsSound, Live,
     ReleasesAreOwed, ReleasesHoldTheirOwn, RunsFollowRows, Callers, Poll, Boxes
<1> QED
  BY <1>1, <1>2, <1>3, <1>4, <1>5, <1>6, <1>7, <1>8 DEF IndInv

LEMMA ReleaseFailsStep ==
    ASSUME NEW e \in Events, NEW k \in Callers, IndInv, ReleaseFails(e, k)
    PROVE  IndInv'
<1> USE FleetAssumption
<1>0. /\ TypeOK /\ RunsFollowRows /\ ReleasesAreOwed /\ ReleasesHoldTheirOwn
      /\ CallsHoldContainers /\ HistoryIsSound /\ SweepIsSound
      /\ ReaperSparesLive /\ FirstRunKeepsBrowser
  BY DEF IndInv
<1>1. TypeOK'
  <2> QED
    BY <1>0, ReleaseTypes DEF ReleaseFails, TypeOK, Fault
<1>2. /\ RunsFollowRows' /\ CallsHoldContainers' /\ HistoryIsSound'
      /\ SweepIsSound' /\ ReaperSparesLive' /\ FirstRunKeepsBrowser'
  BY <1>0 DEF ReleaseFails, RunsFollowRows, CallsHoldContainers, HistoryIsSound, SweepIsSound,
     ReaperSparesLive, FirstRunKeepsBrowser, Live
<1>3. ReleasesAreOwed'
  BY <1>0, <1>1 DEF ReleaseFails, ReleasesAreOwed, TypeOK, Due, NoRelease, Fault, Releases
<1>4. ReleasesHoldTheirOwn'
  BY <1>0, <1>1 DEF ReleaseFails, ReleasesHoldTheirOwn, TypeOK, Due, NoRelease, Fault, Boxes,
     Releases
<1> QED
  BY <1>1, <1>2, <1>3, <1>4 DEF IndInv

LEMMA ReapOwnersStep ==
    ASSUME IndInv, ReapOwners
    PROVE  IndInv'
<1> USE FleetAssumption
<1>0. /\ TypeOK /\ RunsFollowRows /\ ReleasesAreOwed /\ ReleasesHoldTheirOwn
      /\ CallsHoldContainers /\ HistoryIsSound /\ SweepIsSound
      /\ ReaperSparesLive /\ FirstRunKeepsBrowser
  BY DEF IndInv
<1>1. TypeOK'
  <2>1. NoSweep \in Sweeps /\ reap' \in Sweeps
    BY <1>0, SweepTypes DEF ReapOwners, TypeOK, LiveEvents
  <2> QED
    BY <1>0, <2>1 DEF ReapOwners, TypeOK, LiveEvents, Live
<1>2. /\ RunsFollowRows' /\ ReleasesAreOwed' /\ ReleasesHoldTheirOwn'
      /\ CallsHoldContainers' /\ HistoryIsSound' /\ FirstRunKeepsBrowser'
  BY <1>0 DEF ReapOwners, RunsFollowRows, ReleasesAreOwed, ReleasesHoldTheirOwn,
     CallsHoldContainers, HistoryIsSound, FirstRunKeepsBrowser, Live
<1>3. SweepIsSound'
  <2>1. /\ reap'.pc = "list" /\ reap'.live = LiveEvents
        /\ reap'.todo = {} /\ reap'.id = NoBox
    BY DEF ReapOwners, NoSweep
  <2>2. \A c \in kept : box[c].event \in LiveEvents
    BY <1>0 DEF HistoryIsSound, LiveEvents
  <2> QED
    BY <2>1, <2>2 DEF ReapOwners, SweepIsSound
<1>4. ReaperSparesLive'
  <2>1. reap'.todo = {} /\ reap'.id = NoBox
    BY DEF ReapOwners, NoSweep
  <2> QED
    BY <1>0, <2>1 DEF ReapOwners, ReaperSparesLive, TypeOK, NoBox, Containers
<1> QED
  BY <1>1, <1>2, <1>3, <1>4 DEF IndInv

LEMMA ReapListStep ==
    ASSUME IndInv, ReapList
    PROVE  IndInv'
<1> USE FleetAssumption
<1>0. /\ TypeOK /\ RunsFollowRows /\ ReleasesAreOwed /\ ReleasesHoldTheirOwn
      /\ CallsHoldContainers /\ HistoryIsSound /\ SweepIsSound
      /\ ReaperSparesLive /\ FirstRunKeepsBrowser
  BY DEF IndInv
<1>1. TypeOK'
  <2>1. reap' \in Sweeps
    BY <1>0, SweepTypes DEF ReapList, TypeOK, ListInstances, IsOrphan
  <2> QED
    BY <1>0, <2>1 DEF ReapList, TypeOK, ListInstances, IsOrphan, Exists
<1>2. /\ RunsFollowRows' /\ ReleasesAreOwed' /\ ReleasesHoldTheirOwn'
      /\ CallsHoldContainers' /\ HistoryIsSound' /\ FirstRunKeepsBrowser'
  BY <1>0 DEF ReapList, RunsFollowRows, ReleasesAreOwed, ReleasesHoldTheirOwn,
     CallsHoldContainers, HistoryIsSound, FirstRunKeepsBrowser, Live
<1>3. SweepIsSound'
  BY <1>0, <1>1 DEF ReapList, SweepIsSound, TypeOK, NoSweep, ListInstances, IsOrphan, Exists,
     Boxes, Sweeps
<1>4. ReaperSparesLive'
  <2>1. /\ reap'.todo = {c \in ListInstances : IsOrphan(c)}
        /\ reap'.id = NoBox
    BY <1>0 DEF ReapList, TypeOK, Sweeps, SweepIsSound
  <2>2. ASSUME NEW c \in kept, IsOrphan(c)
        PROVE  FALSE
    <3>1. box[c].age <= reap.elapsed
      BY <1>0, <2>2 DEF ReapList, SweepIsSound, IsOrphan
    <3>2. box[c].age \in 0..MinAge /\ reap.elapsed \in 0..ReapTimeout
      BY <1>0 DEF TypeOK, Boxes, Sweeps
    <3> QED
      BY <2>2, <3>1, <3>2 DEF IsOrphan
  <2> QED
    BY <1>0, <2>1, <2>2 DEF ReapList, ReaperSparesLive, TypeOK, NoBox, Containers
<1> QED
  BY <1>1, <1>2, <1>3, <1>4 DEF IndInv

LEMMA ReapStopStep ==
    ASSUME NEW c \in Containers, IndInv, ReapStop(c)
    PROVE  IndInv'
<1> USE FleetAssumption
<1>0. /\ TypeOK /\ RunsFollowRows /\ ReleasesAreOwed /\ ReleasesHoldTheirOwn
      /\ CallsHoldContainers /\ HistoryIsSound /\ SweepIsSound
      /\ ReaperSparesLive /\ FirstRunKeepsBrowser
  BY DEF IndInv
<1>1. TypeOK'
  <2>1. reap.todo \ {c} \in SUBSET Containers
    BY <1>0 DEF ReapStop, TypeOK, Sweeps
  <2>2. reap' \in Sweeps
    BY <1>0, SweepTypes, <2>1 DEF ReapStop, TypeOK, Target
  <2>3. Stopped(c) \in Boxes
    BY <1>0, BoxTypes DEF ReapStop, TypeOK, Stopped
  <2> QED
    BY <1>0, <2>1, <2>2, <2>3 DEF ReapStop, TypeOK, Target, Exists
<1>2. RunsFollowRows' /\ ReleasesAreOwed'
  BY <1>0 DEF ReapStop, RunsFollowRows, ReleasesAreOwed
<1>3. ReleasesHoldTheirOwn'
  BY <1>0, <1>1 DEF ReapStop, ReleasesHoldTheirOwn, TypeOK, Target, Stopped, Exists, Boxes, Releases
<1>4. CallsHoldContainers'
  BY <1>0, <1>1 DEF ReapStop, CallsHoldContainers, TypeOK, Target, Stopped, Exists, Boxes, Calls
<1>5. HistoryIsSound'
  BY <1>0, <1>1 DEF ReapStop, HistoryIsSound, TypeOK, Live, Target, Stopped, Exists, Boxes
<1>6. SweepIsSound'
  BY <1>0, <1>1 DEF ReapStop, SweepIsSound, TypeOK, NoSweep, Target, Stopped, Exists, Boxes, Sweeps
<1>7. ReaperSparesLive'
  BY <1>0, <1>1 DEF ReapStop, ReaperSparesLive, TypeOK, NoSweep, Target, Stopped, Exists, Sweeps
<1>8. FirstRunKeepsBrowser'
  BY <1>0, <1>1 DEF ReapStop, FirstRunKeepsBrowser, TypeOK, Target, Stopped, Exists,
     HistoryIsSound, Live, ReaperSparesLive, Boxes
<1> QED
  BY <1>1, <1>2, <1>3, <1>4, <1>5, <1>6, <1>7, <1>8 DEF IndInv

LEMMA ReapRemoveStep ==
    ASSUME IndInv, ReapRemove
    PROVE  IndInv'
<1> USE FleetAssumption
<1>0. /\ TypeOK /\ RunsFollowRows /\ ReleasesAreOwed /\ ReleasesHoldTheirOwn
      /\ CallsHoldContainers /\ HistoryIsSound /\ SweepIsSound
      /\ ReaperSparesLive /\ FirstRunKeepsBrowser
  BY DEF IndInv
<1>1. TypeOK'
  <2>1. reap' \in Sweeps
    BY <1>0, SweepTypes DEF ReapRemove, TypeOK
  <2>2. reap.id \in Containers
    BY <1>0 DEF ReapRemove, TypeOK, SweepIsSound
  <2>3. Removed(reap.id) \in Boxes
    BY <1>0, BoxTypes, <2>2 DEF ReapRemove, TypeOK, Removed, SweepIsSound
  <2> QED
    BY <1>0, <2>1, <2>2, <2>3 DEF ReapRemove, TypeOK, Fault
<1>2. RunsFollowRows' /\ ReleasesAreOwed'
  BY <1>0 DEF ReapRemove, RunsFollowRows, ReleasesAreOwed
<1>3. ReleasesHoldTheirOwn'
  <2>1. reap.id \in Containers
    BY <1>0 DEF ReapRemove, SweepIsSound
  <2>2. \A c \in Containers :
          box'[c].event = box[c].event /\ (box[c].state # "unused" => box'[c].state # "unused")
    BY <1>0, <2>1 DEF ReapRemove, Removed, TypeOK
  <2> QED
    BY <1>0, <2>2 DEF ReapRemove, ReleasesHoldTheirOwn
<1>4. CallsHoldContainers'
  BY <1>0, <1>1 DEF ReapRemove, CallsHoldContainers, TypeOK, Removed, Fault, Boxes, Calls
<1>5. HistoryIsSound'
  BY <1>0, <1>1 DEF ReapRemove, HistoryIsSound, TypeOK, Live, Removed, Fault, Boxes
<1>6. SweepIsSound'
  BY <1>0, <1>1 DEF ReapRemove, SweepIsSound, TypeOK, NoSweep, Removed, Fault, Boxes, Sweeps
<1>7. ReaperSparesLive'
  BY <1>0, <1>1 DEF ReapRemove, ReaperSparesLive, TypeOK, NoSweep, Removed, Fault, NoBox,
     Containers, Sweeps
<1>8. FirstRunKeepsBrowser'
  BY <1>0, <1>1 DEF ReapRemove, FirstRunKeepsBrowser, TypeOK, Removed, Fault, HistoryIsSound,
     Live, ReaperSparesLive, Boxes
<1> QED
  BY <1>1, <1>2, <1>3, <1>4, <1>5, <1>6, <1>7, <1>8 DEF IndInv

LEMMA ReapEndStep ==
    ASSUME IndInv, ReapEnd
    PROVE  IndInv'
<1> USE FleetAssumption
<1>0. /\ TypeOK /\ RunsFollowRows /\ ReleasesAreOwed /\ ReleasesHoldTheirOwn
      /\ CallsHoldContainers /\ HistoryIsSound /\ SweepIsSound
      /\ ReaperSparesLive /\ FirstRunKeepsBrowser
  BY DEF IndInv
<1>1. TypeOK'
  <2>1. reap' \in Sweeps
    BY <1>0, SweepTypes DEF ReapEnd, TypeOK
  <2> QED
    BY <1>0, <2>1 DEF ReapEnd, TypeOK
<1>2. /\ RunsFollowRows' /\ ReleasesAreOwed' /\ ReleasesHoldTheirOwn'
      /\ CallsHoldContainers' /\ HistoryIsSound' /\ FirstRunKeepsBrowser'
  BY <1>0 DEF ReapEnd, RunsFollowRows, ReleasesAreOwed, ReleasesHoldTheirOwn,
     CallsHoldContainers, HistoryIsSound, FirstRunKeepsBrowser, Live
<1>3. SweepIsSound'
  BY <1>0, <1>1 DEF ReapEnd, SweepIsSound, TypeOK, NoSweep, Boxes, Sweeps
<1>4. ReaperSparesLive'
  BY <1>0, <1>1 DEF ReapEnd, ReaperSparesLive, TypeOK, NoSweep, NoBox, Containers, Sweeps
<1> QED
  BY <1>1, <1>2, <1>3, <1>4 DEF IndInv

LEMMA ReapFailsStep ==
    ASSUME IndInv, ReapFails
    PROVE  IndInv'
<1> USE FleetAssumption
<1>0. /\ TypeOK /\ RunsFollowRows /\ ReleasesAreOwed /\ ReleasesHoldTheirOwn
      /\ CallsHoldContainers /\ HistoryIsSound /\ SweepIsSound
      /\ ReaperSparesLive /\ FirstRunKeepsBrowser
  BY DEF IndInv
<1>1. TypeOK'
  <2>1. reap' \in Sweeps
    BY <1>0, SweepTypes DEF ReapFails, TypeOK
  <2> QED
    BY <1>0, <2>1 DEF ReapFails, TypeOK, Fault
<1>2. /\ RunsFollowRows' /\ ReleasesAreOwed' /\ ReleasesHoldTheirOwn'
      /\ CallsHoldContainers' /\ HistoryIsSound' /\ FirstRunKeepsBrowser'
  BY <1>0 DEF ReapFails, RunsFollowRows, ReleasesAreOwed, ReleasesHoldTheirOwn,
     CallsHoldContainers, HistoryIsSound, FirstRunKeepsBrowser, Live
<1>3. SweepIsSound'
  BY <1>0, <1>1 DEF ReapFails, SweepIsSound, TypeOK, NoSweep, Fault, Boxes, Sweeps
<1>4. ReaperSparesLive'
  BY <1>0, <1>1 DEF ReapFails, ReaperSparesLive, TypeOK, NoSweep, Fault, NoBox, Containers, Sweeps
<1> QED
  BY <1>1, <1>2, <1>3, <1>4 DEF IndInv

LEMMA TickStep ==
    ASSUME IndInv, Tick
    PROVE  IndInv'
<1> USE FleetAssumption
<1>0. /\ TypeOK /\ RunsFollowRows /\ ReleasesAreOwed /\ ReleasesHoldTheirOwn
      /\ CallsHoldContainers /\ HistoryIsSound /\ SweepIsSound
      /\ ReaperSparesLive /\ FirstRunKeepsBrowser
  BY DEF IndInv
<1>1. TypeOK'
  <2>1. reap' \in Sweeps
    BY <1>0, SweepTypes DEF Tick, TypeOK
  <2>2. box' \in [Containers -> Boxes]
    BY <1>0, BoxTypes DEF Tick, TypeOK
  <2> QED
    BY <1>0, <2>1, <2>2 DEF Tick, TypeOK, Exists
<1>2. RunsFollowRows' /\ ReleasesAreOwed'
  BY <1>0 DEF Tick, RunsFollowRows, ReleasesAreOwed
<1>3. ReleasesHoldTheirOwn'
  BY <1>0, <1>1 DEF Tick, ReleasesHoldTheirOwn, TypeOK, Exists, Boxes, Releases
<1>4. CallsHoldContainers'
  BY <1>0, <1>1 DEF Tick, CallsHoldContainers, TypeOK, Exists, Boxes, Calls
<1>5. HistoryIsSound'
  BY <1>0, <1>1 DEF Tick, HistoryIsSound, TypeOK, Live, Exists, Boxes
<1>6. SweepIsSound'
  BY <1>0, <1>1 DEF Tick, SweepIsSound, TypeOK, NoSweep, Exists, Boxes, Sweeps
<1>7. ReaperSparesLive'
  BY <1>0, <1>1 DEF Tick, ReaperSparesLive, TypeOK, NoSweep, Exists, Sweeps
<1>8. FirstRunKeepsBrowser'
  BY <1>0, <1>1 DEF Tick, FirstRunKeepsBrowser, TypeOK, Exists, Boxes
<1> QED
  BY <1>1, <1>2, <1>3, <1>4, <1>5, <1>6, <1>7, <1>8 DEF IndInv

-----------------------------------------------------------------------------
(* The invariant holds initially and every step preserves it. *)
LEMMA InvInit == Init => IndInv
<1> SUFFICES ASSUME Init
             PROVE  IndInv
  OBVIOUS
<1>1. TypeOK
  BY TypeInit
<1>2. /\ kept = {} /\ handed = {} /\ reap = NoSweep
      /\ \A e \in Events : row[e] = "absent" /\ run[e] = 0
      /\ \A e \in Events : \A k \in Callers : rel[e][k].pc = "idle"
      /\ \A p \in Clients : prov[p].pc = "idle"
  BY DEF Init, NoRelease, NoCall
<1>3. reap.pc = "idle" /\ reap.todo = {} /\ reap.id = NoBox
  BY <1>2 DEF NoSweep
<1> QED
  BY <1>1, <1>2, <1>3 DEF IndInv, RunsFollowRows, ReleasesAreOwed, ReleasesHoldTheirOwn,
     CallsHoldContainers, HistoryIsSound, SweepIsSound, ReaperSparesLive, FirstRunKeepsBrowser

LEMMA InvNext == IndInv /\ [Next]_vars => IndInv'
<1> SUFFICES ASSUME IndInv, [Next]_vars
             PROVE  IndInv'
  OBVIOUS
<1>1. ASSUME NEW e \in Events,
             \/ Detect(e) \/ Confirm(e) \/ Remove(e) \/ FinalizeEvent(e)
             \/ PrepareEventReplay(e) \/ ProvisionFirefox(e)
      PROVE  IndInv'
  BY <1>1, DetectStep, ConfirmStep, RemoveStep, FinalizeEventStep,
     PrepareEventReplayStep, ProvisionFirefoxStep
<1>2. ASSUME NEW e \in Events, NEW k \in Callers,
             ReleaseFind(e, k) \/ ReleaseStop(e, k) \/ ReleaseRemove(e, k) \/ ReleaseFails(e, k)
      PROVE  IndInv'
  BY <1>2, ReleaseFindStep, ReleaseStopStep, ReleaseRemoveStep, ReleaseFailsStep
<1>3. ASSUME NEW p \in Clients,
             \/ ProvisionFind(p) \/ WaitForSlot(p) \/ ContainerCreate(p)
             \/ ContainerStart(p) \/ ProvisionFails(p)
      PROVE  IndInv'
  BY <1>3, ProvisionFindStep, WaitForSlotStep, ContainerCreateStep,
     ContainerStartStep, ProvisionFailsStep
<1>4. CASE Reaper \/ ReapFails \/ Tick
  BY <1>4, ReapOwnersStep, ReapListStep, ReapStopStep, ReapRemoveStep, ReapEndStep,
     ReapFailsStep, TickStep DEF Reaper
<1>5. CASE UNCHANGED vars
  BY <1>5 DEF vars, IndInv, TypeOK, RunsFollowRows, ReleasesAreOwed, ReleasesHoldTheirOwn,
     CallsHoldContainers, HistoryIsSound, SweepIsSound, ReaperSparesLive, FirstRunKeepsBrowser, Live
<1> QED
  BY <1>1, <1>2, <1>3, <1>4, <1>5 DEF Next

(* IndInv is an invariant of the fleet: what its calls in progress rest on.  *)
THEOREM Invariance == Spec => []IndInv
  BY InvInit, InvNext, PTL DEF Spec

(* The calls in progress, the containers and the reaper's clock keep their  *)
(* types; in particular no attempt of the reaper outlives its deadline.     *)
THEOREM FleetTypes == Spec => []TypeOK
<1>1. IndInv => TypeOK
  BY DEF IndInv
<1> QED
  BY <1>1, Invariance, PTL

(* ReapOrphans never holds a container whose event has been live since the  *)
(* container was created, for any number of events and containers, provided *)
(* that the deadline of an attempt is shorter than the age it spares.       *)
THEOREM ReaperSafety == Spec => []ReaperSparesLive
<1>1. IndInv => ReaperSparesLive
  BY DEF IndInv
<1> QED
  BY <1>1, Invariance, PTL

(* Neither Release nor ReapOrphans stops the browser that Provision has     *)
(* returned for an event that is live for the first time.                   *)
THEOREM FirstRunSafety == Spec => []FirstRunKeepsBrowser
<1>1. IndInv => FirstRunKeepsBrowser
  BY DEF IndInv
<1> QED
  BY <1>1, Invariance, PTL

=============================================================================
