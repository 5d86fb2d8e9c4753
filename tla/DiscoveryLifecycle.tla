-------------------------- MODULE DiscoveryLifecycle --------------------------
(***************************************************************************)
(* What the monitor and the discovery of an event promise each other, for  *)
(* one event.  FixtureMonitor implements it with its event rows and an     *)
(* opaque discovery; EventDiscovery implements it with the discovery       *)
(* itself.                                                                 *)
(***************************************************************************)

VARIABLES
    removed,    \* the event was removed
    checklist,  \* its discovery row: none, open, done or event_removed
    discovery,  \* the workflow: none, running, failed or completed
    open        \* posts without an outcome

vars == <<removed, checklist, discovery, open>>

Init ==
    /\ removed = FALSE
    /\ checklist \in {"none", "open"}
    /\ discovery = "none"
    /\ open = {}

(* The event is confirmed.                                                  *)
Register ==
    /\ ~removed
    /\ checklist = "none"
    /\ checklist' = "open"
    /\ UNCHANGED <<removed, discovery, open>>

(* A completed discovery is never started again.                            *)
Start ==
    /\ checklist # "none"
    /\ discovery \in {"none", "failed"}
    /\ discovery' = "running"
    /\ UNCHANGED <<removed, checklist, open>>

(* Posts come and go, but only under an open checklist row.                 *)
Discover ==
    /\ discovery = "running"
    /\ checklist # "open" => open' = {}
    /\ UNCHANGED <<removed, checklist, discovery>>

(* The row is closed by a run that has settled every post.  The run itself  *)
(* fails when it does not hear of it.                                       *)
Close ==
    /\ discovery = "running"
    /\ checklist # "none"
    /\ open = {}
    /\ checklist' = IF checklist = "open" THEN "done" ELSE checklist
    /\ discovery' \in {"completed", "failed"}
    /\ UNCHANGED <<removed, open>>

Fail ==
    /\ discovery = "running"
    /\ discovery' = "failed"
    /\ UNCHANGED <<removed, checklist, open>>

(* The removal closes whatever is open.                                     *)
Remove ==
    /\ ~removed
    /\ removed' = TRUE
    /\ checklist' = IF checklist = "open" THEN "event_removed" ELSE checklist
    /\ open' = {}
    /\ UNCHANGED discovery

Next == Register \/ Start \/ Discover \/ Close \/ Fail \/ Remove

Spec == Init /\ [][Next]_vars
=============================================================================
