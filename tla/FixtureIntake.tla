----------------------------- MODULE FixtureIntake -----------------------------
(***************************************************************************)
(* How one fixture row comes into being and reaches the active state.      *)
(*                                                                         *)
(* Five jobs write the row.  The daily ingest and an ingest an operator    *)
(* starts, the 15-minute staging poll, the unguarded active poll of        *)
(* histories older than the provider guard, and ActivateUpcoming.  Each    *)
(* reads the provider or the row in one step and writes in a later one, so *)
(* any of the others can get between.  The guarded active poll is the      *)
(* subject of FixtureMonitor.                                              *)
(*                                                                         *)
(* Time is a counter.  A cycle takes the next value as its observation     *)
(* stamp when it starts, before it asks the provider.                      *)
(***************************************************************************)
EXTENDS Integers, FiniteSets

CONSTANTS
    None,
    Kickoffs,      \* kickoff times the provider publishes
    Window,        \* the activation window
    Grace,         \* TerminalGracePeriod
    MaxAttempts,   \* attempts of one activity
    MaxClock,      \* bound on time
    MaxCorrections,\* bound on the provider's changes of mind
    MaxFaults,     \* bound on lost attempts, results and publications
    Casts          \* which jobs run beside ActivateUpcoming, and which of
                   \* them from histories older than the provider guard

ASSUME IntakeAssumption ==
    /\ Kickoffs \subseteq Nat /\ Kickoffs # {}
    /\ Window \in Nat /\ Grace \in Nat
    /\ MaxAttempts \in Nat \ {0}
    /\ MaxClock \in Nat /\ MaxCorrections \in Nat /\ MaxFaults \in Nat
    /\ \A c \in Casts : /\ c.legacy \subseteq c.runs
                        /\ c.runs \subseteq {"ingest", "manual", "staging", "active"}
                        /\ "active" \in c.runs => "active" \in c.legacy

VARIABLES
    cast,          \* the jobs of this behaviour
    vendor,        \* what the provider says of the fixture
    corrections,
    clock,
    row,           \* the row of table fixtures, None before the insert
    job,
    receipts,      \* provider_mutation_receipts: <<stamp, FixtureChanged>>
    changed,       \* stamps of guarded ingests that changed the public row
    announced,     \* stamps whose fixture.update was published
    given,         \* stamps whose cycle ended in an error
    faults

history == <<changed, announced, given>>
vars == <<cast, vendor, corrections, clock, row, job, receipts, history, faults>>

Ingests == {"ingest", "manual"}
Jobs == Ingests \cup {"staging", "active", "upcoming"}

(* APIStatus.Terminal and APIStatus.Live: finished codes, and the codes     *)
(* polled at active cadence, postponement among them.                       *)
Statuses == {"not_started", "live", "terminal"}

Idle == [pc |-> "idle", stamp |-> 0, now |-> 0, snap |-> None,
         base |-> None, target |-> None, tries |-> 0, flag |-> FALSE]

Init ==
    /\ cast \in Casts
    /\ vendor \in [status : {"not_started"}, kickoff : Kickoffs]
    /\ corrections = 0
    /\ clock = 0
    /\ row = None
    /\ job = [j \in Jobs |-> Idle]
    /\ receipts = {}
    /\ changed = {} /\ announced = {} /\ given = {}
    /\ faults = 0

-----------------------------------------------------------------------------
(* The provider and time.                                                   *)

Correct ==
    /\ corrections < MaxCorrections
    /\ corrections' = corrections + 1
    /\ vendor' \in [status : Statuses, kickoff : Kickoffs]
    /\ UNCHANGED <<cast, clock, row, job, receipts, history, faults>>

Tick ==
    /\ clock < MaxClock
    /\ clock' = clock + 1
    /\ UNCHANGED <<cast, vendor, corrections, row, job, receipts, history, faults>>

Set(j, r) == job' = [job EXCEPT ![j] = r]
At(j, pc) == [job[j] EXCEPT !.pc = pc]

(* The write is done: its answer is all that is left of the attempt.        *)
Wrote(j, flag) == [At(j, "result") EXCEPT !.base = None, !.target = None, !.flag = flag]

-----------------------------------------------------------------------------
(* Decisions of the domain type.                                            *)

(* Mutant: only a kickoff still ahead counts.                               *)
ShouldActivateAhead(f, now) ==
    f.state = "staging" /\ f.kickoff <= now + Window /\ f.kickoff >= now

(* ShouldActivateNow: the boundary is inclusive and a kickoff already past  *)
(* counts.                                                                  *)
ShouldActivateNow(f, now) == f.state = "staging" /\ f.kickoff <= now + Window

(* fixture.New followed by the state its status asks for.                   *)
Fresh(snap, stamp, now) ==
    LET f == [state |-> "staging", status |-> snap.status, kickoff |-> snap.kickoff,
              polled |-> stamp, statusAt |-> stamp, kickoffAt |-> stamp, termAt |-> None]
    IN [f EXCEPT !.state =
            IF f.status = "terminal" THEN "completed"
            ELSE IF f.status = "live" \/ ShouldActivateNow(f, now) THEN "active"
            ELSE "staging"]

(* UpdateMetadata and the status fields, as ingest and both polls set them. *)
Refreshed(f, snap, stamp) ==
    [f EXCEPT !.status = snap.status, !.kickoff = snap.kickoff,
              !.polled = stamp, !.statusAt = stamp, !.kickoffAt = stamp]

(* UpdateFromPoll: the first terminal observation starts the grace, a       *)
(* successful non-terminal one clears it.                                   *)
UpdateFromPoll(f, snap, stamp) ==
    [Refreshed(f, snap, stamp) EXCEPT !.termAt =
        IF snap.status # "terminal" THEN None
        ELSE IF @ = None THEN stamp ELSE @]

(* reconcileFixture                                                         *)
Reconciled(base, snap, stamp, now) ==
    IF base = None THEN Fresh(snap, stamp, now) ELSE Refreshed(base, snap, stamp)

(* RecordStagingPoll, and Activate for a live status or a kickoff in the    *)
(* window.                                                                  *)
StagingTarget(base, snap, stamp, now) ==
    LET f == Refreshed(base, snap, stamp)
    IN IF snap.status = "live" \/ ShouldActivateNow(f, now)
       THEN [f EXCEPT !.state = "active"] ELSE f

(* fixturePubliclyChanged: everything but the poll time.                    *)
Public(f) == [state |-> f.state, status |-> f.status, kickoff |-> f.kickoff, term |-> f.termAt]
PubliclyChanged(old, new) == old = None \/ Public(old) # Public(new)

-----------------------------------------------------------------------------
(* Starting a cycle.  Schedules skip a run while the last one is going.     *)

Start(j) ==
    /\ j \in cast.runs /\ job[j].pc = "idle"
    /\ clock < MaxClock
    /\ clock' = clock + 1
    /\ Set(j, [Idle EXCEPT !.pc = IF j = "staging" THEN "list" ELSE "fetch", !.stamp = clock'])
    /\ UNCHANGED <<cast, vendor, corrections, row, receipts, history, faults>>

(* ListByState(staging).  An unguarded staging activity reads its own clock *)
(* for the observation.                                                     *)
ListStaging ==
    /\ job["staging"].pc = "list"
    /\ Set("staging",
           IF row # None /\ row.state = "staging"
           THEN [At("staging", "fetch") EXCEPT !.base = row, !.now = clock,
                    !.stamp = IF "staging" \in cast.legacy THEN clock ELSE @]
           ELSE Idle)
    /\ UNCHANGED <<cast, vendor, corrections, clock, row, receipts, history, faults>>

(* FetchFixturesForDay, FetchFixturesByIDs, ListActiveIDs and               *)
(* FetchLiveFixtures: the answer, or a fixture missing from it.  The        *)
(* staging activity plans from the row and the time it began with.          *)
Fetch(j) ==
    /\ job[j].pc = "fetch"
    /\ \/ /\ j = "active" => row # None /\ row.state = "active"
          /\ Set(j, IF j = "staging"
                    THEN [At(j, "commit") EXCEPT !.now = 0,
                            !.target = StagingTarget(job[j].base, vendor, job[j].stamp, job[j].now)]
                    ELSE [At(j, "read") EXCEPT !.snap = vendor])
       \/ Set(j, Idle)
    /\ UNCHANGED <<cast, vendor, corrections, clock, row, receipts, history, faults>>

(* FixtureRepo.Get, and the target each caller computes from it.  The       *)
(* active poll refuses a row that has left the active state.                *)
Read(j) ==
    /\ j # "upcoming" /\ job[j].pc = "read"
    /\ IF j \in Ingests
       THEN LET t == Reconciled(row, job[j].snap, job[j].stamp, clock)
            IN Set(j, [At(j, "commit") EXCEPT !.base = row, !.target = t,
                                               !.flag = PubliclyChanged(row, t)])
       ELSE IF row.state # "active" THEN Set(j, Idle)
       ELSE Set(j, [At(j, "commit") EXCEPT
                      !.base = row,
                      !.target = UpdateFromPoll(row, job[j].snap, job[j].stamp)])
    /\ UNCHANGED <<cast, vendor, corrections, clock, row, receipts, history, faults>>

-----------------------------------------------------------------------------
(* Guarded writes: ProviderMutationRepo.ApplyFixture.                       *)

Receipt(s) == {r \in receipts : r[1] = s}

(* The row the plan was made from must still be there, untouched, and older.*)
Stale(j) ==
    \/ (job[j].base = None) # (row = None)
    \/ row # None /\ (row.polled # job[j].base.polled \/ job[j].stamp <= row.polled)

Phase(s) == CASE s = "not_started" -> 0 [] s = "live" -> 1 [] s = "terminal" -> 2

(* mergePositiveFixture: metadata stays, a status may only advance.         *)
MergePositive(current, target) ==
    LET m == [current EXCEPT !.polled = target.polled]
    IN IF Phase(target.status) < Phase(current.status) THEN m
       ELSE [m EXCEPT !.status = target.status, !.statusAt = target.statusAt]

(* The row an accepted plan leaves.  Ingest never touches the lifecycle.    *)
Applied(j, policy) ==
    LET t == job[j].target
        m == IF policy = "positive_only" THEN MergePositive(row, t) ELSE t
    IN IF row = None THEN t
       ELSE IF j = "staging" THEN [m EXCEPT !.state = t.state]
       ELSE [m EXCEPT !.state = row.state, !.termAt = row.termAt]

(* Mutant: the write without its receipt lookup.                            *)
ApplyFixtureAgain(j) ==
    /\ j \in Ingests \cup {"staging"}
    /\ job[j].pc = "commit" /\ j \notin cast.legacy
    /\ \E policy \in {"trusted", "positive_only", "rejected"} :
         LET writes == /\ ~Stale(j) /\ policy # "rejected"
                       /\ j = "staging" => row.state = "staging"
             diff == writes /\ PubliclyChanged(row, Applied(j, policy))
         IN /\ row' = IF writes THEN Applied(j, policy) ELSE row
            /\ receipts' = receipts \cup {<<job[j].stamp, diff>>}
            /\ changed' = IF diff /\ j \in Ingests THEN changed \cup {job[j].stamp} ELSE changed
            /\ Set(j, Wrote(j, diff))
    /\ UNCHANGED <<cast, vendor, corrections, clock, announced, given, faults>>

ApplyFixture(j) ==
    /\ j \in Ingests \cup {"staging"}
    /\ job[j].pc = "commit" /\ j \notin cast.legacy
    /\ LET s == job[j].stamp
           Answer(flag) == Set(j, Wrote(j, flag))
       IN IF Receipt(s) # {}
          THEN /\ \E r \in Receipt(s) : Answer(r[2])
               /\ UNCHANGED <<row, receipts, changed>>
          ELSE \E policy \in {"trusted", "positive_only", "rejected"} :
                 LET writes == /\ ~Stale(j) /\ policy # "rejected"
                               /\ j = "staging" => row.state = "staging"
                     diff == writes /\ PubliclyChanged(row, Applied(j, policy))
                 IN /\ row' = IF writes THEN Applied(j, policy) ELSE row
                    /\ receipts' = receipts \cup {<<s, diff>>}
                    /\ changed' = IF diff /\ j \in Ingests THEN changed \cup {s} ELSE changed
                    /\ Answer(diff)
    /\ UNCHANGED <<cast, vendor, corrections, clock, announced, given, faults>>

-----------------------------------------------------------------------------
(* Unguarded writes: FixtureRepo.                                           *)

(* StoreFromIngest: insert, or the provider fields of a newer observation.  *)
StoreFromIngest(j) ==
    /\ j \in Ingests /\ job[j].pc = "commit" /\ j \in cast.legacy
    /\ row' = IF row = None THEN job[j].target
              ELSE IF job[j].stamp <= row.polled THEN row
              ELSE Refreshed(row, job[j].snap, job[j].stamp)
    /\ Set(j, Wrote(j, job[j].flag))
    /\ UNCHANGED <<cast, vendor, corrections, clock, receipts, history, faults>>

(* Mutant: the poll time is not compared.                                   *)
TransitionsByState(target, from) == row.state = from

(* TransitionWithAudit: from the state before, and from a row no newer than *)
(* the one the caller holds.                                                *)
Transitions(target, from) ==
    /\ row.state = from
    /\ target.polled >= row.polled

(* RefreshStagingPoll, or the activating transition.                        *)
CommitStaging ==
    /\ job["staging"].pc = "commit" /\ "staging" \in cast.legacy
    /\ LET t == job["staging"].target
       IN row' = IF Transitions(t, "staging")
                 THEN [t EXCEPT !.termAt = row.termAt] ELSE row
    /\ Set("staging", Wrote("staging", FALSE))
    /\ UNCHANGED <<cast, vendor, corrections, clock, receipts, history, faults>>

(* RefreshActivePoll: a poll that lost the row ends here.                   *)
RefreshActivePoll ==
    /\ job["active"].pc = "commit"
    /\ LET t == job["active"].target
       IN IF row.state = "active" /\ t.polled >= row.polled
          THEN /\ row' = [t EXCEPT !.state = row.state]
               /\ Set("active", At("active", "assess"))
          ELSE /\ row' = row
               /\ Set("active", Idle)
    /\ UNCHANGED <<cast, vendor, corrections, clock, receipts, history, faults>>

(* AssessCompletion on the row as it is now; the events of the fixture may  *)
(* still hold it back.                                                      *)
AssessCompletion ==
    /\ job["active"].pc = "assess"
    /\ \/ /\ row.state = "active" /\ row.status = "terminal"
          /\ row.termAt # None /\ row.termAt <= clock - Grace
          /\ Set("active", At("active", "complete"))
       \/ Set("active", Idle)
    /\ UNCHANGED <<cast, vendor, corrections, clock, row, receipts, history, faults>>

Complete ==
    /\ job["active"].pc = "complete"
    /\ row' = IF Transitions(job["active"].target, "active")
              THEN [row EXCEPT !.state = "completed"] ELSE row
    /\ Set("active", Idle)
    /\ UNCHANGED <<cast, vendor, corrections, clock, receipts, history, faults>>

-----------------------------------------------------------------------------
(* ActivateUpcoming, first step of every active poll.                       *)

ListUpcoming ==
    /\ job["upcoming"].pc = "idle"
    /\ row # None /\ ShouldActivateNow(row, clock)
    /\ Set("upcoming", [Idle EXCEPT !.pc = "commit", !.target = [row EXCEPT !.state = "active"]])
    /\ UNCHANGED <<cast, vendor, corrections, clock, row, receipts, history, faults>>

ActivateUpcoming ==
    /\ job["upcoming"].pc = "commit"
    /\ row' = IF Transitions(job["upcoming"].target, "staging")
              THEN job["upcoming"].target ELSE row
    /\ Set("upcoming", Idle)
    /\ UNCHANGED <<cast, vendor, corrections, clock, receipts, history, faults>>

-----------------------------------------------------------------------------
(* Results, retries, and the announcement.                                  *)

(* The workflow hears the result: ingest goes on to PublishFixtureBatch     *)
(* with its ChangedIDs.                                                     *)
Return(j) ==
    /\ job[j].pc = "result"
    /\ Set(j, IF j \in Ingests /\ job[j].flag THEN At(j, "publish") ELSE Idle)
    /\ UNCHANGED <<cast, vendor, corrections, clock, row, receipts, history, faults>>

Publish(j) ==
    /\ job[j].pc = "publish"
    /\ announced' = announced \cup {job[j].stamp}
    /\ Set(j, Idle)
    /\ UNCHANGED <<cast, vendor, corrections, clock, row, receipts, changed, given, faults>>

(* A failed publication is dropped: readers heal on their next refetch.     *)
DropPublication(j) ==
    /\ job[j].pc = "publish" /\ faults < MaxFaults
    /\ faults' = faults + 1
    /\ given' = given \cup {job[j].stamp}
    /\ Set(j, Idle)
    /\ UNCHANGED <<cast, vendor, corrections, clock, row, receipts, changed, announced>>

(* The worker dies before or after its write, or its answer is lost: the    *)
(* activity runs again from its own first step, or the workflow gives up.   *)
Lose(j) ==
    /\ job[j].pc \in {"commit", "result"} /\ j # "upcoming"
    /\ faults < MaxFaults
    /\ faults' = faults + 1
    /\ IF job[j].tries + 1 < MaxAttempts
       THEN /\ Set(j, [At(j, IF j = "staging" THEN "list" ELSE "read") EXCEPT
                        !.base = None, !.target = None, !.flag = FALSE, !.tries = @ + 1])
            /\ given' = given
       ELSE /\ Set(j, Idle)
            /\ given' = IF j \in Ingests THEN given \cup {job[j].stamp} ELSE given
    /\ UNCHANGED <<cast, vendor, corrections, clock, row, receipts, changed, announced>>

Cycle(j) ==
    \/ Start(j) \/ Fetch(j) \/ Read(j) \/ ApplyFixture(j) \/ StoreFromIngest(j)
    \/ Return(j) \/ Publish(j) \/ DropPublication(j) \/ Lose(j)

Next ==
    \/ Correct \/ Tick
    \/ \E j \in Jobs : Cycle(j)
    \/ ListStaging \/ CommitStaging
    \/ RefreshActivePoll \/ AssessCompletion \/ Complete
    \/ ListUpcoming \/ ActivateUpcoming

(* The active poll runs every 30 seconds whatever it finds, and its first   *)
(* activity needs only the database.                                        *)
Fairness == WF_vars(ListUpcoming) /\ WF_vars(ActivateUpcoming)

Spec == Init /\ [][Next]_vars /\ Fairness

-----------------------------------------------------------------------------
(* Type correctness.                                                        *)
Stamps == 0 .. MaxClock

Snapshots == [status : Statuses, kickoff : Kickoffs]

Rows == [state : {"staging", "active", "completed"}, status : Statuses, kickoff : Kickoffs,
         polled : Stamps, statusAt : Stamps, kickoffAt : Stamps, termAt : Stamps \cup {None}]

ASSUME NoneAssumption == None \notin Rows

Steps == {"idle", "list", "fetch", "read", "commit", "result", "publish", "assess", "complete"}

JobStates == [pc : Steps, stamp : Stamps, now : Stamps, snap : Snapshots \cup {None},
              base : Rows \cup {None}, target : Rows \cup {None}, tries : Nat, flag : BOOLEAN]

TypeOK ==
    /\ cast \in Casts
    /\ vendor \in Snapshots
    /\ clock \in Stamps
    /\ row \in Rows \cup {None}
    /\ job \in [Jobs -> JobStates]
    /\ receipts \subseteq Stamps \X BOOLEAN
    /\ changed \subseteq Stamps /\ announced \subseteq Stamps /\ given \subseteq Stamps

(* Facts of the provider only get newer: no writer, however slow and        *)
(* however often retried, puts the status or the kickoff of an older answer *)
(* over a newer one, not even through the row it carries from its own read  *)
(* to its write.                                                            *)
ObservationsInOrder ==
    [][row # None => /\ row' # None
                     /\ row'.polled >= row.polled
                     /\ row'.statusAt >= row.statusAt
                     /\ row'.kickoffAt >= row.kickoffAt]_vars

(* Every public change a guarded ingest commits is announced, also when the *)
(* attempt that committed it is lost and a later attempt finds the row      *)
(* already changed.  Only a cycle that ends in an error leaves it to the    *)
(* readers' refetch.                                                        *)
ChangesAnnounced ==
    \A s \in changed : \/ s \in announced \cup given
                       \/ \E j \in Ingests : job[j].stamp = s /\ job[j].pc # "idle"

(* A staging fixture whose kickoff is inside the window is activated, or    *)
(* its kickoff is moved away.  Stated of the row, not through the predicate *)
(* the code shares between its callers.                                     *)
KickoffActivates ==
    (row # None /\ row.state = "staging" /\ row.kickoff <= clock + Window)
        ~> (row # None /\ (row.state # "staging" \/ row.kickoff > clock + Window))
=============================================================================
