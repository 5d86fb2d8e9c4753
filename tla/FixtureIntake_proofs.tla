------------------------- MODULE FixtureIntake_proofs -------------------------
(***************************************************************************)
(* The jobs that write a fixture row keep the facts of the provider in     *)
(* order and announce what they change, for any number of cycles, retries, *)
(* corrections and faults.                                                 *)
(***************************************************************************)
EXTENDS FixtureIntake, TLAPS

(* A row that carries the stamp of one answer in all its facts.            *)
Stamped(f, stamp) ==
    f \in Rows /\ f.polled = stamp /\ f.statusAt = stamp /\ f.kickoffAt = stamp

(* Two rows with the facts of the same answers.                            *)
SameFacts(f, g) == g.polled = f.polled /\ g.statusAt = f.statusAt /\ g.kickoffAt = f.kickoffAt

(* The steps of a job after its start.                                     *)
StepsOf(j) ==
    IF j \in Ingests THEN {"fetch", "read", "commit", "result", "publish"}
    ELSE IF j = "staging" THEN {"list", "fetch", "commit", "result"}
    ELSE IF j = "active" THEN {"fetch", "read", "commit", "assess", "complete"}
    ELSE {"commit"}

(* What the record r of job j says under the cast c and the row f: only    *)
(* jobs of this behaviour run, each through its own steps, and each        *)
(* carries an answer and a target of its own stamp from its read to its    *)
(* write.  Only ingest can find no row.                                    *)
Sound(c, f, j, r) ==
    r.pc # "idle" =>
       /\ r.pc \in StepsOf(j)
       /\ j # "upcoming" => j \in c.runs
       /\ j \in Ingests \cup {"active"} /\ r.pc \in {"read", "commit", "result"} => r.snap \in Snapshots
       /\ j # "upcoming" /\ r.pc \in {"commit", "assess", "complete"} => Stamped(r.target, r.stamp)
       /\ j = "staging" /\ r.pc = "fetch" => f # None /\ r.base \in Rows
       /\ j = "upcoming" => r.target \in Rows
       /\ j \notin Ingests /\ r.pc \in {"read", "commit", "assess", "complete"} => f # None

JobsSound == \A j \in Jobs : Sound(cast, row, j, job[j])

(* A guarded cycle of stamp s that still answers for what it changed: it   *)
(* will find its receipt again, or goes on to the announcement.            *)
Answers(c, j, r, s) ==
    /\ r.stamp = s /\ j \notin c.legacy
    /\ r.pc \in {"read", "commit", "result", "publish"}
    /\ r.pc = "result" => r.flag = TRUE

(* A public change by a guarded ingest has one receipt, which says so, and *)
(* is announced, given up, or still answered for.                          *)
ReceiptsAnswer ==
    /\ \A r, q \in receipts : r[1] = q[1] => r = q
    /\ \A s \in changed : /\ <<s, TRUE>> \in receipts
                          /\ \/ s \in announced \cup given
                             \/ \E j \in Ingests : Answers(cast, j, job[j], s)

IntakeInv == TypeOK /\ JobsSound /\ ReceiptsAnswer

(* No fact is newer than the poll time.  Where the staging poll runs       *)
(* without the guard every fact is of the last answer.  The row that       *)
(* ActivateUpcoming is about to write is older than the row it will find,  *)
(* or has the same facts.                                                  *)
InOrder ==
    /\ row # None => row.statusAt <= row.polled /\ row.kickoffAt <= row.polled
    /\ row # None /\ "staging" \in cast.legacy => Stamped(row, row.polled)
    /\ job["upcoming"].pc = "commit" /\ row.state = "staging" =>
          job["upcoming"].target.polled < row.polled \/ SameFacts(row, job["upcoming"].target)

(* What a step may do to the row.  A guarded write takes some of the facts *)
(* of a newer answer; the others take all of them, of an answer no older;  *)
(* the completion touches none; the activation puts back the row it read.  *)
Advances(f, g) ==
    /\ g.polled > f.polled
    /\ g.statusAt \in {f.statusAt, g.polled}
    /\ g.kickoffAt \in {f.kickoffAt, g.polled}

RowStep ==
    \/ row' = row
    \/ row = None /\ Stamped(row', row'.polled)
    \/ /\ row \in Rows /\ row' \in Rows
       /\ row'.state = "staging" => row.state = "staging"
       /\ \/ /\ Advances(row, row')
             /\ \E j \in Ingests \cup {"staging"} : j \in cast.runs \ cast.legacy
          \/ Stamped(row', row'.polled) /\ row'.polled > row.polled
          \/ /\ Stamped(row', row'.polled) /\ row'.polled >= row.polled
             /\ row'.state = "staging" => "staging" \in cast.legacy
          \/ SameFacts(row, row')
          \/ /\ job["upcoming"].pc = "commit" /\ job'["upcoming"].pc = "idle" /\ row.state = "staging"
             /\ row' = job["upcoming"].target /\ row'.polled >= row.polled

UpcomingStep ==
    \/ job'["upcoming"] = job["upcoming"]
    \/ job'["upcoming"].pc = "idle"
    \/ row \in Rows /\ row' = row /\ SameFacts(row, job'["upcoming"].target)

Steady == TypeOK' /\ JobsSound' /\ ReceiptsAnswer' /\ RowStep /\ UpcomingStep /\ cast' = cast

-----------------------------------------------------------------------------
(* Rows. *)

(* What Refreshed, UpdateFromPoll and Fresh make of a row and an answer is *)
(* a row that carries the stamp of the answer.                             *)
LEMMA TargetsStamped ==
    ASSUME NEW snap \in Snapshots, NEW s \in Stamps, NEW now \in Stamps
    PROVE  /\ Stamped(Fresh(snap, s, now), s)
           /\ \A f \in Rows : /\ Stamped(Refreshed(f, snap, s), s)
                              /\ Refreshed(f, snap, s).state = f.state
                              /\ Stamped(UpdateFromPoll(f, snap, s), s)
                              /\ Stamped(StagingTarget(f, snap, s, now), s)
  <1>1. \A f \in Rows : Stamped(Refreshed(f, snap, s), s) /\ Refreshed(f, snap, s).state = f.state
    BY DEF Stamped, Refreshed, Rows, Snapshots
  <1>2. ASSUME NEW f \in Rows PROVE Stamped(UpdateFromPoll(f, snap, s), s)
    <2> DEFINE g == Refreshed(f, snap, s)
               t == IF snap.status # "terminal" THEN None ELSE IF g.termAt = None THEN s ELSE g.termAt
    <2>1. Stamped(g, s)
      BY <1>1
    <2>2. UpdateFromPoll(f, snap, s) = [g EXCEPT !.termAt = t]
      BY DEF UpdateFromPoll
    <2>3. g \in Rows /\ t \in Stamps \cup {None}
      BY <2>1 DEF Stamped, Rows
    <2> HIDE DEF g, t
    <2> QED BY <2>1, <2>2, <2>3 DEF Stamped, Rows
  <1>3. ASSUME NEW f \in Rows PROVE Stamped(StagingTarget(f, snap, s, now), s)
    <2> DEFINE g == Refreshed(f, snap, s)
    <2>1. Stamped(g, s)
      BY <1>1
    <2>2. StagingTarget(f, snap, s, now) \in {g, [g EXCEPT !.state = "active"]}
      BY DEF StagingTarget
    <2> HIDE DEF g
    <2> QED BY <2>1, <2>2 DEF Stamped, Rows
  <1>4. Stamped(Fresh(snap, s, now), s)
    <2> DEFINE f == [state |-> "staging", status |-> snap.status, kickoff |-> snap.kickoff,
                     polled |-> s, statusAt |-> s, kickoffAt |-> s, termAt |-> None]
    <2>1. f \in Rows /\ f.polled = s /\ f.statusAt = s /\ f.kickoffAt = s
      BY DEF Rows, Snapshots
    <2>2. \E st \in {"staging", "active", "completed"} : Fresh(snap, s, now) = [f EXCEPT !.state = st]
      BY DEF Fresh
    <2> HIDE DEF f
    <2> QED BY <2>1, <2>2 DEF Stamped, Rows
  <1> QED BY <1>1, <1>2, <1>3, <1>4

-----------------------------------------------------------------------------
(* Jobs. *)

(* One job moves on: the others keep what they carry, because a row that   *)
(* exists stays.                                                           *)
LEMMA OneJobMoves ==
    ASSUME TypeOK, JobsSound, NEW j \in Jobs, NEW r \in JobStates, Set(j, r), cast' = cast,
           row # None => row' # None, Sound(cast, row', j, r)
    PROVE  /\ job' \in [Jobs -> JobStates] /\ JobsSound' /\ job'[j] = r
           /\ \A k \in Jobs \ {j} : job'[k] = job[k]
  <1>1. /\ job' \in [Jobs -> JobStates] /\ job'[j] = r
        /\ \A k \in Jobs \ {j} : job'[k] = job[k]
    BY DEF TypeOK, Set
  <1>2. ASSUME NEW k \in Jobs PROVE Sound(cast, row', k, job'[k])
    <2>1. CASE k = j
      BY <1>1, <2>1
    <2>2. CASE k # j
      <3>1. job'[k] = job[k] /\ Sound(cast, row, k, job[k])
        BY <1>1, <2>2 DEF JobsSound
      <3> QED BY <3>1 DEF Sound
    <2> QED BY <2>1, <2>2
  <1>3. JobsSound'
    BY <1>2 DEF JobsSound
  <1> QED BY <1>1, <1>3

(* Receipts keep answering when no new one is written and the job that     *)
(* moves keeps its answer, announces it or gives it up.                    *)
LEMMA AnswersKept ==
    ASSUME ReceiptsAnswer, cast' = cast, UNCHANGED <<receipts, changed>>,
           announced \subseteq announced', given \subseteq given', NEW j \in Jobs,
           \A k \in Jobs \ {j} : job'[k] = job[k],
           \A s \in changed : j \in Ingests /\ Answers(cast, j, job[j], s) =>
              Answers(cast, j, job'[j], s) \/ s \in announced' \cup given'
    PROVE  ReceiptsAnswer'
  <1> SUFFICES ASSUME NEW s \in changed
               PROVE  s \in announced' \cup given' \/ \E k \in Ingests : Answers(cast, k, job'[k], s)
    BY DEF ReceiptsAnswer
  <1>1. CASE s \in announced \cup given
    BY <1>1
  <1>2. ASSUME NEW k \in Ingests, Answers(cast, k, job[k], s)
        PROVE  s \in announced' \cup given' \/ \E i \in Ingests : Answers(cast, i, job'[i], s)
    <2>1. CASE k = j
      BY <1>2, <2>1
    <2>2. CASE k # j
      BY <1>2, <2>2 DEF Jobs
    <2> QED BY <2>1, <2>2
  <1> QED BY <1>1, <1>2 DEF ReceiptsAnswer

(* An idle job carries nothing.                                            *)
LEMMA IdleSound == Idle \in JobStates /\ \A c, f, j : Sound(c, f, j, Idle)
  BY IntakeAssumption DEF Idle, JobStates, Sound, Steps, Stamps

(* A job that goes to another step and keeps the rest of its record.       *)
LEMMA AtTyped ==
    ASSUME TypeOK, NEW j \in Jobs, NEW pc \in Steps
    PROVE  /\ At(j, pc) \in JobStates /\ At(j, pc).pc = pc
           /\ At(j, pc).stamp = job[j].stamp /\ At(j, pc).now = job[j].now /\ At(j, pc).snap = job[j].snap
           /\ At(j, pc).base = job[j].base /\ At(j, pc).target = job[j].target
           /\ At(j, pc).tries = job[j].tries /\ At(j, pc).flag = job[j].flag
  BY DEF TypeOK, At, JobStates

(* A step of one job that writes no receipt.                               *)
LEMMA MoveSteady ==
    ASSUME IntakeInv, NEW j \in Jobs, NEW r \in JobStates, Set(j, r), cast' = cast,
           UNCHANGED <<vendor, receipts, changed>>, clock' \in Stamps,
           announced \subseteq announced', announced' \subseteq Stamps,
           given \subseteq given', given' \subseteq Stamps,
           row' \in Rows \cup {None}, row # None => row' # None, Sound(cast, row', j, r),
           \A s \in changed : j \in Ingests /\ Answers(cast, j, job[j], s) =>
              Answers(cast, j, r, s) \/ s \in announced' \cup given',
           RowStep,
           \/ j # "upcoming" \/ r.pc = "idle"
           \/ row \in Rows /\ row' = row /\ SameFacts(row, r.target)
    PROVE  Steady
  <1>1. /\ job' \in [Jobs -> JobStates] /\ JobsSound' /\ job'[j] = r
        /\ \A k \in Jobs \ {j} : job'[k] = job[k]
    BY OneJobMoves DEF IntakeInv
  <1>2. ReceiptsAnswer'
    BY <1>1, AnswersKept DEF IntakeInv
  <1>3. TypeOK'
    BY <1>1 DEF IntakeInv, TypeOK
  <1>4. UpcomingStep
    <2>1. CASE j = "upcoming"
      BY <1>1, <2>1 DEF UpcomingStep
    <2>2. CASE j # "upcoming"
      BY <1>1, <2>2 DEF UpcomingStep, Jobs
    <2> QED BY <2>1, <2>2
  <1> QED BY <1>1, <1>2, <1>3, <1>4 DEF Steady

(* Facts about the state every step starts from.                           *)
LEMMA JobFacts ==
    ASSUME IntakeInv
    PROVE  /\ cast \in Casts /\ cast.legacy \subseteq cast.runs
           /\ cast.runs \subseteq {"ingest", "manual", "staging", "active"}
           /\ vendor \in Snapshots /\ clock \in Stamps /\ row \in Rows \cup {None} /\ None \notin Rows
           /\ announced \subseteq Stamps /\ given \subseteq Stamps
           /\ \A j \in Jobs : /\ job[j] \in JobStates /\ Sound(cast, row, j, job[j])
                              /\ job[j].stamp \in Stamps /\ job[j].now \in Stamps
  <1>1. /\ cast \in Casts /\ cast.legacy \subseteq cast.runs
        /\ cast.runs \subseteq {"ingest", "manual", "staging", "active"}
    BY IntakeAssumption DEF IntakeInv, TypeOK
  <1>2. \A j \in Jobs : job[j] \in JobStates /\ Sound(cast, row, j, job[j])
    BY DEF IntakeInv, TypeOK, JobsSound
  <1>3. \A r \in JobStates : r.stamp \in Stamps /\ r.now \in Stamps
    BY DEF JobStates
  <1> QED BY <1>1, <1>2, <1>3, NoneAssumption DEF IntakeInv, TypeOK

(* A cycle starts with the next value of the clock as its stamp.           *)
LEMMA StartSteady == ASSUME IntakeInv, NEW j \in Jobs, Start(j) PROVE Steady
  <1> DEFINE r == [Idle EXCEPT !.pc = IF j = "staging" THEN "list" ELSE "fetch", !.stamp = clock']
  <1>1. /\ j \in cast.runs /\ job[j].pc = "idle" /\ clock' = clock + 1 /\ clock < MaxClock /\ Set(j, r)
        /\ UNCHANGED <<cast, vendor, row, receipts, changed, announced, given>>
    BY DEF Start, history
  <1>2. clock' \in Stamps
    BY <1>1, JobFacts, IntakeAssumption DEF Stamps
  <1>3. r \in JobStates /\ r.pc = IF j = "staging" THEN "list" ELSE "fetch"
    BY <1>2, IdleSound DEF Idle, JobStates, Steps
  <1>4. j \in {"ingest", "manual", "staging", "active"}
    BY <1>1, JobFacts
  <1> HIDE DEF r
  <1>5. Sound(cast, row, j, r)
    BY <1>1, <1>3, <1>4 DEF Sound, StepsOf, Ingests
  <1>6. \A s : ~Answers(cast, j, job[j], s)
    BY <1>1 DEF Answers
  <1> QED BY <1>1, <1>2, <1>3, <1>4, <1>5, <1>6, JobFacts, MoveSteady DEF RowStep

(* The staging poll lists the row (ListByState).                           *)
LEMMA ListSteady == ASSUME IntakeInv, ListStaging PROVE Steady
  <1> DEFINE r == IF row # None /\ row.state = "staging"
                  THEN [At("staging", "fetch") EXCEPT !.base = row, !.now = clock,
                          !.stamp = IF "staging" \in cast.legacy THEN clock ELSE @]
                  ELSE Idle
  <1>1. /\ job["staging"].pc = "list" /\ Set("staging", r)
        /\ UNCHANGED <<cast, vendor, clock, row, receipts, changed, announced, given>>
    BY DEF ListStaging, history
  <1>2. "staging" \in Jobs /\ "staging" \notin Ingests /\ "fetch" \in Steps
    BY DEF Jobs, Ingests, Steps
  <1>3. CASE row # None /\ row.state = "staging"
    <2>1. /\ At("staging", "fetch") \in JobStates /\ At("staging", "fetch").pc = "fetch"
          /\ At("staging", "fetch").stamp \in Stamps
      BY <1>2, AtTyped, JobFacts DEF IntakeInv
    <2>2. PICK t \in Stamps : r = [At("staging", "fetch") EXCEPT !.base = row, !.now = clock, !.stamp = t]
      BY <1>3, <2>1, JobFacts
    <2> HIDE DEF r
    <2>r. row \in Rows \cup {None} /\ clock \in Stamps
      BY JobFacts
    <2>3. r \in JobStates /\ r.pc = "fetch" /\ r.base = row
      BY <2>1, <2>2, <2>r DEF JobStates
    <2>4. "staging" \in cast.runs
      BY <1>1, <1>2, JobFacts DEF Sound
    <2>5. Sound(cast, row, "staging", r)
      BY <1>2, <1>3, <2>3, <2>4, JobFacts DEF Sound, StepsOf
    <2> QED BY <1>1, <1>2, <2>3, <2>5, JobFacts, MoveSteady DEF RowStep
  <1>4. CASE ~(row # None /\ row.state = "staging")
    <2>1. r = Idle
      BY <1>4
    <2> HIDE DEF r
    <2> QED BY <1>1, <1>2, <2>1, IdleSound, JobFacts, MoveSteady DEF RowStep
  <1> QED BY <1>3, <1>4

(* The answer of the provider arrives, or misses the fixture               *)
(* (FetchFixturesForDay, FetchFixturesByIDs, FetchLiveFixtures).           *)
LEMMA FetchSteady == ASSUME IntakeInv, NEW j \in Jobs, Fetch(j) PROVE Steady
  <1>1. job[j].pc = "fetch" /\ UNCHANGED <<cast, vendor, clock, row, receipts, changed, announced, given>>
    BY DEF Fetch, history
  <1>2. /\ j \in Ingests \cup {"staging", "active"} /\ j \in cast.runs
        /\ j = "staging" => row # None /\ job[j].base \in Rows
    BY <1>1, JobFacts DEF Sound, StepsOf, Ingests, Jobs
  <1>3. \A s : ~Answers(cast, j, job[j], s)
    BY <1>1 DEF Answers
  <1>4. CASE Set(j, Idle)
    BY <1>1, <1>2, <1>3, <1>4, IdleSound, JobFacts, MoveSteady DEF RowStep, Ingests
  <1>5. CASE j = "staging" /\ Fetch(j) /\ ~Set(j, Idle)
    <2> DEFINE t == StagingTarget(job[j].base, vendor, job[j].stamp, job[j].now)
               r == [At(j, "commit") EXCEPT !.now = 0, !.target = t]
    <2>1. Set(j, r)
      BY <1>5 DEF Fetch
    <2>2. Stamped(t, job[j].stamp) /\ t \in Rows
      BY <1>2, <1>5, JobFacts, TargetsStamped DEF Stamped
    <2> HIDE DEF t
    <2>3. At(j, "commit") \in JobStates /\ At(j, "commit").pc = "commit" /\ At(j, "commit").stamp = job[j].stamp
      BY AtTyped DEF IntakeInv, Steps
    <2>4. r \in JobStates /\ r.pc = "commit" /\ r.target = t /\ r.stamp = job[j].stamp
      <3>1. 0 \in Stamps
        BY IntakeAssumption DEF Stamps
      <3> QED BY <2>2, <2>3, <3>1 DEF JobStates
    <2> HIDE DEF r
    <2>5. Sound(cast, row, j, r)
      BY <1>2, <1>5, <2>2, <2>4 DEF Sound, StepsOf, Ingests
    <2> QED BY <1>1, <1>2, <1>3, <1>5, <2>1, <2>4, <2>5, JobFacts, MoveSteady DEF RowStep
  <1>6. CASE j # "staging" /\ Fetch(j) /\ ~Set(j, Idle)
    <2> DEFINE r == [At(j, "read") EXCEPT !.snap = vendor]
    <2>1. Set(j, r) /\ (j = "active" => row # None)
      BY <1>6 DEF Fetch
    <2>2. At(j, "read") \in JobStates /\ At(j, "read").pc = "read"
      BY AtTyped DEF IntakeInv, Steps
    <2>3. r \in JobStates /\ r.pc = "read" /\ r.snap = vendor
      BY <2>2, JobFacts DEF JobStates
    <2> HIDE DEF r
    <2>4. Sound(cast, row, j, r)
      BY <1>2, <1>6, <2>1, <2>3, JobFacts DEF Sound, StepsOf, Ingests
    <2> QED BY <1>1, <1>2, <1>3, <1>6, <2>1, <2>3, <2>4, JobFacts, MoveSteady DEF RowStep, Ingests
  <1> QED BY <1>4, <1>5, <1>6

(* A job reads the row and computes its target (reconcileFixture,          *)
(* UpdateFromPoll).                                                        *)
LEMMA ReadSteady == ASSUME IntakeInv, NEW j \in Jobs, Read(j) PROVE Steady
  <1>1. /\ job[j].pc = "read" /\ j # "upcoming"
        /\ UNCHANGED <<cast, vendor, clock, row, receipts, changed, announced, given>>
    BY DEF Read, history
  <1>2. /\ j \in Ingests \cup {"active"} /\ j \in cast.runs /\ job[j].snap \in Snapshots
        /\ j = "active" => row # None
    BY <1>1, JobFacts DEF Sound, StepsOf, Ingests, Jobs
  <1>3. /\ At(j, "commit") \in JobStates /\ At(j, "commit").pc = "commit"
        /\ At(j, "commit").stamp = job[j].stamp /\ At(j, "commit").snap = job[j].snap
    BY AtTyped DEF IntakeInv, Steps
  <1>4. CASE j \in Ingests
    <2> DEFINE t == Reconciled(row, job[j].snap, job[j].stamp, clock)
               b == PubliclyChanged(row, t)
               r == [At(j, "commit") EXCEPT !.base = row, !.target = t, !.flag = b]
    <2>1. Set(j, r)
      BY <1>4 DEF Read
    <2>2. Stamped(t, job[j].stamp) /\ t \in Rows
      BY <1>2, JobFacts, TargetsStamped DEF Stamped, Reconciled
    <2>3. b \in BOOLEAN
      BY DEF PubliclyChanged
    <2> HIDE DEF t, b
    <2>4. r \in JobStates /\ r.pc = "commit" /\ r.target = t /\ r.stamp = job[j].stamp /\ r.snap = job[j].snap
      BY <1>3, <2>2, <2>3, JobFacts DEF JobStates
    <2> HIDE DEF r
    <2>5. Sound(cast, row, j, r)
      BY <1>2, <1>4, <2>2, <2>4 DEF Sound, StepsOf, Ingests
    <2>6. \A s : Answers(cast, j, job[j], s) => Answers(cast, j, r, s)
      BY <1>1, <2>4 DEF Answers
    <2> QED BY <1>1, <1>2, <2>1, <2>4, <2>5, <2>6, JobFacts, MoveSteady DEF RowStep
  <1>5. CASE j = "active" /\ row.state # "active"
    <2>1. Set(j, Idle) /\ j \notin Ingests
      BY <1>5 DEF Read, Ingests
    <2> QED BY <1>1, <2>1, IdleSound, JobFacts, MoveSteady DEF RowStep
  <1>6. CASE j = "active" /\ row.state = "active"
    <2> DEFINE t == UpdateFromPoll(row, job[j].snap, job[j].stamp)
               r == [At(j, "commit") EXCEPT !.base = row, !.target = t]
    <2>1. Set(j, r) /\ j \notin Ingests
      BY <1>6 DEF Read, Ingests
    <2>2. Stamped(t, job[j].stamp) /\ t \in Rows
      BY <1>2, <1>6, JobFacts, TargetsStamped DEF Stamped
    <2> HIDE DEF t
    <2>4. r \in JobStates /\ r.pc = "commit" /\ r.target = t /\ r.stamp = job[j].stamp /\ r.snap = job[j].snap
      BY <1>3, <2>2, JobFacts DEF JobStates
    <2> HIDE DEF r
    <2>5. Sound(cast, row, j, r)
      BY <1>2, <1>6, <2>2, <2>4 DEF Sound, StepsOf, Ingests
    <2> QED BY <1>1, <2>1, <2>4, <2>5, JobFacts, MoveSteady DEF RowStep
  <1> QED BY <1>2, <1>4, <1>5, <1>6

(* The answer of a write is all that is left of the attempt.               *)
LEMMA WroteTyped ==
    ASSUME TypeOK, NEW j \in Jobs, NEW b \in BOOLEAN
    PROVE  /\ Wrote(j, b) \in JobStates /\ Wrote(j, b).pc = "result"
           /\ Wrote(j, b).stamp = job[j].stamp /\ Wrote(j, b).flag = b /\ Wrote(j, b).snap = job[j].snap
  <1>1. /\ At(j, "result") \in JobStates /\ At(j, "result").pc = "result"
        /\ At(j, "result").stamp = job[j].stamp /\ At(j, "result").snap = job[j].snap
    BY AtTyped DEF Steps
  <1> QED BY <1>1 DEF Wrote, JobStates

(* The row an accepted guarded plan leaves (ApplyFixture): new, or with    *)
(* some facts of a newer answer, and never back in staging.                *)
LEMMA AppliedRow ==
    ASSUME IntakeInv, NEW j \in Ingests \cup {"staging"}, job[j].pc = "commit", ~Stale(j),
           j = "staging" => row.state = "staging",
           NEW policy \in {"trusted", "positive_only", "rejected"}
    PROVE  LET g == Applied(j, policy)
           IN /\ g \in Rows
              /\ row = None => Stamped(g, g.polled)
              /\ row # None => Advances(row, g) /\ (g.state = "staging" => row.state = "staging")
  <1> DEFINE t == job[j].target
             s == job[j].stamp
             g == Applied(j, policy)
  <1>0. j \in Jobs
    BY DEF Jobs
  <1>1. t \in Rows /\ t.polled = s /\ t.statusAt = s /\ t.kickoffAt = s /\ s \in Stamps /\ j # "upcoming"
    BY <1>0, JobFacts DEF Sound, Stamped, Ingests
  <1>2. CASE row = None
    <2>1. g = t
      BY <1>2 DEF Applied
    <2> QED BY <1>1, <1>2, <2>1 DEF Stamped
  <1>3. CASE row # None
    <2> DEFINE m == IF policy = "positive_only" THEN MergePositive(row, t) ELSE t
    <2>1. row \in Rows /\ s > row.polled
      <3>1. row \in Rows /\ s \in Int /\ row.polled \in Int /\ ~(s <= row.polled)
        BY <1>1, <1>3, JobFacts, IntakeAssumption DEF Stale, Rows, Stamps
      <3> QED BY <3>1
    <2>2. /\ m \in Rows /\ m.polled = s
          /\ m.statusAt \in {row.statusAt, s} /\ m.kickoffAt \in {row.kickoffAt, s}
      <3>1. CASE policy # "positive_only"
        BY <1>1, <3>1
      <3>2. CASE policy = "positive_only"
        <4> DEFINE n == [row EXCEPT !.polled = t.polled]
        <4>1. n \in Rows /\ n.polled = s /\ n.statusAt = row.statusAt /\ n.kickoffAt = row.kickoffAt
          BY <1>1, <2>1 DEF Rows
        <4>2. m \in {n, [n EXCEPT !.status = t.status, !.statusAt = t.statusAt]}
          BY <3>2 DEF MergePositive
        <4>3. t.status \in Statuses /\ t.statusAt \in Stamps
          BY <1>1 DEF Rows
        <4> HIDE DEF n, m
        <4> QED BY <1>1, <4>1, <4>2, <4>3 DEF Rows
      <3> QED BY <3>1, <3>2
    <2> HIDE DEF m
    <2>3. g = IF j = "staging" THEN [m EXCEPT !.state = t.state]
              ELSE [m EXCEPT !.state = row.state, !.termAt = row.termAt]
      BY <1>3 DEF Applied, m
    <2>4. /\ t.state \in {"staging", "active", "completed"} /\ row.state \in {"staging", "active", "completed"}
          /\ row.termAt \in Stamps \cup {None}
      BY <1>1, <2>1 DEF Rows
    <2> HIDE DEF g, t, s
    <2>5. CASE j = "staging"
      <3>1. g = [m EXCEPT !.state = t.state] /\ row.state = "staging"
        BY <2>3, <2>5
      <3>2. g \in Rows /\ g.polled = m.polled /\ g.statusAt = m.statusAt /\ g.kickoffAt = m.kickoffAt
        BY <2>2, <2>4, <3>1 DEF Rows
      <3> QED BY <1>3, <2>1, <2>2, <3>1, <3>2 DEF Advances, g
    <2>6. CASE j # "staging"
      <3>1. g = [m EXCEPT !.state = row.state, !.termAt = row.termAt]
        BY <2>3, <2>6
      <3>2. /\ g \in Rows /\ g.polled = m.polled /\ g.statusAt = m.statusAt /\ g.kickoffAt = m.kickoffAt
            /\ g.state = row.state
        BY <2>2, <2>4, <3>1 DEF Rows
      <3> QED BY <1>3, <2>1, <2>2, <3>1, <3>2 DEF Advances, g
    <2> QED BY <2>5, <2>6
  <1> QED BY <1>2, <1>3

(* The guarded write: a retry finds the receipt of the attempt before it,  *)
(* a first attempt writes one together with the row                        *)
(* (ProviderMutationRepo.ApplyFixture).                                    *)
LEMMA ApplySteady == ASSUME IntakeInv, NEW j \in Jobs, ApplyFixture(j) PROVE Steady
  <1> DEFINE s == job[j].stamp
  <1>1. /\ j \in Ingests \cup {"staging"} /\ job[j].pc = "commit" /\ j \notin cast.legacy
        /\ UNCHANGED <<cast, vendor, clock, announced, given>>
    BY DEF ApplyFixture
  <1>2. j \in cast.runs /\ j # "upcoming" /\ s \in Stamps
    BY <1>1, JobFacts DEF Sound, Ingests
  <1>3. ASSUME NEW f \in Rows \cup {None}, NEW b \in BOOLEAN
        PROVE  Sound(cast, f, j, Wrote(j, b))
    <2>1. j \in Ingests => job[j].snap \in Snapshots
      BY <1>1, JobFacts DEF Sound
    <2>2. Wrote(j, b).pc = "result" /\ Wrote(j, b).snap = job[j].snap
      BY WroteTyped DEF IntakeInv
    <2> QED BY <1>1, <1>2, <2>1, <2>2 DEF Sound, StepsOf, Ingests
  <1>4. CASE Receipt(s) # {}
    <2>1. PICK q \in Receipt(s) : Set(j, Wrote(j, q[2]))
      BY <1>4 DEF ApplyFixture
    <2>2. UNCHANGED <<row, receipts, changed>>
      BY <1>4 DEF ApplyFixture
    <2>3. q \in receipts /\ q[1] = s /\ q[2] \in BOOLEAN
      BY DEF Receipt, IntakeInv, TypeOK
    <2>4. ASSUME NEW u \in changed, Answers(cast, j, job[j], u)
          PROVE  Answers(cast, j, Wrote(j, q[2]), u)
      <3>1. u = s /\ <<u, TRUE>> \in receipts
        BY <2>4 DEF Answers, IntakeInv, ReceiptsAnswer
      <3>2. q = <<u, TRUE>>
        BY <2>3, <3>1 DEF IntakeInv, ReceiptsAnswer
      <3>3. q[2] = TRUE
        BY <3>2
      <3> QED BY <1>1, <2>3, <3>1, <3>3, WroteTyped DEF Answers, IntakeInv
    <2>5. Wrote(j, q[2]) \in JobStates
      BY <2>3, WroteTyped DEF IntakeInv
    <2> QED BY <1>1, <1>2, <1>3, <2>1, <2>2, <2>3, <2>4, <2>5, JobFacts, MoveSteady DEF RowStep
  <1>5. CASE Receipt(s) = {}
    <2>1. PICK policy \in {"trusted", "positive_only", "rejected"} :
            LET writes == /\ ~Stale(j) /\ policy # "rejected"
                          /\ j = "staging" => row.state = "staging"
                diff == writes /\ PubliclyChanged(row, Applied(j, policy))
            IN /\ row' = IF writes THEN Applied(j, policy) ELSE row
               /\ receipts' = receipts \cup {<<s, diff>>}
               /\ changed' = IF diff /\ j \in Ingests THEN changed \cup {s} ELSE changed
               /\ Set(j, Wrote(j, diff))
      BY <1>5 DEF ApplyFixture
    <2> DEFINE writes == /\ ~Stale(j) /\ policy # "rejected"
                         /\ j = "staging" => row.state = "staging"
               diff == writes /\ PubliclyChanged(row, Applied(j, policy))
    <2>2. /\ row' = IF writes THEN Applied(j, policy) ELSE row
          /\ receipts' = receipts \cup {<<s, diff>>}
          /\ changed' = IF diff /\ j \in Ingests THEN changed \cup {s} ELSE changed
          /\ Set(j, Wrote(j, diff)) /\ diff \in BOOLEAN
      BY <2>1
    <2>3. /\ row' \in Rows \cup {None} /\ (row # None => row' # None) /\ RowStep
      <3>1. CASE ~writes
        BY <2>2, <3>1, JobFacts DEF RowStep
      <3>2. CASE writes
        <4>1. /\ row' \in Rows
              /\ row = None => Stamped(row', row'.polled)
              /\ row # None => Advances(row, row') /\ (row'.state = "staging" => row.state = "staging")
          BY <1>1, <2>2, <3>2, AppliedRow
        <4> QED BY <1>1, <1>2, <4>1, JobFacts DEF RowStep
      <3> QED BY <3>1, <3>2
    <2> HIDE DEF diff
    <2>4. Wrote(j, diff) \in JobStates /\ Sound(cast, row', j, Wrote(j, diff))
      BY <1>3, <2>2, <2>3, WroteTyped DEF IntakeInv
    <2>5. /\ job' \in [Jobs -> JobStates] /\ JobsSound' /\ job'[j] = Wrote(j, diff)
          /\ \A k \in Jobs \ {j} : job'[k] = job[k]
      BY <1>1, <2>2, <2>3, <2>4, OneJobMoves DEF IntakeInv
    <2>6. \A q \in receipts : q[1] # s
      BY <1>5 DEF Receipt
    <2>7. ReceiptsAnswer'
      <3>1. \A r, q \in receipts' : r[1] = q[1] => r = q
        BY <2>2, <2>6 DEF IntakeInv, ReceiptsAnswer
      <3>2. ASSUME NEW u \in changed
            PROVE  /\ <<u, TRUE>> \in receipts'
                   /\ u \in announced \cup given \/ \E k \in Ingests : Answers(cast, k, job'[k], u)
        <4>1. <<u, TRUE>> \in receipts /\ u # s
          BY <2>6 DEF IntakeInv, ReceiptsAnswer
        <4>2. ASSUME NEW k \in Ingests, Answers(cast, k, job[k], u)
              PROVE  Answers(cast, k, job'[k], u)
          <5>1. k # j /\ k \in Jobs
            BY <4>1, <4>2 DEF Answers, Jobs
          <5> QED BY <2>5, <4>2, <5>1
        <4> QED BY <2>2, <4>1, <4>2 DEF IntakeInv, ReceiptsAnswer
      <3>3. ASSUME NEW u \in changed', u \notin changed
            PROVE  <<u, TRUE>> \in receipts' /\ \E k \in Ingests : Answers(cast, k, job'[k], u)
        <4>1. u = s /\ diff = TRUE /\ j \in Ingests
          BY <2>2, <3>3
        <4>2. Answers(cast, j, job'[j], u)
          BY <1>1, <2>2, <2>5, <4>1, WroteTyped DEF Answers, IntakeInv
        <4> QED BY <2>2, <4>1, <4>2
      <3>4. \A u \in changed' : /\ <<u, TRUE>> \in receipts'
                                /\ u \in announced' \cup given' \/ \E k \in Ingests : Answers(cast', k, job'[k], u)
        BY <1>1, <3>2, <3>3
      <3> QED BY <3>1, <3>4 DEF ReceiptsAnswer
    <2>8. TypeOK'
      <3>1. receipts' \subseteq Stamps \X BOOLEAN /\ changed' \subseteq Stamps
        BY <1>2, <2>2 DEF IntakeInv, TypeOK
      <3> QED BY <1>1, <2>3, <2>5, <3>1 DEF IntakeInv, TypeOK
    <2>9. UpcomingStep
      BY <1>2, <2>5 DEF UpcomingStep, Jobs
    <2> QED BY <1>1, <2>3, <2>5, <2>7, <2>8, <2>9 DEF Steady
  <1> QED BY <1>4, <1>5

(* The unguarded ingest: the provider fields of a newer observation        *)
(* (StoreFromIngest).                                                      *)
LEMMA StoreSteady == ASSUME IntakeInv, NEW j \in Jobs, StoreFromIngest(j) PROVE Steady
  <1> DEFINE s == job[j].stamp
             r == Wrote(j, job[j].flag)
             g == Refreshed(row, job[j].snap, s)
  <1>1. /\ j \in Ingests /\ job[j].pc = "commit" /\ j \in cast.legacy /\ Set(j, r)
        /\ row' = IF row = None THEN job[j].target ELSE IF s <= row.polled THEN row ELSE g
        /\ UNCHANGED <<cast, vendor, clock, receipts, changed, announced, given>>
    BY DEF StoreFromIngest, history
  <1>2. /\ j \in cast.runs /\ j # "upcoming" /\ s \in Stamps /\ job[j].snap \in Snapshots
        /\ Stamped(job[j].target, s)
    BY <1>1, JobFacts DEF Sound, Ingests
  <1>3. row' \in Rows \cup {None} /\ (row # None => row' # None) /\ RowStep
    <2>1. CASE row = None
      BY <1>1, <1>2, <2>1 DEF RowStep, Stamped
    <2>2. CASE row # None /\ row' = row
      BY <2>2, JobFacts DEF RowStep
    <2>3. CASE row # None /\ row' # row
      <3>1. row \in Rows /\ row' = g /\ ~(s <= row.polled)
        BY <1>1, <2>3, JobFacts
      <3>2. Stamped(g, s) /\ g.state = row.state
        BY <1>2, <3>1, TargetsStamped, JobFacts
      <3>3. s \in Int /\ row.polled \in Int
        BY <1>2, <3>1, IntakeAssumption DEF Rows, Stamps
      <3> HIDE DEF g, s
      <3> QED BY <3>1, <3>2, <3>3, JobFacts DEF RowStep, Stamped
    <2> QED BY <2>1, <2>2, <2>3
  <1>4. r \in JobStates /\ r.pc = "result" /\ r.snap = job[j].snap
    <2>1. job[j].flag \in BOOLEAN
      BY JobFacts DEF JobStates
    <2> QED BY <2>1, WroteTyped DEF IntakeInv
  <1>5. Sound(cast, row', j, r)
    BY <1>1, <1>2, <1>4 DEF Sound, StepsOf, Ingests
  <1>6. \A u : ~Answers(cast, j, job[j], u)
    BY <1>1 DEF Answers
  <1> HIDE DEF r
  <1> QED BY <1>1, <1>2, <1>3, <1>4, <1>5, <1>6, JobFacts, MoveSteady

(* The unguarded staging poll (RefreshStagingPoll or the activating        *)
(* transition).                                                            *)
LEMMA StagingSteady == ASSUME IntakeInv, CommitStaging PROVE Steady
  <1> DEFINE t == job["staging"].target
             r == Wrote("staging", FALSE)
             g == [t EXCEPT !.termAt = row.termAt]
  <1>0. "staging" \in Jobs /\ "staging" \notin Ingests
    BY DEF Jobs, Ingests
  <1>1. /\ job["staging"].pc = "commit" /\ "staging" \in cast.legacy /\ Set("staging", r)
        /\ row' = IF Transitions(t, "staging") THEN g ELSE row
        /\ UNCHANGED <<cast, vendor, clock, receipts, changed, announced, given>>
    BY DEF CommitStaging, history
  <1>2. "staging" \in cast.runs /\ Stamped(t, job["staging"].stamp) /\ row \in Rows
    BY <1>0, <1>1, JobFacts DEF Sound
  <1>3. row' \in Rows /\ RowStep
    <2>1. CASE ~Transitions(t, "staging")
      BY <1>1, <1>2, <2>1 DEF RowStep
    <2>2. CASE Transitions(t, "staging")
      <3>1. row.state = "staging" /\ t.polled >= row.polled /\ row' = g
        BY <1>1, <2>2 DEF Transitions
      <3>2. t \in Rows /\ row.termAt \in Stamps \cup {None}
        BY <1>2 DEF Stamped, Rows
      <3>3. g \in Rows /\ g.polled = t.polled /\ g.statusAt = t.polled /\ g.kickoffAt = t.polled
        BY <1>2, <3>2 DEF Rows, Stamped
      <3> HIDE DEF g, t
      <3> QED BY <1>1, <1>2, <3>1, <3>3 DEF RowStep, Stamped
    <2> QED BY <2>1, <2>2
  <1>4. r \in JobStates /\ r.pc = "result"
    BY <1>0, WroteTyped DEF IntakeInv
  <1> HIDE DEF r, g, t
  <1>5. Sound(cast, row', "staging", r)
    BY <1>0, <1>2, <1>4 DEF Sound, StepsOf
  <1> QED BY <1>0, <1>1, <1>3, <1>4, <1>5, JobFacts, MoveSteady

(* The unguarded active poll (RefreshActivePoll).                          *)
LEMMA RefreshSteady == ASSUME IntakeInv, RefreshActivePoll PROVE Steady
  <1> DEFINE t == job["active"].target
             g == [t EXCEPT !.state = row.state]
             r == At("active", "assess")
  <1>0. "active" \in Jobs /\ "active" \notin Ingests
    BY DEF Jobs, Ingests
  <1>1. /\ job["active"].pc = "commit"
        /\ \/ row.state = "active" /\ t.polled >= row.polled /\ row' = g /\ Set("active", r)
           \/ row' = row /\ Set("active", Idle)
        /\ UNCHANGED <<cast, vendor, clock, receipts, changed, announced, given>>
    BY DEF RefreshActivePoll, history
  <1>2. "active" \in cast.runs /\ Stamped(t, job["active"].stamp) /\ row \in Rows
    BY <1>0, <1>1, JobFacts DEF Sound
  <1>3. CASE row' = row /\ Set("active", Idle)
    BY <1>0, <1>1, <1>3, IdleSound, JobFacts, MoveSteady DEF RowStep
  <1>4. CASE row.state = "active" /\ t.polled >= row.polled /\ row' = g /\ Set("active", r)
    <2>1. t \in Rows /\ row.state \in {"staging", "active", "completed"}
      BY <1>2 DEF Stamped, Rows
    <2>2. g \in Rows /\ g.polled = t.polled /\ g.statusAt = t.polled /\ g.kickoffAt = t.polled /\ g.state = "active"
      BY <1>2, <1>4, <2>1 DEF Rows, Stamped
    <2>3. r \in JobStates /\ r.pc = "assess" /\ r.target = t /\ r.stamp = job["active"].stamp
      BY <1>0, AtTyped DEF IntakeInv, Steps
    <2> HIDE DEF g, r, t
    <2>4. row' \in Rows /\ RowStep
      BY <1>2, <1>4, <2>2 DEF RowStep, Stamped
    <2>5. Sound(cast, row', "active", r)
      BY <1>0, <1>2, <2>3, <2>4, JobFacts DEF Sound, StepsOf
    <2> QED BY <1>0, <1>1, <1>4, <2>3, <2>4, <2>5, JobFacts, MoveSteady
  <1> QED BY <1>1, <1>3, <1>4

(* The completion of the fixture (AssessCompletion, Complete).             *)
LEMMA CompletionSteady == ASSUME IntakeInv, AssessCompletion \/ Complete PROVE Steady
  <1> DEFINE r == At("active", "complete")
  <1>0. "active" \in Jobs /\ "active" \notin Ingests
    BY DEF Jobs, Ingests
  <1>1. UNCHANGED <<cast, vendor, clock, receipts, changed, announced, given>>
    BY DEF AssessCompletion, Complete, history
  <1>2. "active" \in cast.runs /\ Stamped(job["active"].target, job["active"].stamp) /\ row \in Rows
    BY <1>0, JobFacts DEF Sound, AssessCompletion, Complete
  <1>3. CASE row' = row /\ Set("active", Idle)
    BY <1>0, <1>1, <1>3, IdleSound, JobFacts, MoveSteady DEF RowStep
  <1>4. CASE row' = row /\ Set("active", r)
    <2>1. r \in JobStates /\ r.pc = "complete" /\ r.target = job["active"].target /\ r.stamp = job["active"].stamp
      BY <1>0, AtTyped DEF IntakeInv, Steps
    <2> HIDE DEF r
    <2>2. Sound(cast, row', "active", r)
      BY <1>0, <1>2, <1>4, <2>1, JobFacts DEF Sound, StepsOf
    <2> QED BY <1>0, <1>1, <1>4, <2>1, <2>2, JobFacts, MoveSteady DEF RowStep
  <1>5. CASE row' = [row EXCEPT !.state = "completed"] /\ Set("active", Idle)
    <2>1. row' \in Rows /\ row'.state = "completed" /\ SameFacts(row, row')
      BY <1>2, <1>5 DEF Rows, SameFacts
    <2>2. RowStep
      BY <1>2, <2>1 DEF RowStep
    <2> QED BY <1>0, <1>1, <1>5, <2>1, <2>2, IdleSound, JobFacts, MoveSteady
  <1> QED BY <1>3, <1>4, <1>5 DEF AssessCompletion, Complete

(* ActivateUpcoming reads the row in one step and writes it in another.    *)
LEMMA UpcomingSteady == ASSUME IntakeInv, ListUpcoming \/ ActivateUpcoming PROVE Steady
  <1> DEFINE t == [row EXCEPT !.state = "active"]
             r == [Idle EXCEPT !.pc = "commit", !.target = t]
  <1>0. "upcoming" \in Jobs /\ "upcoming" \notin Ingests
    BY DEF Jobs, Ingests
  <1>1. UNCHANGED <<cast, vendor, clock, receipts, changed, announced, given>>
    BY DEF ListUpcoming, ActivateUpcoming, history
  <1>2. CASE ListUpcoming
    <2>1. row \in Rows /\ row' = row /\ Set("upcoming", r)
      BY <1>2, JobFacts DEF ListUpcoming
    <2>2. t \in Rows /\ SameFacts(row, t)
      BY <2>1 DEF Rows, SameFacts
    <2> HIDE DEF t
    <2>3. r \in JobStates /\ r.pc = "commit" /\ r.target = t
      BY <2>2, IdleSound DEF JobStates, Steps, Idle
    <2> HIDE DEF r
    <2>4. Sound(cast, row', "upcoming", r)
      BY <1>0, <2>1, <2>2, <2>3, JobFacts DEF Sound, StepsOf
    <2> QED BY <1>0, <1>1, <2>1, <2>2, <2>3, <2>4, JobFacts, MoveSteady DEF RowStep
  <1>3. CASE ActivateUpcoming
    <2> DEFINE u == job["upcoming"].target
    <2>1. /\ job["upcoming"].pc = "commit" /\ Set("upcoming", Idle)
          /\ row' = IF Transitions(u, "staging") THEN u ELSE row
      BY <1>3 DEF ActivateUpcoming
    <2>2. row \in Rows /\ u \in Rows
      BY <1>0, <2>1, JobFacts DEF Sound
    <2>3. job'["upcoming"].pc = "idle"
      <3>1. job'["upcoming"] = Idle
        BY <1>0, <2>1 DEF Set, IntakeInv, TypeOK
      <3> QED BY <3>1 DEF Idle
    <2>4. row' \in Rows /\ (row' = row \/ (row' = u /\ row.state = "staging" /\ u.polled >= row.polled))
      BY <2>1, <2>2 DEF Transitions
    <2>5. u.state = "staging" => row.state = "staging" \/ row' = row
      BY <2>4
    <2>6. RowStep
      BY <2>1, <2>2, <2>3, <2>4 DEF RowStep
    <2> QED BY <1>0, <1>1, <2>1, <2>2, <2>4, <2>6, IdleSound, JobFacts, MoveSteady DEF Idle
  <1> QED BY <1>2, <1>3

(* Results, announcements and lost attempts: a cycle that answers for a    *)
(* change announces it, gives it up, or runs again and finds its receipt.  *)
LEMMA ResultSteady ==
    ASSUME IntakeInv, NEW j \in Jobs, Return(j) \/ Publish(j) \/ DropPublication(j) \/ Lose(j)
    PROVE  Steady
  <1>1. UNCHANGED <<cast, vendor, clock, row, receipts, changed>>
    BY DEF Return, Publish, DropPublication, Lose, history
  <1>s. job[j].stamp \in Stamps
    BY JobFacts
  <1>2. CASE Return(j)
    <2>0. job[j].pc = "result" /\ UNCHANGED <<announced, given>>
      BY <1>2 DEF Return, history
    <2>1. CASE j \in Ingests /\ job[j].flag
      <3> DEFINE r == At(j, "publish")
      <3>1. Set(j, r)
        BY <1>2, <2>1 DEF Return
      <3>2. r \in JobStates /\ r.pc = "publish" /\ r.stamp = job[j].stamp
        BY AtTyped DEF IntakeInv, Steps
      <3> HIDE DEF r
      <3>3. j \in cast.runs
        BY <2>0, <2>1, JobFacts DEF Sound, Ingests
      <3>4. Sound(cast, row', j, r)
        BY <2>1, <3>2, <3>3 DEF Sound, StepsOf, Ingests
      <3>5. \A s : Answers(cast, j, job[j], s) => Answers(cast, j, r, s)
        BY <3>2 DEF Answers
      <3> QED BY <1>1, <2>0, <2>1, <3>1, <3>2, <3>4, <3>5, JobFacts, MoveSteady DEF RowStep, Ingests
    <2>2. CASE ~(j \in Ingests /\ job[j].flag)
      <3>1. Set(j, Idle)
        BY <1>2, <2>2 DEF Return
      <3>2. \A s : j \in Ingests => ~Answers(cast, j, job[j], s)
        BY <2>0, <2>2 DEF Answers
      <3> QED BY <1>1, <2>0, <3>1, <3>2, IdleSound, JobFacts, MoveSteady DEF RowStep, Idle
    <2> QED BY <2>1, <2>2
  <1>3. CASE Publish(j) \/ DropPublication(j)
    <2>1. /\ Set(j, Idle) /\ job[j].pc = "publish"
          /\ \/ announced' = announced \cup {job[j].stamp} /\ given' = given
             \/ given' = given \cup {job[j].stamp} /\ announced' = announced
      BY <1>3 DEF Publish, DropPublication
    <2>2. \A s : Answers(cast, j, job[j], s) => s \in announced' \cup given'
      BY <2>1 DEF Answers
    <2>3. announced' \subseteq Stamps /\ given' \subseteq Stamps /\ announced \subseteq announced' /\ given \subseteq given'
      BY <1>s, <2>1, JobFacts
    <2> QED BY <1>1, <2>1, <2>2, <2>3, IdleSound, JobFacts, MoveSteady DEF RowStep, Idle
  <1>4. CASE Lose(j)
    <2>0. job[j].pc \in {"commit", "result"} /\ j # "upcoming" /\ announced' = announced
      BY <1>4 DEF Lose
    <2>1. CASE job[j].tries + 1 < MaxAttempts
      <3> DEFINE pc == IF j = "staging" THEN "list" ELSE "read"
                 r == [At(j, pc) EXCEPT !.base = None, !.target = None, !.flag = FALSE, !.tries = At(j, pc).tries + 1]
      <3>1. Set(j, r) /\ given' = given
        BY <1>4, <2>1 DEF Lose
      <3>2. /\ At(j, pc) \in JobStates /\ At(j, pc).pc = pc /\ At(j, pc).stamp = job[j].stamp
            /\ At(j, pc).snap = job[j].snap /\ pc \in Steps
        BY AtTyped DEF IntakeInv, Steps
      <3>3. r \in JobStates /\ r.pc = pc /\ r.stamp = job[j].stamp /\ r.snap = job[j].snap
        <4>1. PICK n \in Nat : n = At(j, pc).tries + 1
          BY <3>2 DEF JobStates
        <4>2. r = [At(j, pc) EXCEPT !.base = None, !.target = None, !.flag = FALSE, !.tries = n]
          BY <4>1
        <4> HIDE DEF r, pc
        <4> QED BY <3>2, <4>2 DEF JobStates
      <3> HIDE DEF r
      <3>4. Sound(cast, row, j, job[j])
        BY JobFacts
      <3>5. CASE j \in Ingests
        <4>1. Sound(cast, row', j, r)
          <5>1. r.snap \in Snapshots
            BY <2>0, <3>3, <3>4, <3>5 DEF Sound
          <5> QED BY <1>1, <2>0, <3>3, <3>4, <3>5, <5>1 DEF Sound, StepsOf, Ingests
        <4>2. \A s : Answers(cast, j, job[j], s) => Answers(cast, j, r, s)
          BY <3>3, <3>5 DEF Answers, Ingests
        <4> QED BY <1>1, <2>0, <3>1, <3>3, <4>1, <4>2, JobFacts, MoveSteady DEF RowStep
      <3>6. CASE j \notin Ingests
        <4>1. Sound(cast, row', j, r)
          BY <1>1, <2>0, <3>3, <3>4, <3>6 DEF Sound, StepsOf, Ingests, Jobs
        <4> QED BY <1>1, <2>0, <3>1, <3>3, <3>6, <4>1, JobFacts, MoveSteady DEF RowStep
      <3> QED BY <3>5, <3>6
    <2>2. CASE ~(job[j].tries + 1 < MaxAttempts)
      <3>1. Set(j, Idle) /\ given' = IF j \in Ingests THEN given \cup {job[j].stamp} ELSE given
        BY <1>4, <2>2 DEF Lose
      <3>2. \A s : j \in Ingests /\ Answers(cast, j, job[j], s) => s \in given'
        BY <3>1 DEF Answers
      <3>3. given' \subseteq Stamps /\ given \subseteq given'
        BY <1>s, <3>1, JobFacts
      <3> QED BY <1>1, <2>0, <3>1, <3>2, <3>3, IdleSound, JobFacts, MoveSteady DEF RowStep
    <2> QED BY <2>1, <2>2
  <1> QED BY <1>2, <1>3, <1>4

(* Every step of the jobs, the provider and time.                          *)
LEMMA StepSteady == ASSUME IntakeInv, [Next]_vars PROVE Steady
  <1>1. CASE Correct \/ Tick \/ UNCHANGED vars
    <2>1. UNCHANGED <<cast, row, job, receipts, changed, announced, given>>
      BY <1>1 DEF Correct, Tick, vars, history
    <2>2. vendor' \in Snapshots /\ clock' \in Stamps
      <3>1. CASE Tick
        BY <3>1, IntakeAssumption, JobFacts DEF Tick, Stamps
      <3>2. CASE Correct \/ UNCHANGED vars
        BY <3>2, JobFacts DEF Correct, vars, Snapshots
      <3>3. Tick => vendor' \in Snapshots
        BY JobFacts DEF Tick
      <3> QED BY <1>1, <3>1, <3>2, <3>3
    <2>3. TypeOK'
      BY <2>1, <2>2 DEF IntakeInv, TypeOK
    <2>4. JobsSound'
      BY <2>1 DEF IntakeInv, JobsSound
    <2>5. ReceiptsAnswer'
      BY <2>1 DEF IntakeInv, ReceiptsAnswer
    <2> QED BY <2>1, <2>3, <2>4, <2>5 DEF Steady, RowStep, UpcomingStep
  <1>2. ASSUME NEW j \in Jobs, Cycle(j) PROVE Steady
    BY <1>2, StartSteady, FetchSteady, ReadSteady, ApplySteady, StoreSteady, ResultSteady DEF Cycle
  <1> QED BY <1>1, <1>2, ListSteady, StagingSteady, RefreshSteady, CompletionSteady, UpcomingSteady DEF Next

-----------------------------------------------------------------------------
(* The order of the observations. *)

(* The staging poll runs under the guard, or the ingests of the behaviour  *)
(* run without it too.  Otherwise the clock of an unguarded staging        *)
(* activity can read the very stamp of a guarded ingest, and a row whose   *)
(* facts are of two answers can be written back over it.                   *)
OneGeneration == \A c \in Casts : "staging" \in c.legacy => c.runs \cap Ingests \subseteq c.legacy

(* What the row may never do in a step.                                    *)
FactsOnlyGetNewer ==
    row # None => /\ row' # None
                  /\ row'.polled >= row.polled
                  /\ row'.statusAt >= row.statusAt
                  /\ row'.kickoffAt >= row.kickoffAt

(* A step keeps the order, and puts no older fact over a newer one.        *)
LEMMA StepInOrder ==
    ASSUME OneGeneration, IntakeInv, InOrder, [Next]_vars
    PROVE  InOrder' /\ FactsOnlyGetNewer
  <1> DEFINE up == job["upcoming"]
             un == job'["upcoming"]
  <1>1. RowStep /\ UpcomingStep /\ cast' = cast /\ TypeOK' /\ JobsSound'
    BY StepSteady DEF Steady
  <1>2. row \in Rows \cup {None} /\ row' \in Rows \cup {None} /\ None \notin Rows
    BY <1>1, NoneAssumption DEF IntakeInv, TypeOK
  <1>n. \A f \in Rows : f.polled \in Int /\ f.statusAt \in Int /\ f.kickoffAt \in Int
    BY IntakeAssumption DEF Rows, Stamps
  <1>u. "upcoming" \in Jobs
    BY DEF Jobs
  <1>t. up.pc = "commit" => row # None /\ up.target \in Rows
    BY <1>u DEF IntakeInv, JobsSound, Sound, Ingests
  <1>v. un.pc = "commit" => row' # None /\ un.target \in Rows
    BY <1>u, <1>1 DEF JobsSound, Sound, Ingests
  <1>g. "staging" \in cast.legacy => ~\E j \in Ingests \cup {"staging"} : j \in cast.runs \ cast.legacy
    BY DEF OneGeneration, IntakeInv, TypeOK
  <1>i. /\ row # None => row.statusAt <= row.polled /\ row.kickoffAt <= row.polled
        /\ row # None /\ "staging" \in cast.legacy => Stamped(row, row.polled)
        /\ up.pc = "commit" /\ row.state = "staging" => up.target.polled < row.polled \/ SameFacts(row, up.target)
    BY DEF InOrder
  <1> HIDE DEF up, un
  <1>3. /\ FactsOnlyGetNewer
        /\ row' # None => row'.statusAt <= row'.polled /\ row'.kickoffAt <= row'.polled
        /\ row' # None /\ "staging" \in cast.legacy => Stamped(row', row'.polled)
    <2>1. CASE row' = row
      BY <1>2, <1>n, <1>i, <2>1 DEF FactsOnlyGetNewer
    <2>2. CASE row = None /\ Stamped(row', row'.polled)
      BY <1>n, <2>2 DEF FactsOnlyGetNewer, Stamped
    <2>3. CASE row \in Rows /\ row' \in Rows /\ Advances(row, row') /\ "staging" \notin cast.legacy
      BY <1>2, <1>n, <1>i, <2>3 DEF FactsOnlyGetNewer, Advances
    <2>4. CASE row \in Rows /\ row' \in Rows /\ Stamped(row', row'.polled) /\ row'.polled >= row.polled
      BY <1>2, <1>n, <1>i, <2>4 DEF FactsOnlyGetNewer, Stamped
    <2>5. CASE row \in Rows /\ row' \in Rows /\ SameFacts(row, row')
      BY <1>2, <1>n, <1>i, <2>5 DEF FactsOnlyGetNewer, SameFacts, Stamped
    <2>6. CASE /\ row \in Rows /\ row' \in Rows /\ up.pc = "commit" /\ row.state = "staging"
               /\ row' = up.target /\ row'.polled >= row.polled
      <3>1. SameFacts(row, row')
        BY <1>n, <1>i, <2>6
      <3> QED BY <2>5, <2>6, <3>1
    <2> QED BY <1>1, <1>g, <1>n, <2>1, <2>2, <2>3, <2>4, <2>5, <2>6 DEF RowStep, up
  <1>4. un.pc = "commit" /\ row'.state = "staging" => un.target.polled < row'.polled \/ SameFacts(row', un.target)
    <2> SUFFICES ASSUME un.pc = "commit", row'.state = "staging"
                 PROVE  un.target.polled < row'.polled \/ SameFacts(row', un.target)
      OBVIOUS
    <2>0. row' \in Rows /\ un.target \in Rows
      BY <1>2, <1>v
    <2>1. CASE row \in Rows /\ row' = row /\ SameFacts(row, un.target)
      BY <2>1
    <2>2. CASE un = up
      <3>0. row \in Rows /\ up.target \in Rows /\ up.pc = "commit"
        BY <1>2, <1>t, <2>2
      <3>1. CASE row' = row
        BY <1>i, <2>2, <3>0, <3>1
      <3>2. CASE row'.polled > row.polled /\ row.state = "staging"
        <4>1. up.target.polled < row.polled \/ up.target.polled = row.polled
          BY <1>i, <3>0, <3>2 DEF SameFacts
        <4> QED BY <1>n, <2>0, <2>2, <3>0, <3>2, <4>1
      <3>3. CASE Stamped(row', row'.polled) /\ row'.polled = row.polled /\ row.state = "staging" /\ "staging" \in cast.legacy
        <4>1. SameFacts(row, row')
          BY <1>i, <1>2, <3>0, <3>3 DEF Stamped, SameFacts
        <4> QED BY <1>i, <2>2, <3>0, <3>3, <4>1 DEF SameFacts
      <3>4. CASE SameFacts(row, row') /\ row.state = "staging"
        BY <1>i, <2>2, <3>0, <3>4 DEF SameFacts
      <3> QED BY <1>1, <1>2, <1>n, <2>0, <2>2, <3>0, <3>1, <3>2, <3>3, <3>4 DEF RowStep, Advances, un, up
    <2> QED BY <1>1, <2>1, <2>2 DEF UpcomingStep, un, up
  <1> QED BY <1>1, <1>3, <1>4 DEF InOrder, un

(* No cycle has started yet.                                               *)
LEMMA InitIntake == Init => IntakeInv /\ InOrder
  <1> SUFFICES ASSUME Init PROVE IntakeInv /\ InOrder
    OBVIOUS
  <1>1. /\ cast \in Casts /\ vendor \in Snapshots /\ clock = 0 /\ row = None /\ job = [j \in Jobs |-> Idle]
        /\ receipts = {} /\ changed = {} /\ announced = {} /\ given = {}
    BY DEF Init, Snapshots, Statuses
  <1>2. \A j \in Jobs : job[j] = Idle
    BY <1>1
  <1>3. TypeOK
    BY <1>1, IdleSound, IntakeAssumption DEF TypeOK, Stamps
  <1>4. JobsSound
    BY <1>2, IdleSound DEF JobsSound
  <1>5. ReceiptsAnswer
    BY <1>1 DEF ReceiptsAnswer
  <1>6. InOrder
    <2>1. job["upcoming"].pc = "idle"
      BY <1>2 DEF Jobs, Idle
    <2> QED BY <1>1, <2>1 DEF InOrder
  <1> QED BY <1>3, <1>4, <1>5, <1>6 DEF IntakeInv

-----------------------------------------------------------------------------
(* The theorems. *)

(* The inductive invariant of the jobs and the receipts.                   *)
THEOREM IntakeInvariance == Spec => []IntakeInv
  <1>1. Init => IntakeInv
    BY InitIntake
  <1>2. IntakeInv /\ [Next]_vars => IntakeInv'
    BY StepSteady DEF Steady, IntakeInv
  <1> QED BY <1>1, <1>2, PTL DEF Spec

(* The row, the jobs and the receipts keep their types: no job ever        *)
(* carries anything but a whole row from its read to its write.            *)
THEOREM IntakeTypes == Spec => []TypeOK
  <1>1. IntakeInv => TypeOK
    BY DEF IntakeInv
  <1> QED BY <1>1, IntakeInvariance, PTL

(* Every public change a guarded ingest commits is announced, given up     *)
(* with an error, or still answered for by the cycle that made it: a retry *)
(* takes FixtureChanged from the receipt of the attempt that was lost      *)
(* (ApplyFixture, PublishFixtureBatch).                                    *)
THEOREM ChangesAreAnnounced == Spec => []ChangesAnnounced
  <1>1. IntakeInv => ChangesAnnounced
    BY DEF IntakeInv, ReceiptsAnswer, Answers, ChangesAnnounced
  <1> QED BY <1>1, IntakeInvariance, PTL

(* The compare-and-set of every writer of the row (ApplyFixture,           *)
(* StoreFromIngest, RefreshStagingPoll, RefreshActivePoll,                 *)
(* TransitionWithAudit) keeps the facts of the provider in order, for any  *)
(* jobs of one generation.                                                 *)
THEOREM FactsStayInOrder ==
    ASSUME OneGeneration
    PROVE  Spec => ObservationsInOrder
  <1>1. Init => IntakeInv /\ InOrder
    BY InitIntake
  <1>2. IntakeInv /\ InOrder /\ [Next]_vars => IntakeInv' /\ InOrder'
    BY StepSteady, StepInOrder DEF Steady, IntakeInv
  <1>3. IntakeInv /\ InOrder /\ [Next]_vars => FactsOnlyGetNewer
    BY StepInOrder
  <1>4. Spec => [][FactsOnlyGetNewer]_vars
    BY <1>1, <1>2, <1>3, PTL DEF Spec
  <1> QED BY <1>4 DEF ObservationsInOrder, FactsOnlyGetNewer

=============================================================================
