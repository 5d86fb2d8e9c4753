------------------------------ MODULE MatchClock ------------------------------
(***************************************************************************)
(* The clock check of a candidate clip.  The vision model transcribes the  *)
(* scorebug of up to three frames; parseFrameClock turns each into a       *)
(* reading (minute, period, how sure), Evaluate compares the readings with *)
(* the time the provider reported for the goal.  Here the clip shows a     *)
(* known moment of the match through a known broadcaster convention, so    *)
(* the verdict can be held against the truth.                              *)
(***************************************************************************)
EXTENDS Integers, Sequences, FiniteSets

CONSTANTS
    Moments,       \* the match moments considered: [period, minute in the period]
    Conventions,   \* how the broadcaster renders its clock
    Tol,           \* ToleranceMinutes
    MaxFrames      \* frames of a clip

ASSUME ClockConstants ==
    /\ Tol \in Nat /\ MaxFrames \in Nat \ {0}
    /\ Conventions \subseteq {"labelled", "plain", "subclock", "compact", "reset", "embedded"}

Periods == {"1H", "2H", "ET1", "ET2"}
Unknown == ""
Absent == -1           \* a number the model left null
Null == "null"         \* a text it left null
Ends == {45, 90, 105, 120}
RecognitionMinutes == 15

VARIABLES
    goal,          \* the moment of the goal
    clip,          \* the moment the clip shows
    convention,
    frames,        \* what the model transcribed so far
    verdict        \* none, verified, unverified or rejected, and the matched minute

clockVars == <<goal, clip, convention, frames, verdict>>

-----------------------------------------------------------------------------
(* clock.go: from transcribed fields to a reading. *)

PeriodOf(minute) ==
    IF minute <= 45 THEN "1H" ELSE IF minute <= 90 THEN "2H" ELSE IF minute <= 105 THEN "ET1" ELSE "ET2"
PeriodEnd(p) == IF p = "1H" THEN 45 ELSE IF p = "2H" THEN 90 ELSE IF p = "ET1" THEN 105 ELSE 120
IsExtraTime(p) == p \in {"ET1", "ET2"}
Abs(n) == IF n < 0 THEN -n ELSE n

\* A frame: the main timer (kind timer, compact or none; its embedded hints),
\* the period field, its literal label, the announced board, the sub-clock.
Blank ==
    [kind |-> "none", minute |-> 0, second |-> Absent, hints |-> {}, period |-> Null, label |-> Null,
     added |-> Absent, stop |-> Absent, soccer |-> TRUE, screen |-> FALSE]

Reading(minute, period, pinned) ==
    [minute |-> minute, alternatives |-> {}, period |-> period, pinned |-> pinned,
     stoppage |-> FALSE, exact |-> TRUE, ambiguous |-> FALSE]
PossibleMinutes(r) == {r.minute} \cup r.alternatives

EmbeddedPeriod(hints, minute) ==
    IF "2H" \in hints THEN "2H" ELSE IF "1H" \in hints THEN "1H"
    ELSE IF "ET" \in hints THEN PeriodOf(minute) ELSE Unknown

\* A compact "45+2": minute is the boundary, second the minutes past it.
ParseCompact(f) ==
    LET end == f.minute
        r == [Reading(end + f.second, PeriodOf(end), TRUE) EXCEPT !.stoppage = TRUE]
        hinted == EmbeddedPeriod(f.hints, r.minute)
    IN IF hinted # Unknown /\ hinted # r.period THEN [r EXCEPT !.period = Unknown, !.ambiguous = TRUE] ELSE r

ParseTimer(f) ==
    LET m == f.minute
        et == IF m <= 30 THEN 90 + m ELSE m
    IN IF "ET" \in f.hints THEN Reading(et, PeriodOf(et), TRUE)
       ELSE IF "2H" \in f.hints THEN [Reading(IF m < 45 THEN 45 + m ELSE m, "2H", TRUE)
                                         EXCEPT !.alternatives = IF m = 45 THEN {90} ELSE {}]
       ELSE IF "1H" \in f.hints THEN Reading(m, "1H", TRUE)
       ELSE Reading(m, PeriodOf(m), FALSE)

ParseClockField(f) ==
    LET r == IF f.kind = "compact" THEN ParseCompact(f) ELSE ParseTimer(f)
    IN [r EXCEPT !.ambiguous = @ \/ Cardinality(f.hints) > 1]

\* The literal label decides where there is one; the normalized field must agree.
PeriodFromLabel(label) == IF label \in Periods THEN label ELSE Unknown
FramePeriodEvidence(f) ==
    LET literal == PeriodFromLabel(f.label)
    IN IF f.label # Null
       THEN IF f.period # Null /\ (literal = Unknown \/ literal # f.period)
            THEN [hint |-> Unknown, conflict |-> TRUE]
            ELSE [hint |-> literal, conflict |-> FALSE]
       ELSE IF f.period = Null THEN [hint |-> Unknown, conflict |-> FALSE]
       ELSE IF f.period \in Periods THEN [hint |-> f.period, conflict |-> FALSE]
       ELSE [hint |-> Unknown, conflict |-> TRUE]

\* The absolute minute of a displayed one, and whether the display makes sense.
NormalizeDisplayedMinute(m, p) ==
    IF p = "1H" THEN <<m, TRUE>>
    ELSE IF p = "2H" THEN <<IF m < 45 THEN 45 + m ELSE m, TRUE>>
    ELSE IF m <= 15 THEN <<PeriodEnd(p) - 15 + m, TRUE>>
    ELSE IF p = "ET2" /\ m <= 30 THEN <<90 + m, TRUE>>
    ELSE <<m, m >= PeriodEnd(p) - 15>>

BoundaryAlternatives(m, p, primary) ==
    (IF p = "2H" /\ m = 45 THEN {90} ELSE IF p = "ET2" /\ m = 15 THEN {105} ELSE {}) \ {primary}

WithPeriodEvidence(r, e) ==
    IF e.conflict THEN [r EXCEPT !.period = Unknown, !.ambiguous = TRUE]
    ELSE IF e.hint = Unknown THEN r
    ELSE IF r.pinned
    THEN IF r.period # e.hint THEN [r EXCEPT !.period = Unknown, !.ambiguous = TRUE] ELSE r
    ELSE LET n == NormalizeDisplayedMinute(r.minute, e.hint)
         IN [r EXCEPT !.minute = n[1], !.alternatives = BoundaryAlternatives(r.minute, e.hint, n[1]),
                      !.period = e.hint, !.pinned = TRUE, !.ambiguous = @ \/ ~ n[2]]

\* Mutant: the board beside a running clock is not looked at.
NoRunningStoppage(r, added) == r
\* An announced allowance beside a clock just past a boundary: still that period.
WithRunningStoppage(r, added) ==
    LET ends == {e \in Ends : r.minute > e /\ r.minute < e + RecognitionMinutes}
    IN IF added <= 0 \/ r.pinned \/ r.ambiguous \/ r.stoppage \/ ends = {} THEN r
       ELSE [r EXCEPT !.period = PeriodOf(CHOOSE e \in ends : TRUE), !.pinned = TRUE, !.stoppage = TRUE]

FrozenBoundary(r, f) ==
    /\ ~ r.ambiguous /\ ~ r.stoppage /\ f.kind = "timer" /\ f.second = 0
    /\ r.period # Unknown /\ PeriodEnd(r.period) \in PossibleMinutes(r)

ParseFrameClock(f) ==
    LET r == WithRunningStoppage(WithPeriodEvidence(ParseClockField(f), FramePeriodEvidence(f)), f.added)
        at == [r EXCEPT !.alternatives = {}, !.stoppage = TRUE]
    IN IF ~ FrozenBoundary(r, f) THEN r
       ELSE IF f.stop # Absent THEN [at EXCEPT !.minute = PeriodEnd(r.period) + f.stop]
       ELSE IF f.added # Absent THEN [at EXCEPT !.minute = PeriodEnd(r.period), !.exact = FALSE]
       ELSE r

-----------------------------------------------------------------------------
(* evaluate.go: from the readings to the verdict. *)

\* What the provider reports for a moment: elapsed counts the minute in play, so
\* it is positive and Evaluate's gate for a goal without a minute stays open.
Length(p) == IF IsExtraTime(p) THEN 15 ELSE 45
Start(p) == PeriodEnd(p) - Length(p)
\* Stoppage and tolerance together stay below a half: a clock past 45 cannot be
\* one that counts from the boundary.
ASSUME MomentsOfMatch ==
    /\ Moments \subseteq [period : Periods, minute : Nat]
    /\ \A m \in Moments : m.minute + Tol < Length(m.period) + 45
Elapsed(m) == IF m.minute < Length(m.period) THEN Start(m.period) + m.minute + 1 ELSE PeriodEnd(m.period)
Extra(m) == IF m.minute < Length(m.period) THEN 0 ELSE m.minute - Length(m.period) + 1
Completed(m) == Start(m.period) + m.minute

\* The minutes one reading verifies, and whether it alone keeps the clip.
LowerBound(r, expected) == r.stoppage /\ ~ r.exact /\ r.period = expected
\* Mutant: the minute alone verifies.
VerifiesByMinute(r, g) ==
    IF r.ambiguous THEN {} ELSE {m \in PossibleMinutes(r) : Abs(m - (Elapsed(g) + Extra(g) - 1)) <= Tol}
Verifies(r, g) ==
    LET minute == Elapsed(g) + Extra(g) - 1
        period == PeriodOf(Elapsed(g))
        direct == IF r.exact /\ r.period = period
                  THEN {m \in PossibleMinutes(r) : Abs(m - minute) <= Tol} ELSE {}
        rebased == IF Extra(g) > 0 /\ ~ r.pinned /\ Abs(Elapsed(g) + r.minute - minute) <= Tol
                   THEN {Elapsed(g) + r.minute} ELSE {}
    IN IF r.ambiguous \/ LowerBound(r, period) THEN {} ELSE direct \cup rebased
SoftKeeps(r, g) ==
    LET minute == Elapsed(g) + Extra(g) - 1
        period == PeriodOf(Elapsed(g))
    IN \/ r.ambiguous
       \/ /\ ~ LowerBound(r, period) /\ r.period # period
          /\ \E m \in PossibleMinutes(r) :
               /\ Abs(m - minute) <= Tol
               /\ \/ ~ r.pinned /\ ~ r.stoppage /\ m \in Ends
                  \/ IsExtraTime(period) \/ IsExtraTime(r.period)

Evaluate(fs, g) ==
    LET majority == (Len(fs) \div 2) + 1
        soccer == Cardinality({i \in DOMAIN fs : fs[i].soccer})
        screens == Cardinality({i \in DOMAIN fs : fs[i].screen})
        readings == {ParseFrameClock(fs[i]) : i \in {j \in DOMAIN fs : fs[j].kind # "none"}}
        period == PeriodOf(Elapsed(g))
        bounds == {r \in readings : ~ r.ambiguous /\ LowerBound(r, period)}
        exact == \E r \in readings \ bounds : ~ r.ambiguous /\ r.exact
        matched == UNION {Verifies(r, g) : r \in readings}
    IN IF soccer < majority \/ screens >= majority
       THEN [outcome |-> "rejected", minutes |-> {}]
       ELSE IF matched # {} THEN [outcome |-> "verified", minutes |-> matched]
       ELSE [minutes |-> {}, outcome |->
             IF readings = {} THEN "unverified"
             ELSE IF \E r \in bounds : Elapsed(g) + Extra(g) - 1 + Tol < r.minute THEN "rejected"
             ELSE IF \E r \in readings : SoftKeeps(r, g) THEN "unverified"
             ELSE IF bounds # {} /\ ~ exact THEN "unverified"
             ELSE "rejected"]

-----------------------------------------------------------------------------
(* The clip: frames of one moment through one convention. *)

Timer(minute, second) == [Blank EXCEPT !.kind = "timer", !.minute = minute, !.second = second]
InStoppage(m) == m.minute >= Length(m.period)
Boards == {Absent, 4}

Seconds == {0, 30}

\* The scorebugs a broadcaster shows at a moment, by convention: a running clock
\* with the period beside it; one without; one that stops at the boundary, with
\* a sub-clock or a board; one that turns to "45+2"; one that restarts with the
\* period; one with the period in the clock itself.
Labelled(m) ==
    UNION {{[Timer(Completed(m), s) EXCEPT !.period = m.period, !.added = a] : a \in Boards} :
             s \in {n \in Seconds : Completed(m) \in Ends => n # 0}}
Plain(m) == {[Timer(Completed(m), 30) EXCEPT !.added = IF InStoppage(m) THEN 4 ELSE Absent]}
Subclock(m) ==
    LET frozen == Timer(PeriodEnd(m.period), 0)
    IN IF InStoppage(m)
       THEN {[frozen EXCEPT !.stop = m.minute - Length(m.period), !.added = a] : a \in Boards}
            \cup {[frozen EXCEPT !.added = 4]}
       ELSE {[Timer(Completed(m), 30) EXCEPT !.label = m.period]}
Compact(m) ==
    IF InStoppage(m)
    THEN {[Blank EXCEPT !.kind = "compact", !.minute = PeriodEnd(m.period),
                        !.second = m.minute - Length(m.period) + n] : n \in 0..1}
    ELSE {[Timer(Completed(m), 30) EXCEPT !.label = m.period]}
Reset(m) == {[Timer(m.minute, 30) EXCEPT !.label = m.period]}
Embedded(m) ==
    IF IsExtraTime(m.period)
    THEN {[Timer(Completed(m) - 90, 30) EXCEPT !.hints = {"ET"}]}
    ELSE {[Timer(m.minute, 30) EXCEPT !.hints = {m.period}]}
Scorebugs(c, m) ==
    IF c = "labelled" THEN Labelled(m) ELSE IF c = "plain" THEN Plain(m)
    ELSE IF c = "subclock" THEN Subclock(m) ELSE IF c = "compact" THEN Compact(m)
    ELSE IF c = "reset" THEN Reset(m) ELSE Embedded(m)

\* Displays that two moments share: no parser can tell them apart.  A clock that
\* restarts with the half is a regular one only within it, an unlabelled one only
\* as far past a boundary as withRunningStoppage looks for its allowance.
Distinct(c, m) ==
    /\ c \in {"reset", "embedded"} => ~ InStoppage(m)
    /\ c = "plain" => m.minute < Length(m.period) + RecognitionMinutes

ClockInit ==
    /\ goal \in Moments /\ clip \in Moments /\ convention \in Conventions
    /\ Distinct(convention, clip)
    /\ frames = <<>> /\ verdict = [outcome |-> "none", minutes |-> {}]

\* observeFrame: the model's transcription of the next frame; a cutaway shows no
\* match, a blurred frame no clock, a misread one two periods.
Misread == [Timer(Completed(clip), 30) EXCEPT !.label = clip.period,
                                              !.period = IF clip.period = "1H" THEN "2H" ELSE "1H"]
ObserveFrame ==
    /\ verdict.outcome = "none" /\ Len(frames) < MaxFrames
    /\ \E f \in Scorebugs(convention, clip) \cup {Blank, [Blank EXCEPT !.soccer = FALSE], Misread} :
         frames' = Append(frames, f)
    /\ UNCHANGED <<goal, clip, convention, verdict>>

Judge ==
    /\ verdict.outcome = "none" /\ Len(frames) = MaxFrames
    /\ verdict' = Evaluate(frames, goal)
    /\ UNCHANGED <<goal, clip, convention, frames>>

ClockNext == ObserveFrame \/ Judge
ClockSpec == ClockInit /\ [][ClockNext]_clockVars

-----------------------------------------------------------------------------
(* Properties. *)

Judged == verdict.outcome # "none"
\* A compact clock may count the minute in play, one more than the completed one.
Ordinal == IF convention = "compact" THEN 1 ELSE 0
\* Displays shared with another moment: an unlabelled clock, "ET 15:30", and 45:xx
\* of a second half, which opens it or, where the clock restarts, ends it.
TellsMoment ==
    /\ \A i \in DOMAIN frames : ~ (frames[i].minute = 45 /\ clip.period = "2H")
    /\ convention = "plain" => InStoppage(clip)
    /\ convention = "embedded" => ~ IsExtraTime(clip.period)
MatchFootage == 2 * Cardinality({i \in DOMAIN frames : frames[i].soccer}) > Len(frames)

\* evaluate.go:6: a clip of the goal itself, shown by a broadcaster whose clock
\* says which period it is in, is never thrown away, whatever the convention.
RightClipKept ==
    (/\ Judged /\ MatchFootage
     /\ clip.period = goal.period /\ Abs(Completed(clip) - Completed(goal)) <= Tol - Ordinal)
    => verdict.outcome # "rejected"

\* evaluate.go:144: a clip of another period or another minute never enters the
\* verified pool when its scorebug says which period it shows.
WrongClipNotVerified ==
    (/\ Judged /\ TellsMoment
     /\ \/ clip.period # goal.period
        \/ Abs(Completed(clip) - Completed(goal)) > Tol + Ordinal)
    => verdict.outcome # "verified"
=============================================================================
