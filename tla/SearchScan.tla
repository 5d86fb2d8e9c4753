------------------------------ MODULE SearchScan ------------------------------
(***************************************************************************)
(* The repeated searches of one goal.  A scan walks X's chronological feed *)
(* from the newest tweet down, one screen per scroll, and stops at the     *)
(* fixed floor of the goal's window (age), after a run of tweets the       *)
(* workflow already knows (consecutive_seen), at the end of the feed or    *)
(* when its scrolls are spent.  The run-of-known-tweets shortcut is only   *)
(* sound when an earlier scan reached the floor: the window carries that   *)
(* permission from attempt to attempt, and a replacement run starts        *)
(* without it, because the run it replaces may have stored candidates of a *)
(* scan it never finished.                                                 *)
(***************************************************************************)
EXTENDS Naturals, Sequences, FiniteSets

CONSTANTS
    Screen,         \* tweets shown per scroll
    MaxScrolls,     \* scrolls of one scan
    SeenStop,       \* known tweets in a row that end a scan
    Feeds,          \* feeds the first scan may meet, oldest first, as sequences of kinds
    MaxPublish,     \* tweets published later
    MaxAttempts,    \* usable searches of the goal
    MaxUnavailable, \* unusable searches before the outage is given up on
    MaxCrashes      \* workflow runs that end before their work is done

\* What a tweet is to a scan: a clip inside the window, one without a
\* timestamp, one from before the floor, a text, or an advertisement of any
\* age, which X places out of order.
Kinds == {"clip", "undated", "old", "text", "ad"}

ASSUME ScanConstants ==
    /\ {Screen, MaxScrolls, SeenStop} \subseteq Nat \ {0}
    /\ {MaxPublish, MaxAttempts, MaxUnavailable, MaxCrashes} \subseteq Nat
    /\ Feeds \subseteq Seq(Kinds)

VARIABLES
    feed,       \* the kinds of the tweets, oldest first: a tweet's id is its index
    stored,     \* candidates in the database
    allow,      \* the workflow's AllowSeenStop
    exclude,    \* the workflow's excludeURLs
    pc,         \* search, store (the answer is being stored), done
    scan,       \* the answer of the last scan
    attempt,    \* usable searches completed
    unavailable,
    saved,      \* the checkpoint in the database
    crashes

scanVars == <<feed, stored, allow, exclude, pc, scan, attempt, unavailable, saved, crashes>>

NoScan == [videos |-> {}, run |-> 0, stop |-> "none"]

ScanInit ==
    /\ feed \in Feeds
    /\ stored = {} /\ exclude = {} /\ allow = FALSE
    /\ pc = "search" /\ scan = NoScan
    /\ attempt = 0 /\ unavailable = 0
    /\ saved = [attempt |-> 0, unavailable |-> 0, allow |-> FALSE]
    /\ crashes = 0
-----------------------------------------------------------------------------
(* scrollAndExtract *)

\* Only an organic tweet with a timestamp can prove that the floor was reached.
shouldStopAtTime(kind) == kind = "old"

\* One tweet of the walk: advertisements are passed over before the age
\* stop, texts after it; a known clip lengthens the run, a new one ends it.
VisitTweet(found, id) ==
    LET kind == feed[id] IN
    IF found.stop # "none" THEN found
    ELSE IF shouldStopAtTime(kind) THEN [found EXCEPT !.stop = "age"]
    ELSE IF kind \in {"ad", "text"} THEN found
    ELSE IF id \in exclude
         THEN [found EXCEPT !.run = IF @ < SeenStop THEN @ + 1 ELSE @,
                            !.stop = IF found.run + 1 >= SeenStop /\ allow
                                     THEN "consecutive_seen" ELSE @]
         ELSE [found EXCEPT !.run = 0, !.videos = @ \cup {id}]

\* The tweets a scan can reach, newest first, and what it found after some of them.
Shown == IF Len(feed) < Screen * MaxScrolls THEN Len(feed) ELSE Screen * MaxScrolls
Reach(k) == Len(feed) + 1 - k
Walk == LET found[k \in 0..Shown] == IF k = 0 THEN NoScan ELSE VisitTweet(found[k - 1], Reach(k))
        IN found

scrollAndExtract ==
    LET walked == Walk[Shown]
    IN IF walked.stop # "none" THEN walked
       ELSE [walked EXCEPT !.stop = IF Len(feed) <= Screen * (MaxScrolls - 1)
                                    THEN "feed_exhausted" ELSE "max_scrolls"]
-----------------------------------------------------------------------------
(* The window's permission *)

\* SearchWindow.After: eligible after reaching the floor, or after joining a
\* scan that was eligible; every other ending revokes it.
WindowAfter(permitted, stop) == stop = "age" \/ (stop = "consecutive_seen" /\ permitted)
-----------------------------------------------------------------------------
(* EventWorkflow's search loop *)

Publish ==
    /\ Len(feed) < MaxPublish
    /\ \E kind \in Kinds \ {"old"} : feed' = Append(feed, kind)
    /\ UNCHANGED <<stored, allow, exclude, pc, scan, attempt, unavailable, saved, crashes>>

SearchRendered ==
    /\ pc = "search" /\ attempt < MaxAttempts
    /\ scan' = scrollAndExtract
    /\ allow' = WindowAfter(allow, scan'.stop)
    /\ exclude' = exclude \cup scan'.videos
    /\ pc' = "store"
    /\ UNCHANGED <<feed, stored, attempt, unavailable, saved, crashes>>

\* Empty, unavailable, unknown and failed searches, an answer that does not
\* echo the window among them.  A usable empty page completes an attempt.
SearchEmpty ==
    /\ pc = "search" /\ attempt < MaxAttempts
    /\ allow' = WindowAfter(allow, "none")
    /\ attempt' = attempt + 1
    /\ saved' = [attempt |-> attempt', unavailable |-> unavailable, allow |-> allow']
    /\ pc' = IF attempt' = MaxAttempts THEN "done" ELSE "search"
    /\ UNCHANGED <<feed, stored, exclude, scan, unavailable, crashes>>

SearchUnavailable ==
    /\ pc = "search" /\ attempt < MaxAttempts /\ unavailable < MaxUnavailable
    /\ allow' = WindowAfter(allow, "none")
    /\ unavailable' = unavailable + 1
    /\ saved' = [attempt |-> attempt, unavailable |-> unavailable', allow |-> allow']
    /\ pc' = IF unavailable' = MaxUnavailable THEN "done" ELSE "search"
    /\ UNCHANGED <<feed, stored, exclude, scan, attempt, crashes>>

\* The inserts of one answer run concurrently, in any order.
StoreCandidate ==
    /\ pc = "store"
    /\ \E id \in scan.videos \ stored : stored' = stored \cup {id}
    /\ UNCHANGED <<feed, allow, exclude, pc, scan, attempt, unavailable, saved, crashes>>

\* All of them stored: the attempt is checkpointed, with the window.
RecordDiscoveryProgress ==
    /\ pc = "store" /\ scan.videos \subseteq stored
    /\ attempt' = attempt + 1
    /\ saved' = [attempt |-> attempt', unavailable |-> unavailable, allow |-> allow]
    /\ scan' = NoScan
    /\ pc' = IF attempt' = MaxAttempts THEN "done" ELSE "search"
    /\ UNCHANGED <<feed, stored, allow, exclude, unavailable, crashes>>

\* (Mutant of Recover: the checkpointed permission is believed.)
RecoverTrusting ==
    /\ pc # "done" /\ crashes < MaxCrashes
    /\ crashes' = crashes + 1
    /\ exclude' = stored
    /\ allow' = saved.allow
    /\ attempt' = saved.attempt /\ unavailable' = saved.unavailable
    /\ pc' = "search" /\ scan' = NoScan
    /\ UNCHANGED <<feed, stored, saved>>

\* A replacement run: the stored candidates, the checkpointed counts, and
\* no permission, whatever the checkpoint says.
Recover ==
    /\ pc # "done" /\ crashes < MaxCrashes
    /\ crashes' = crashes + 1
    /\ exclude' = stored
    /\ allow' = FALSE
    /\ attempt' = saved.attempt /\ unavailable' = saved.unavailable
    /\ pc' = "search" /\ scan' = NoScan
    /\ UNCHANGED <<feed, stored, saved>>

ScanNext ==
    \/ Publish \/ SearchRendered \/ SearchEmpty \/ SearchUnavailable
    \/ StoreCandidate \/ RecordDiscoveryProgress \/ Recover

ScanSpec == ScanInit /\ [][ScanNext]_scanVars
-----------------------------------------------------------------------------
(* Properties *)

EligibleClips == {id \in DOMAIN feed : feed[id] \in {"clip", "undated"}}
AboveFloor == {id \in DOMAIN feed : \A old \in id..Len(feed) : feed[old] # "old"}

\* ShortcutLosesNothing: when a scan stops early on known tweets, every clip
\* of the window that was in the feed has been stored or is in this scan's
\* answer -- whatever earlier scans were cut short, unavailable or lost with
\* the run that made them.
ShortcutLosesNothing == [][
    SearchRendered /\ scan'.stop = "consecutive_seen"
        => (EligibleClips \cap AboveFloor) \subseteq (stored \cup scan'.videos)]_scanVars
=============================================================================
