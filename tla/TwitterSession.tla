---------------------------- MODULE TwitterSession ----------------------------
(***************************************************************************)
(* The browser services that search X, and the one cookie file they share. *)
(* Every instance (the static fallback and one per goal) keeps its cookies *)
(* in its browser, reloads the shared file when its modification time      *)
(* moves, and writes it back after each verified page.  The raw login      *)
(* terminal writes the same file.  Requests of one instance overlap: only  *)
(* the authentication cycles are serialized (authMu), searches are not.    *)
(*                                                                         *)
(* A cookie set is the login session it carries (0: no auth_token) and the *)
(* rotation of its short-lived tokens.  X is the environment: it accepts   *)
(* the sessions in live, sends the others to its login page or serves      *)
(* nothing recognisable, and rotates tokens on a page load.                *)
(***************************************************************************)
EXTENDS Naturals, FiniteSets

CONSTANTS
    Instances,      \* browser services, Static among them
    Static,         \* the shared fallback service
    Requests,       \* the requests made of the services
    MaxSessions,    \* logins the operator makes, the first one included
    MaxRotations,   \* token rotations X performs
    MaxFaults       \* failed calls, browser exits, hand-edited files

ASSUME ConstantsOK ==
    /\ Static \in Instances
    /\ MaxSessions \in Nat \ {0}
    /\ MaxRotations \in Nat
    /\ MaxFaults \in Nat

VARIABLES
    live,       \* sessions X accepts
    logins,     \* sessions the operator has opened
    profile,    \* the unexpired session in the raw Firefox profile, 0 for none
    captured,   \* the capture loop's last fingerprint
    file,       \* the shared cookie file
    inst,       \* the browser services
    req,        \* the requests in progress
    published,  \* every cookie set the file ever held
    rotations,  \* rotations so far
    faults      \* faults so far

sessionVars == <<live, logins, profile, captured, file, inst, req, published,
          rotations, faults>>

Cookies == [session : 0..MaxSessions, rot : 0..MaxRotations]
NoCookies == [session |-> 0, rot |-> 0]
hasAuthToken(cookies) == cookies.session # 0
States == {"starting", "loading", "healthy", "degraded", "unauthenticated", "failed"}

Pages == {"none", "feed", "empty", "broken", "login"}
Answers == {"none", "rendered", "explicit_empty", "unavailable", "login", "ok", "error"}
RequestKinds == {"search", "verify", "startup"}
RequestSteps == {"idle", "stat", "read", "add", "go", "page", "get", "put", "mark", "done"}

IdleRequest == [kind |-> "search", at |-> Static, pc |-> "idle", seen |-> 0, mtime |-> 0,
                read |-> NoCookies, warm |-> FALSE, page |-> "none", got |-> NoCookies,
                answer |-> "none"]

NewService(jar) == [up |-> TRUE, boot |-> TRUE, state |-> "starting", jar |-> jar,
                    loaded |-> 0, print |-> NoCookies]

SessionTypeOK ==
    /\ live \subseteq 1..MaxSessions /\ logins \in 1..MaxSessions
    /\ profile \in 0..MaxSessions
    /\ captured \in Cookies
    /\ file \in [cookies : Cookies, mtime : Nat, ok : BOOLEAN]
    /\ inst \in [Instances -> [up : BOOLEAN, boot : BOOLEAN, state : States, jar : Cookies,
                               loaded : Nat, print : Cookies]]
    /\ req \in [Requests -> [kind : RequestKinds, at : Instances, pc : RequestSteps, seen : Nat, mtime : Nat,
                             read : Cookies, warm : BOOLEAN, page : Pages, got : Cookies,
                             answer : Answers]]
    /\ published \subseteq Cookies
    /\ rotations \in 0..MaxRotations /\ faults \in 0..MaxFaults

RunningService(jar) == [up |-> TRUE, boot |-> FALSE, state |-> "healthy", jar |-> jar,
                        loaded |-> 1, print |-> jar]

\* A first login is in the file, valid, and the static service has loaded
\* it; the goals' browsers have just started.
SessionInit ==
    LET first == [session |-> 1, rot |-> 0] IN
    /\ live = {1} /\ logins = 1 /\ profile = 1
    /\ captured = first
    /\ file = [cookies |-> first, mtime |-> 1, ok |-> TRUE]
    /\ inst = [i \in Instances |-> IF i = Static THEN RunningService(first)
                                    ELSE NewService(NoCookies)]
    /\ req = [r \in Requests |-> IdleRequest]
    /\ published = {first}
    /\ rotations = 0 /\ faults = 0

Fault == faults < MaxFaults /\ faults' = faults + 1
At(r) == inst[req[r].at]
Goto(r, pc) == req' = [req EXCEPT ![r].pc = pc]
\* What a caller still sees of a finished request.
Answered(q, a) == [IdleRequest EXCEPT !.kind = q.kind, !.at = q.at, !.pc = "done", !.answer = a,
                                      !.page = IF a = "ok" THEN q.page ELSE "none",
                                      !.got = IF a = "ok" THEN q.got ELSE NoCookies]
Answer(r, a) == req' = [req EXCEPT ![r] = Answered(@, a)]
OutsideUnchanged == UNCHANGED <<live, logins, profile, captured>>

\* A failed browser stays failed until its container is restarted.
SetState(service, s) == IF service.state = "failed" THEN service ELSE [service EXCEPT !.state = s]
EnterState(r, s) == inst' = [inst EXCEPT ![req[r].at] = SetState(@, s)]
-----------------------------------------------------------------------------
(* Callers *)

\* Search: an unreachable per-event instance is replaced, once, by the
\* static service.
SearchTarget(i) == IF inst[i].up THEN i ELSE Static

Search(r, i) ==
    LET at == SearchTarget(i) IN
    /\ req[r].pc = "idle"
    /\ req' = [req EXCEPT ![r] = IF inst[at].up
                                 THEN [IdleRequest EXCEPT !.at = at, !.pc = "stat",
                                                          !.seen = inst[at].loaded]
                                 ELSE [IdleRequest EXCEPT !.at = at, !.pc = "done",
                                                          !.answer = "error"]]
    /\ UNCHANGED <<live, logins, profile, captured, file, inst, published, rotations, faults>>

\* authMu: one authentication cycle at a time on an instance.
AuthBusy(i) == \E q \in Requests :
    /\ req[q].at = i /\ req[q].kind # "search"
    /\ req[q].pc \notin {"idle", "done"}

\* The process's own first check may take the warm path; /auth/verify, which
\* maintenance and the operator call on the static service, never does.
EnsureAuthenticated(r, i, kind) ==
    /\ req[r].pc = "idle"
    /\ inst[i].up /\ ~AuthBusy(i)
    /\ IF kind = "startup" THEN inst[i].boot ELSE i = Static
    /\ req' = [req EXCEPT ![r] = [IdleRequest EXCEPT
                   !.kind = kind, !.at = i, !.pc = "stat", !.seen = inst[i].loaded,
                   !.warm = kind = "startup" /\ inst[i].state = "healthy"]]
    /\ inst' = [inst EXCEPT ![i].boot = @ /\ kind # "startup"]
    /\ UNCHANGED <<live, logins, profile, captured, file, published, rotations, faults>>

\* RunTwitterMaintenance: after a good verification the canary searches the
\* static service.  Neither half is retried.
CanarySearch(r) ==
    /\ req[r].pc = "done" /\ req[r].kind = "verify" /\ req[r].answer = "ok"
    /\ inst[Static].up
    /\ req' = [req EXCEPT ![r] = [IdleRequest EXCEPT !.pc = "stat", !.seen = inst[Static].loaded]]
    /\ OutsideUnchanged /\ UNCHANGED <<file, inst, published, rotations, faults>>
-----------------------------------------------------------------------------
(* maybeReloadCookies *)

\* After the reload: a warm check answers at once, everything else loads a
\* page.  A reload forfeits the warm path.
Proceed(r, reloaded) ==
    IF req[r].warm /\ ~reloaded
    THEN Answered(req[r], "ok")
    ELSE [req[r] EXCEPT !.pc = "go", !.read = NoCookies, !.mtime = 0, !.seen = 0]

StatFile(r) ==
    /\ req[r].pc = "stat"
    /\ req' = [req EXCEPT ![r] = IF file.mtime > req[r].seen
                                 THEN [@ EXCEPT !.pc = "read", !.mtime = file.mtime]
                                 ELSE Proceed(r, FALSE)]
    /\ OutsideUnchanged /\ UNCHANGED <<file, inst, published, rotations, faults>>

\* What ReadBackup accepts.
Readable == file.ok /\ hasAuthToken(file.cookies)

\* ReadBackup, then ClearCookies.  An unreadable file is remembered and
\* skipped; the browser keeps the cookies it has.
ReadFile(r) ==
    /\ req[r].pc = "read"
    /\ IF Readable
       THEN /\ inst' = [inst EXCEPT ![req[r].at] = [SetState(@, "loading") EXCEPT !.jar = NoCookies]]
            /\ req' = [req EXCEPT ![r].pc = "add", ![r].read = file.cookies]
       ELSE /\ inst' = [inst EXCEPT ![req[r].at].loaded = req[r].mtime]
            /\ req' = [req EXCEPT ![r] = Proceed(r, FALSE)]
    /\ OutsideUnchanged /\ UNCHANGED <<file, published, rotations, faults>>

AddCookies(r) ==
    /\ req[r].pc = "add"
    /\ inst' = [inst EXCEPT ![req[r].at] = [@ EXCEPT !.jar = req[r].read, !.print = req[r].read,
                                                     !.loaded = req[r].mtime]]
    /\ req' = [req EXCEPT ![r] = Proceed(r, TRUE)]
    /\ OutsideUnchanged /\ UNCHANGED <<file, published, rotations, faults>>

\* The browser refused the new cookies: failed for good.
ReplaceCookiesFails(r) ==
    /\ req[r].pc = "add" /\ Fault
    /\ EnterState(r, "failed")
    /\ Answer(r, "error")
    /\ OutsideUnchanged /\ UNCHANGED <<file, published, rotations>>
-----------------------------------------------------------------------------
(* The page *)

\* X serves a session it accepts; the others are sent to the login page.
\* Either may come back unrecognisable.
ServedPages(jar) == IF jar.session \in live THEN {"feed", "empty", "broken"} ELSE {"login", "broken"}

\* A page load may rotate the tokens, a logged-out one included.
Navigate(r) ==
    /\ req[r].pc = "go"
    /\ \E page \in ServedPages(At(r).jar), rotated \in BOOLEAN :
        /\ req[r].kind # "search" => page # "empty"
        /\ rotated => rotations < MaxRotations
        /\ rotations' = IF rotated THEN rotations + 1 ELSE rotations
        /\ inst' = IF rotated THEN [inst EXCEPT ![req[r].at].jar.rot = rotations + 1] ELSE inst
        /\ req' = [req EXCEPT ![r].pc = "page", ![r].page = page]
    /\ OutsideUnchanged /\ UNCHANGED <<file, published, faults>>

NavigateFails(r) ==
    /\ req[r].pc = "go" /\ Fault
    /\ EnterState(r, "degraded")
    /\ Answer(r, "error")
    /\ OutsideUnchanged /\ UNCHANGED <<file, published, rotations>>

\* The result a page without articles gets.
classifyMissingFeed(page) == IF page = "empty" THEN "explicit_empty" ELSE "unavailable"

\* Only a login redirect is a logged-out session: a page without the
\* application's shell goes on to the feed's classification.
verifyOnSearchPage(page) == page # "login"

\* handleSearch after the page load.  A rendered feed is healthy before it is scrolled; a missing one
\* is classified after the cookies are saved.
SearchPage(r) ==
    /\ req[r].pc = "page" /\ req[r].kind = "search"
    /\ \/ /\ ~verifyOnSearchPage(req[r].page)
          /\ EnterState(r, "unauthenticated") /\ Answer(r, "login")
          /\ UNCHANGED faults
       \/ /\ req[r].page = "feed"
          /\ EnterState(r, "healthy") /\ Goto(r, "get")
          /\ UNCHANGED faults
       \/ /\ req[r].page \in {"empty", "broken"}
          /\ Goto(r, "get") /\ UNCHANGED <<inst, faults>>
       \/ /\ verifyOnSearchPage(req[r].page) /\ Fault     \* the feed locator failed
          /\ EnterState(r, "degraded") /\ Answer(r, "error")
    /\ OutsideUnchanged /\ UNCHANGED <<file, published, rotations>>

\* A feed that stops loading while it is scrolled loses the whole answer.
ScrollFails(r) ==
    /\ req[r].pc = "get" /\ req[r].kind = "search" /\ req[r].page = "feed" /\ Fault
    /\ Answer(r, "error")
    /\ OutsideUnchanged /\ UNCHANGED <<file, inst, published, rotations>>

\* VerifySession: the home page shows the account, redirects, or neither.
VerifySession(r) ==
    /\ req[r].pc = "page" /\ req[r].kind # "search"
    /\ \/ req[r].page = "feed" /\ EnterState(r, "healthy") /\ Goto(r, "get")
       \/ req[r].page = "login" /\ EnterState(r, "unauthenticated") /\ Answer(r, "error")
       \/ req[r].page = "broken" /\ EnterState(r, "degraded") /\ Answer(r, "error")
    /\ OutsideUnchanged /\ UNCHANGED <<file, published, rotations, faults>>
-----------------------------------------------------------------------------
(* BackupCookies *)

\* /auth/verify answers ok only when the cycle succeeded and nothing has
\* changed the state since.
VerifyAnswer(saved, state) == IF saved /\ state = "healthy" THEN "ok" ELSE "error"

\* The answer after the save.  A search ignores a failed save, a verify
\* does not; a missing feed settles the state only now.
AfterBackup(r, saved) ==
    LET q == req[r] IN
    CASE q.kind = "search" /\ q.page = "feed" -> [state |-> At(r).state, answer |-> "rendered"]
      [] q.kind = "search" /\ q.page # "feed" /\ classifyMissingFeed(q.page) = "explicit_empty"
            -> [state |-> "healthy", answer |-> "explicit_empty"]
      [] q.kind = "search" /\ q.page # "feed" /\ classifyMissingFeed(q.page) # "explicit_empty"
            -> [state |-> "degraded", answer |-> "unavailable"]
      [] OTHER -> [state |-> At(r).state,
                   answer |-> VerifyAnswer(saved, At(r).state)]

Finish(r, saved) ==
    LET after == AfterBackup(r, saved) IN
    /\ EnterState(r, after.state)
    /\ Answer(r, after.answer)

GetCookies(r) ==
    /\ req[r].pc = "get"
    /\ req' = [req EXCEPT ![r].pc = "put", ![r].got = At(r).jar]
    /\ OutsideUnchanged /\ UNCHANGED <<file, inst, published, rotations, faults>>

\* Nothing to save, or nothing new since this instance last saved or loaded.
BackupUnchanged(r) ==
    /\ req[r].pc = "put"
    /\ req[r].got = NoCookies \/ req[r].got = At(r).print
    /\ Finish(r, TRUE)
    /\ OutsideUnchanged /\ UNCHANGED <<file, published, rotations, faults>>

BackupChanged(r) == req[r].pc = "put" /\ req[r].got \notin {NoCookies, At(r).print}

\* The file takes a new content by an atomic rename: the last one wins.
Rename(cookies) ==
    /\ file' = [cookies |-> cookies, mtime |-> file.mtime + 1, ok |-> TRUE]
    /\ published' = published \cup {cookies}

\* WriteBackup refuses a set without auth_token.
WriteBackupAllows(cookies) == hasAuthToken(cookies)

WriteBackup(r) ==
    /\ BackupChanged(r)
    /\ WriteBackupAllows(req[r].got)
    /\ Rename(req[r].got)
    /\ Goto(r, "mark")
    /\ OutsideUnchanged /\ UNCHANGED <<inst, rotations, faults>>

RefuseBackup(r) ==
    /\ BackupChanged(r) /\ ~WriteBackupAllows(req[r].got)
    /\ Finish(r, FALSE)
    /\ OutsideUnchanged /\ UNCHANGED <<file, published, rotations, faults>>

\* (Mutant of FailBackup: the set counts as saved although the write failed.)
FailBackupMarked(r) ==
    /\ BackupChanged(r) /\ Fault
    /\ inst' = [inst EXCEPT ![req[r].at].print = req[r].got]
    /\ Answer(r, AfterBackup(r, FALSE).answer)
    /\ OutsideUnchanged /\ UNCHANGED <<file, published, rotations>>

FailBackup(r) ==
    /\ BackupChanged(r) /\ Fault
    /\ Finish(r, FALSE)
    /\ OutsideUnchanged /\ UNCHANGED <<file, published, rotations>>

\* The modification time is read back from the file, after the rename.
MarkBackup(r) ==
    LET after == AfterBackup(r, TRUE) IN
    /\ req[r].pc = "mark"
    /\ inst' = [inst EXCEPT ![req[r].at] = [SetState(@, after.state) EXCEPT
                                                !.print = req[r].got, !.loaded = file.mtime]]
    /\ Answer(r, after.answer)
    /\ OutsideUnchanged /\ UNCHANGED <<file, published, rotations, faults>>
-----------------------------------------------------------------------------
(* The browser process *)

\* Firefox is a critical child: its exit fails the state and ends the
\* process, and with it every request it was serving.
MarkBrowserExited(i) ==
    /\ inst[i].up /\ Fault
    /\ inst' = [inst EXCEPT ![i] = [@ EXCEPT !.up = FALSE, !.state = "failed"]]
    /\ req' = [r \in Requests |-> IF req[r].at = i /\ req[r].pc \notin {"idle", "done"}
                                  THEN Answered(req[r], "error")
                                  ELSE req[r]]
    /\ OutsideUnchanged /\ UNCHANGED <<file, published, rotations>>

\* The container comes back with the profile of its writable layer.
Restart(i) ==
    /\ ~inst[i].up
    /\ inst' = [inst EXCEPT ![i] = NewService(@.jar)]
    /\ OutsideUnchanged /\ UNCHANGED <<file, req, published, rotations, faults>>
-----------------------------------------------------------------------------
(* The login terminal *)

\* The operator logs in and closes Firefox; while it is open the capture
\* loop only waits.
Login ==
    /\ logins < MaxSessions
    /\ logins' = logins + 1
    /\ profile' = logins'
    /\ live' = live \cup {logins'}
    /\ UNCHANGED <<captured, file, inst, req, published, rotations, faults>>

\* The cookies a closed profile yields: expired ones are dropped.
ProfileSnapshot == [session |-> profile, rot |-> 0]

\* A profile without an unexpired auth_token is waited for; an unchanged
\* snapshot is not written again.
CaptureOnce ==
    LET snapshot == ProfileSnapshot IN
    /\ hasAuthToken(snapshot)
    /\ snapshot # captured
    /\ captured' = snapshot
    /\ Rename(snapshot)
    /\ UNCHANGED <<live, logins, profile, inst, req, rotations, faults>>

\* X drops a session; when its cookie expired, the profile drops it too.
Revoke(s) ==
    /\ s \in live
    /\ live' = live \ {s}
    /\ profile' \in IF profile = s THEN {0, s} ELSE {profile}
    /\ UNCHANGED <<logins, captured, file, inst, req, published, rotations, faults>>

\* A hand-edited or damaged file.
Corrupt ==
    /\ Fault
    /\ file' = [file EXCEPT !.ok = FALSE, !.mtime = @ + 1]
    /\ UNCHANGED <<live, logins, profile, captured, inst, req, published, rotations>>
-----------------------------------------------------------------------------
SessionNext ==
    \/ \E r \in Requests :
        \/ \E i \in Instances : Search(r, i)
        \/ \E i \in Instances, kind \in {"verify", "startup"} : EnsureAuthenticated(r, i, kind)
        \/ CanarySearch(r)
        \/ StatFile(r) \/ ReadFile(r) \/ AddCookies(r) \/ ReplaceCookiesFails(r)
        \/ Navigate(r) \/ NavigateFails(r) \/ SearchPage(r) \/ ScrollFails(r) \/ VerifySession(r)
        \/ GetCookies(r) \/ BackupUnchanged(r) \/ WriteBackup(r) \/ RefuseBackup(r)
        \/ FailBackup(r) \/ MarkBackup(r)
    \/ \E i \in Instances : MarkBrowserExited(i) \/ Restart(i)
    \/ Login \/ CaptureOnce \/ Corrupt
    \/ \E s \in live : Revoke(s)

SessionSpec == SessionInit /\ [][SessionNext]_sessionVars
-----------------------------------------------------------------------------
(* Properties *)

\* VerifiedIsPublished: whatever interleaving of searches, reloads and the
\* login terminal wrote it, the shared file only ever held sets with an
\* auth_token, and the cookies of every verification that answered ok are one
\* of them: neither the shortcut for unchanged cookies nor a save that failed
\* earlier lets a verified session stay in one browser only.  (A verification
\* that read the browser while another request had cleared it saves nothing.)
VerifiedIsPublished ==
    /\ \A c \in published : hasAuthToken(c)
    /\ \A r \in Requests :
         req[r].answer = "ok" /\ req[r].page = "feed" => req[r].got \in published \cup {NoCookies}

=============================================================================
