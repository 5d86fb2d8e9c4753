--------------------------- MODULE CandidateMedia ---------------------------
(***************************************************************************)
(* What one worker does to turn a tweet into a judged clip: the activities *)
(* DownloadAndStage, HashVideo and ValidateClip with their retries, the    *)
(* two semaphores they share (ffmpeg processes and model calls), the       *)
(* scratch directory of a tweet, and the object staged in Garage.          *)
(*                                                                         *)
(* A tweet's truth (content) is fixed.  Each attempt of an activity moves  *)
(* through the blocking operations of its handler; infrastructure may fail *)
(* any of them, the attempt may time out, and the worker may die, all      *)
(* within MaxFaults.  Errors keep the names of the Go sentinels.           *)
(***************************************************************************)
EXTENDS Naturals, FiniteSets

CONSTANTS
    Tweets,          \* candidates in work on this worker
    Contents,        \* which truths Init may pick for a tweet
    MaximumAttempts, \* attempts per activity: videoDownloadRetries, videoHashRetries, vision's 3
    MaxProcesses,    \* capacity of the ffmpeg semaphore
    ChatConcurrencyCap, \* capacity of the model semaphore
    MaxFaults        \* infrastructure failures in a behaviour

(* What a tweet may really be: in order of the operation that can tell,    *)
(* with "good" for a clip of the event that nothing is wrong with.         *)
Truths == {"bad_url", "cut_id", "deleted", "private", "no_video", "portrait", "geo",
           "broken", "low_rate", "short", "wrong", "good"}

ASSUME BoundsAssumption ==
    /\ IsFiniteSet(Tweets) /\ Contents \subseteq Truths
    /\ MaximumAttempts \in [{"download", "hash", "vision"} -> Nat \ {0}]
    /\ MaxProcesses \in Nat \ {0}
    /\ ChatConcurrencyCap \in Nat \ {0}
    /\ MaxFaults \in Nat

VARIABLES
    content,   \* tweet -> what it really is
    stage,     \* tweet -> activity the workflow waits for, or "done"
    tries,     \* tweet -> attempts started of that activity
    pc,        \* tweet -> where the running attempt is ("idle": none runs)
    source,    \* tweet -> <scratch>/<fixture>/<event>/<tweet>/source.mp4
    unwinding, \* tweets with a timed-out attempt whose RemoveAll is still to run
    staged,    \* tweets whose bytes are under their staging key
    out,       \* tweet -> what the workflow recorded
    ffSem,     \* slots taken in the ffmpeg semaphore
    chatSem,   \* slots taken in the model semaphore
    faults

(* History, which no step reads: what a remote last answered instead of    *)
(* serving the tweet, and the failures its activity has met on its own:    *)
(* not the ones an earlier attempt's late clean-up caused.                 *)
VARIABLES heard, hits

vars == <<content, stage, tries, pc, source, unwinding, staged, out, ffSem, chatSem, faults,
          heard, hits>>

----------------------------------------------------------------------------
(* Truths of a tweet, by the operation that can tell. *)

ResolveError(c) ==
    CASE c = "bad_url" -> "ErrMalformedTweetURL"
      [] c = "cut_id"  -> "ErrTruncatedSnowflake"
      [] c = "deleted" -> "ErrVideoNotAvailable"
      [] c = "private" -> "ErrGeoRestricted"
      [] c = "no_video" -> "ErrNoVideoVariants"
      [] OTHER -> "none"

(* Status codes and transport failures a request may meet, as typed errors *)
statusToErr(code) ==
    CASE code = 404 -> "ErrVideoNotAvailable"
      [] code = 403 -> "ErrGeoRestricted"
      [] code = 429 -> "ErrRateLimited"
      [] OTHER -> "ErrInvalidResponse"

fetchTweetResultFaults ==
    {"ErrCDNTimeout", "ErrTransport", statusToErr(429), statusToErr(500)}

(* A 403 from the CDN is terminal only with the literal geographic denial *)
classifyCDNDenial(c) == IF c = "geo" THEN "ErrCDNGeoRestricted" ELSE "ErrCDNForbidden"

(* What the CDN may answer instead of the bytes: a 404 too, which carries  *)
(* the error of a deleted tweet                                            *)
DownloadFaults ==
    {"ErrCDNTimeout", "ErrTransport", "ErrCDNStream", classifyCDNDenial("good")}
    \cup {statusToErr(code) : code \in {404, 429, 500}}

PreFilter(c) == c # "portrait"

HardFilter(c) == PreFilter(c) /\ c # "low_rate"

(* Terminal reject reasons; everything else is retried *)
classifySyndication(e) ==
    CASE e = "ErrMalformedTweetURL"  -> "malformed_url"
      [] e = "ErrTruncatedSnowflake" -> "truncated_snowflake"
      [] e = "ErrVideoNotAvailable"  -> "not_available"
      [] e = "ErrGeoRestricted"      -> "geo_restricted"
      [] e = "ErrCDNGeoRestricted"   -> "cdn_geo_restricted"
      [] e = "ErrNoVideoVariants"    -> "no_video_variant"
      [] OTHER -> "none"

(* The operations that run a subprocess.  ffprobe is called with -v quiet, *)
(* so its stderr is empty and carries none of the phrases looked for.      *)
ProbeOps == {"probe", "fingerprint", "clip_probe"}

Quiet == ProbeOps

classify(op, failure) ==
    CASE failure = "deadline"  -> "ErrExtractionTimeout"
      [] failure = "no_binary" -> "ErrBinaryNotFound"
      [] failure = "corrupt" /\ op \notin Quiet -> "ErrInputCorrupted"
      [] failure = "disk_full" /\ op \notin Quiet -> "ErrOutputWriteFailed"
      [] OTHER -> IF op \in ProbeOps THEN "ErrProbeFailed" ELSE "ErrExtractionFailed"

ProcessFaults == {"deadline", "no_binary", "disk_full"}

classifyTransient(e) ==
    CASE e = "ErrCDNForbidden" -> "forbidden"
      [] e = "ErrRateLimited"  -> "rate_limited"
      [] e = "ErrCDNTimeout"   -> "timeout"
      [] e = "ErrTransport"    -> "transport"
      [] e = "ErrInvalidResponse" -> "invalid_response"
      [] e = "ErrCDNStream"    -> "stream"
      [] OTHER -> "unknown"

classifyProbe(e) ==
    CASE e = "ErrExtractionTimeout" -> "timeout"
      [] e = "ErrBinaryNotFound"    -> "binary_missing"
      [] e = "ErrInputNotFound"     -> "input_missing"
      [] e = "ErrOutputWriteFailed" -> "filesystem"
      [] e = "ErrConcurrencyExhausted" -> "concurrency"
      [] e = "ErrProbeFailed"       -> "probe_failed"
      [] OTHER -> "unknown"

(* What the model endpoint may answer instead of a completion.  A body cut *)
(* short (cut_body) is io.ErrUnexpectedEOF, filed with malformed JSON.     *)
classifyError(answer) ==
    CASE answer = "429_capacity" -> "ErrCapExceeded"
      [] answer = "429"          -> "ErrRateLimited"
      [] answer = "5xx"          -> "ErrUnavailable"
      [] answer = "404"          -> "ErrModelNotFound"
      [] answer = "400"          -> "ErrInvalidRequest"
      [] answer = "401"          -> "ErrAuthFailed"
      [] answer \in {"cut_body", "bad_body"} -> "ErrInvalidJSON"
      [] answer = "refused"      -> "ErrUnavailable"
      [] OTHER -> "raw"

ChatFaults == {"429_capacity", "429", "5xx", "404", "400", "401", "cut_body", "refused", "deadline"}

(* visionFailure: permanent model errors end the activity on their first attempt *)
permanent(at, e) ==
    /\ at \in {"model_request", "response_parse"}
    /\ e \in {"ErrInvalidJSON", "ErrModelNotFound", "ErrInvalidRequest", "ErrAuthFailed"}

classifyFailure(at, e) ==
    CASE e \in {"raw", "ErrExtractionTimeout"} -> "timeout"
      [] e = "ErrRateLimited"    -> "rate_limited"
      [] e = "ErrCapExceeded"    -> "capacity"
      [] e = "ErrInvalidJSON"    -> "invalid_json"
      [] e = "ErrModelNotFound"  -> "model_not_found"
      [] e = "ErrInvalidRequest" -> "invalid_request"
      [] e = "ErrAuthFailed"     -> "auth"
      [] e = "ErrBinaryNotFound" -> "binary_missing"
      [] e = "ErrInputNotFound"  -> "input_missing"
      [] e = "ErrInputCorrupted" -> "input_corrupted"
      [] e = "ErrConcurrencyExhausted" -> "concurrency"
      [] e = "ErrOutputWriteFailed" -> "filesystem"
      [] e = "ErrProbeFailed"    -> "probe_failed"
      [] e = "ErrExtractionFailed" -> "extract_failed"
      [] e = "ErrUnavailable"    -> "unavailable"
      [] OTHER -> IF at = "staging_fetch" THEN "storage" ELSE "unknown"

----------------------------------------------------------------------------
(* Positions of an attempt.  <<op, "wait">> waits for an ffmpeg slot and   *)
(* <<op, "run">> holds one; likewise for the model's semaphore.            *)
FFOps == {"probe", "fingerprint", "dense", "clip_probe", "frame1", "frame2", "frame3"}

At(op, k) == <<op, k>>

Idle == At("none", "idle")

HoldsFF(t)   == pc[t][1] \in FFOps /\ pc[t][2] = "run"
HoldsChat(t) == pc[t] = At("chat", "run")

Pending == [verdict |-> "none", reason |-> "none", class |-> "none", activity |-> "none"]

Failed(act, at, c) == [verdict |-> "failed", reason |-> at, class |-> c, activity |-> act]

Rejected(why) == [Pending EXCEPT !.verdict = "rejected", !.reason = why]

Init ==
    /\ content \in [Tweets -> Contents]
    /\ stage = [t \in Tweets |-> "download"]
    /\ tries = [t \in Tweets |-> 0]
    /\ pc = [t \in Tweets |-> Idle]
    /\ source = [t \in Tweets |-> "none"]
    /\ unwinding = {}
    /\ staged = {}
    /\ out = [t \in Tweets |-> Pending]
    /\ ffSem = 0 /\ chatSem = 0 /\ faults = 0
    /\ heard = [t \in Tweets |-> "none"] /\ hits = [t \in Tweets |-> 0]

----------------------------------------------------------------------------
(* How an attempt ends.  Every path runs the deferred releases and, for a  *)
(* download attempt, the deferred RemoveAll of the tweet's directory.      *)

ReleaseSlots(t) ==
    /\ ffSem' = IF HoldsFF(t) THEN ffSem - 1 ELSE ffSem
    /\ chatSem' = IF HoldsChat(t) THEN chatSem - 1 ELSE chatSem

RemoveEventDirectory(t) ==
    source' = IF stage[t] = "download" THEN [u \in Tweets |-> "none"] ELSE source

RemoveAll(t) == source' = [source EXCEPT ![t] = IF stage[t] = "download" THEN "none" ELSE @]

(* The activity returns an error: Temporal retries it until MaximumAttempts *)
(* unless it is non-retryable, then the workflow records failed            *)
Retry(t, at, c, fatal) ==
    LET last == fatal \/ tries[t] >= MaximumAttempts[stage[t]] IN
    /\ pc' = [pc EXCEPT ![t] = Idle]
    /\ stage' = [stage EXCEPT ![t] = IF last THEN "done" ELSE @]
    /\ out' = [out EXCEPT ![t] = IF last THEN Failed(stage[t], at, c) ELSE @]

FailOn(t, answer, at, c, fatal) ==
    /\ Retry(t, at, c, fatal)
    /\ heard' = [heard EXCEPT ![t] = answer]
    /\ ReleaseSlots(t) /\ RemoveAll(t)
    /\ UNCHANGED <<content, tries, unwinding, staged>>

Fail(t, at, c, fatal) == FailOn(t, "none", at, c, fatal)

(* A terminal verdict of the activity: nil error, so nothing is retried *)
RejectOn(t, answer, why) ==
    /\ pc' = [pc EXCEPT ![t] = Idle]
    /\ stage' = [stage EXCEPT ![t] = "done"]
    /\ out' = [out EXCEPT ![t] = Rejected(why)]
    /\ heard' = [heard EXCEPT ![t] = answer]
    /\ ReleaseSlots(t) /\ RemoveAll(t)
    /\ UNCHANGED <<content, tries, unwinding, staged>>

Reject(t, why) == RejectOn(t, "none", why) /\ UNCHANGED <<faults, hits>>

(* The activity succeeds: VideoWorkflow goes on to hash, the parent to vision *)
Advance(t, next) ==
    /\ pc' = [pc EXCEPT ![t] = Idle]
    /\ stage' = [stage EXCEPT ![t] = next]
    /\ tries' = [tries EXCEPT ![t] = 0] /\ hits' = [hits EXCEPT ![t] = 0]
    /\ ReleaseSlots(t) /\ RemoveAll(t)
    /\ UNCHANGED <<content, unwinding, faults, heard>>

Goto(t, position) ==
    /\ pc' = [pc EXCEPT ![t] = position]
    /\ UNCHANGED <<content, stage, tries, unwinding, out, heard>>

(* The object store, by staging key: a PUT replaces, a GET needs the object *)
Upload(t) == staged' = staged \cup {t}

Download(t) == t \in staged

(* A failure the attempt itself meets; a fault is one of the infrastructure *)
Hit(t) == hits' = [hits EXCEPT ![t] = @ + 1]

Fault(t) == faults < MaxFaults /\ faults' = faults + 1 /\ Hit(t)

----------------------------------------------------------------------------
StartUnlimited(t) ==
    /\ stage[t] # "done" /\ pc[t] = Idle
    /\ tries' = [tries EXCEPT ![t] = IF @ + 1 < MaximumAttempts[stage[t]] THEN @ + 1 ELSE @]
    /\ pc' = [pc EXCEPT ![t] = CASE stage[t] = "download" -> At("resolve", "run")
                                 [] stage[t] = "hash"     -> At("hash_fetch", "run")
                                 [] stage[t] = "vision"   -> At("clip_fetch", "run")]
    /\ heard' = [heard EXCEPT ![t] = "none"]
    /\ UNCHANGED <<content, stage, source, unwinding, staged, out, ffSem, chatSem, faults, hits>>

(* Temporal dispatches an attempt of the activity the workflow waits for *)
StartAttempt(t) ==
    /\ stage[t] # "done" /\ pc[t] = Idle
    /\ tries' = [tries EXCEPT ![t] = @ + 1]
    /\ pc' = [pc EXCEPT ![t] = CASE stage[t] = "download" -> At("resolve", "run")
                                 [] stage[t] = "hash"     -> At("hash_fetch", "run")
                                 [] stage[t] = "vision"   -> At("clip_fetch", "run")]
    /\ heard' = [heard EXCEPT ![t] = "none"]
    /\ UNCHANGED <<content, stage, source, unwinding, staged, out, ffSem, chatSem, faults, hits>>

(* DownloadAndStage: resolve the tweet, filter on what the API said, then  *)
(* create source.mp4 in the tweet's scratch directory                      *)
ResolveVideo(t) ==
    /\ pc[t] = At("resolve", "run")
    /\ \/ /\ ResolveError(content[t]) # "none"
          /\ Reject(t, classifySyndication(ResolveError(content[t])))
       \/ /\ ResolveError(content[t]) = "none" /\ ~PreFilter(content[t])
          /\ Reject(t, "filtered")
       \/ /\ ResolveError(content[t]) = "none" /\ PreFilter(content[t])
          /\ Goto(t, At("fetch", "run"))
          /\ source' = [source EXCEPT ![t] = "part"]
          /\ UNCHANGED <<staged, ffSem, chatSem, faults, hits>>
       \/ \E e \in fetchTweetResultFaults :
          Fault(t) /\ Fail(t, "resolve", classifyTransient(e), FALSE)

(* downloadTo: the CDN answers with the bytes, with a denial, or not at all.*)
(* The open file keeps its bytes even when the path has been removed.       *)
downloadTo(t) ==
    /\ pc[t] = At("fetch", "run")
    /\ \/ /\ content[t] # "geo"
          /\ Goto(t, At("probe", "stat"))
          /\ source' = [source EXCEPT ![t] = IF @ = "none" THEN "none" ELSE "whole"]
          /\ UNCHANGED <<staged, ffSem, chatSem, faults, hits>>
       \/ /\ content[t] = "geo"
          /\ Reject(t, classifySyndication(classifyCDNDenial("geo")))
       \/ \E e \in DownloadFaults :
          /\ Fault(t)
          /\ IF classifySyndication(e) = "none"
             THEN Fail(t, "cdn_download", classifyTransient(e), FALSE)
             ELSE RejectOn(t, "cdn_404", classifySyndication(e))

(* The failure stage an error of a subprocess is filed under *)
StageOf(op) ==
    CASE op \in {"probe", "fingerprint"} -> "probe"
      [] op = "dense" -> "hash_error"
      [] op = "clip_probe" -> "probe"
      [] OTHER -> "frame_extract"

FailOp(t, op, e) ==
    Fail(t, StageOf(op), IF stage[t] = "download" THEN classifyProbe(e)
                         ELSE classifyFailure(StageOf(op), e), FALSE)

(* A fingerprint that cannot be computed leaves the identity empty *)
SkipFingerprint(t) ==
    /\ Goto(t, At("upload", "run"))
    /\ ReleaseSlots(t)
    /\ UNCHANGED <<source, staged>>

MissingIsCorrupt(t) ==
    /\ pc[t][2] = "stat"
    /\ IF stage[t] = "download" /\ source[t] = "none"
       THEN Reject(t, "corrupt")
       ELSE /\ Goto(t, At(pc[t][1], "wait"))
            /\ UNCHANGED <<source, staged, ffSem, chatSem, faults, hits>>

(* statInput: only a download attempt reads a directory it shares *)
statInput(t) ==
    /\ pc[t][2] = "stat"
    /\ \/ /\ stage[t] = "download" /\ source[t] = "none"
          /\ IF pc[t][1] = "fingerprint" THEN SkipFingerprint(t)
                                        ELSE FailOp(t, pc[t][1], "ErrInputNotFound")
       \/ /\ stage[t] # "download" \/ source[t] # "none"
          /\ Goto(t, At(pc[t][1], "wait"))
          /\ UNCHANGED <<source, staged, ffSem, chatSem>>
    /\ UNCHANGED <<faults, hits>>

(* acquire: a slot, or the operation's deadline while saturated *)
acquire(t) ==
    /\ pc[t][1] \in FFOps /\ pc[t][2] = "wait"
    /\ \/ /\ ffSem < MaxProcesses
          /\ ffSem' = ffSem + 1
          /\ Goto(t, At(pc[t][1], "run"))
          /\ UNCHANGED <<source, staged, chatSem, faults, hits>>
       \/ /\ ffSem = MaxProcesses
          /\ IF pc[t][1] = "fingerprint" THEN SkipFingerprint(t) /\ UNCHANGED <<faults, hits>>
             ELSE FailOp(t, pc[t][1], "ErrConcurrencyExhausted") /\ Hit(t) /\ UNCHANGED faults

(* ProbeMetadata in DownloadAndStage, then the hard filter *)
ProbeMetadata(t) ==
    LET good == source[t] = "whole" /\ content[t] # "broken"
        e == classify("probe", IF source[t] = "none" THEN "no_file" ELSE "corrupt")
    IN /\ pc[t] = At("probe", "run")
       /\ \/ /\ good /\ HardFilter(content[t])
             /\ Goto(t, At("fingerprint", "stat"))
             /\ ReleaseSlots(t) /\ UNCHANGED <<source, staged, faults, hits>>
          \/ good /\ ~HardFilter(content[t]) /\ Reject(t, "filtered")
          \/ /\ ~good
             /\ IF e = "ErrInputCorrupted" THEN Reject(t, "corrupt")
                                          ELSE FailOp(t, "probe", e) /\ UNCHANGED <<faults, hits>>
          \/ \E f \in ProcessFaults : Fault(t) /\ FailOp(t, "probe", classify("probe", f))

MediaFingerprint(t) ==
    /\ pc[t] = At("fingerprint", "run")
    /\ SkipFingerprint(t)
    /\ UNCHANGED <<faults, hits>>

(* uploadFile opens the scratch path again, then PUTs the staging key *)
uploadFile(t) ==
    /\ pc[t] = At("upload", "run")
    /\ \/ /\ source[t] = "whole"
          /\ Upload(t)
          /\ Advance(t, "hash")
          /\ UNCHANGED out
       \/ /\ source[t] # "whole"
          /\ Fail(t, "staging_upload", "storage", FALSE)
          /\ UNCHANGED <<faults, hits>>
       \/ Fault(t) /\ Fail(t, "staging_upload", "storage", FALSE)

----------------------------------------------------------------------------
(* HashVideo: fetch the staged object into a directory of its own, extract *)
(* frames in one pass, and reject a sequence too short to match            *)
fetchStaged(t) ==
    /\ pc[t] \in {At("hash_fetch", "run"), At("clip_fetch", "run")}
    /\ \/ /\ Download(t)
          /\ Goto(t, At(IF stage[t] = "hash" THEN "dense" ELSE "clip_probe", "stat"))
          /\ UNCHANGED <<source, staged, ffSem, chatSem, faults, hits>>
       \/ /\ ~Download(t)
          /\ Fail(t, "staging_fetch", "storage", FALSE) /\ UNCHANGED <<faults, hits>>
       \/ Fault(t) /\ Fail(t, "staging_fetch", "storage", FALSE)

ExtractDenseFrames(t) ==
    /\ pc[t] = At("dense", "run")
    /\ \/ content[t] = "short" /\ Reject(t, "insufficient_hash_frames")
       \/ content[t] # "short" /\ Advance(t, "vision") /\ UNCHANGED <<staged, out>>
       \/ \E f \in ProcessFaults : Fault(t) /\ FailOp(t, "dense", classify("dense", f))

----------------------------------------------------------------------------
(* ValidateClip: probe, three frames, one model call, the verdict *)
NextFrame(op) ==
    CASE op = "clip_probe" -> At("frame1", "stat")
      [] op = "frame1" -> At("frame2", "stat")
      [] op = "frame2" -> At("frame3", "stat")
      [] op = "frame3" -> At("chat", "wait")

ExtractFrame(t) ==
    /\ pc[t][1] \in {"clip_probe", "frame1", "frame2", "frame3"} /\ pc[t][2] = "run"
    /\ \/ /\ Goto(t, NextFrame(pc[t][1]))
          /\ ReleaseSlots(t)
          /\ UNCHANGED <<source, staged, faults, hits>>
       \/ \E f \in ProcessFaults : Fault(t) /\ FailOp(t, pc[t][1], classify(pc[t][1], f))

(* Chat waits for a slot of the model semaphore; only its context ends the wait *)
ChatAdmit(t) ==
    /\ pc[t] = At("chat", "wait")
    /\ chatSem < ChatConcurrencyCap
    /\ chatSem' = chatSem + 1
    /\ Goto(t, At("chat", "run"))
    /\ UNCHANGED <<source, staged, ffSem, faults, hits>>

(* The answer: a verdict on the content, an answer that does not decode,   *)
(* or a failure of the endpoint                                            *)
Chat(t) ==
    /\ pc[t] = At("chat", "run")
    /\ \/ content[t] = "wrong" /\ Reject(t, "vision")
       \/ /\ content[t] # "wrong"
          /\ out' = [out EXCEPT ![t] = [Pending EXCEPT !.verdict = "passed"]]
          /\ Advance(t, "done") /\ UNCHANGED staged
       \/ LET e == classifyError("bad_body") IN
          Fault(t) /\ FailOn(t, "bad_body", "response_parse", classifyFailure("response_parse", e), permanent("response_parse", e))
       \/ \E a \in ChatFaults : LET e == classifyError(a) IN
          Fault(t) /\ FailOn(t, a, "model_request", classifyFailure("model_request", e), permanent("model_request", e))

----------------------------------------------------------------------------
(* StartToClose ends the attempt: its context is done, every blocking call *)
(* returns, the slots come back, but the RemoveAll of a download attempt   *)
(* may run only after Temporal has dispatched the next one.  An upload cut *)
(* off this way may have reached the store.                                *)
TimeOut(t) ==
    /\ pc[t] # Idle /\ t \notin unwinding
    /\ Fault(t)
    /\ Retry(t, "activity", "timeout", FALSE)
    /\ ReleaseSlots(t)
    /\ unwinding' = IF stage[t] = "download" /\ pc[t][1] # "resolve" THEN unwinding \cup {t} ELSE unwinding
    /\ \/ staged' = staged
       \/ pc[t] = At("upload", "run") /\ source[t] = "whole" /\ Upload(t)
    /\ UNCHANGED <<content, tries, source, heard>>

LateRemoveAll(t) ==
    /\ t \in unwinding
    /\ unwinding' = unwinding \ {t}
    /\ source' = [source EXCEPT ![t] = "none"]
    /\ UNCHANGED <<content, stage, tries, pc, staged, out, ffSem, chatSem, faults, heard, hits>>

(* The worker dies: its attempts miss their heartbeats, its semaphores and *)
(* pending cleanups are gone, its scratch files stay                       *)
WorkerDies ==
    /\ faults < MaxFaults /\ faults' = faults + 1
    /\ ffSem' = 0 /\ chatSem' = 0 /\ unwinding' = {}
    /\ LET running == {t \in Tweets : pc[t] # Idle}
           ended == {t \in running : tries[t] >= MaximumAttempts[stage[t]]}
       IN /\ running # {}
          /\ stage' = [t \in Tweets |-> IF t \in ended THEN "done" ELSE stage[t]]
          /\ out' = [t \in Tweets |-> IF t \in ended THEN Failed(stage[t], "activity", "timeout") ELSE out[t]]
          /\ hits' = [t \in Tweets |-> IF t \in running THEN hits[t] + 1 ELSE hits[t]]
    /\ pc' = [t \in Tweets |-> Idle]
    /\ UNCHANGED <<content, tries, source, staged, heard>>

DownloadAndStage(t) ==
    \/ ResolveVideo(t) \/ downloadTo(t) \/ ProbeMetadata(t) \/ MediaFingerprint(t) \/ uploadFile(t)

HashVideo(t) == (stage[t] = "hash" /\ fetchStaged(t)) \/ ExtractDenseFrames(t)

ValidateClip(t) ==
    (stage[t] = "vision" /\ fetchStaged(t)) \/ ExtractFrame(t) \/ ChatAdmit(t) \/ Chat(t)

Progress(t) ==
    \/ StartAttempt(t) \/ statInput(t) \/ acquire(t)
    \/ DownloadAndStage(t) \/ HashVideo(t) \/ ValidateClip(t)

Next ==
    \/ \E t \in Tweets : Progress(t) \/ TimeOut(t) \/ LateRemoveAll(t)
    \/ WorkerDies

(* A worker keeps running its attempts, so every enabled step of a tweet is *)
(* eventually taken                                                         *)
Spec == Init /\ [][Next]_vars /\ \A t \in Tweets : WF_vars(Progress(t)) /\ WF_vars(LateRemoveAll(t))

----------------------------------------------------------------------------
Stages == {"download", "hash", "vision", "done"}

(* Where an attempt of each activity can be *)
Positions ==
    [download |-> {At("resolve", "run"), At("fetch", "run"), At("upload", "run")}
                    \cup {"probe", "fingerprint"} \X {"stat", "wait", "run"},
     hash     |-> {At("hash_fetch", "run")} \cup {"dense"} \X {"stat", "wait", "run"},
     vision   |-> {At("clip_fetch", "run"), At("chat", "wait"), At("chat", "run")}
                    \cup {"clip_probe", "frame1", "frame2", "frame3"} \X {"stat", "wait", "run"},
     done     |-> {}]

Operations == {"none", "resolve", "fetch", "upload", "hash_fetch", "clip_fetch", "chat"} \cup FFOps

(* The reasons of a rejection, the places and the classes of a failure *)
Reasons == {"malformed_url", "truncated_snowflake", "not_available", "geo_restricted",
            "cdn_geo_restricted", "no_video_variant", "filtered", "corrupt",
            "insufficient_hash_frames", "vision"}

Places == {"resolve", "cdn_download", "probe", "staging_upload", "staging_fetch", "hash_error",
           "frame_extract", "model_request", "response_parse", "activity"}

Classes == {"forbidden", "rate_limited", "timeout", "transport", "invalid_response", "stream",
            "binary_missing", "input_missing", "filesystem", "concurrency", "probe_failed",
            "capacity", "invalid_json", "model_not_found", "invalid_request", "auth",
            "input_corrupted", "extract_failed", "unavailable", "storage", "unknown"}

Answers == {"none", "cdn_404", "bad_body"} \cup ChatFaults

Outcomes == [verdict: {"none", "passed", "rejected", "failed"},
             reason: Reasons \cup Places \cup {"none"}, class: Classes \cup {"none"},
             activity: {"download", "hash", "vision", "none"}]

(* The tweets' activities, attempts and outcomes, and the two semaphores *)
TypeOK ==
    /\ content \in [Tweets -> Truths]
    /\ stage \in [Tweets -> Stages]
    /\ tries \in [Tweets -> Nat]
    /\ pc \in [Tweets -> Operations \X {"idle", "stat", "wait", "run"}]
    /\ \A t \in Tweets : pc[t] \in Positions[stage[t]] \cup {Idle}
    /\ source \in [Tweets -> {"none", "part", "whole"}]
    /\ unwinding \subseteq Tweets /\ staged \subseteq Tweets
    /\ out \in [Tweets -> Outcomes]
    /\ ffSem \in 0 .. MaxProcesses /\ chatSem \in 0 .. ChatConcurrencyCap
    /\ faults \in 0 .. MaxFaults
    /\ heard \in [Tweets -> Answers] /\ hits \in [Tweets -> Nat]

(* Every slot that is taken is held by a running attempt, and by one only: *)
(* no failure, timeout or worker death leaks a slot or gives it back twice *)
SlotsAreHeld ==
    /\ ffSem = Cardinality({t \in Tweets : HoldsFF(t)})
    /\ chatSem = Cardinality({t \in Tweets : HoldsChat(t)})

(* The truths that make a rejection right, by the reason it carries *)
Deserves(c, why) ==
    CASE why = "malformed_url"       -> c = "bad_url"
      [] why = "truncated_snowflake" -> c = "cut_id"
      [] why = "not_available"       -> c = "deleted"
      [] why = "geo_restricted"      -> c = "private"
      [] why = "cdn_geo_restricted"  -> c = "geo"
      [] why = "no_video_variant"    -> c = "no_video"
      [] why = "filtered"            -> c \in {"portrait", "low_rate"}
      [] why = "corrupt"             -> c = "broken"
      [] why = "insufficient_hash_frames" -> c = "short"
      [] why = "vision"              -> c = "wrong"

(* A candidate is rejected only for what its tweet really is, but for one  *)
(* answer, a 404 of the CDN, and passes only when nothing is wrong with    *)
(* it: no other CDN denial, lost scratch file, late cleanup of an earlier  *)
(* attempt, timeout or worker death is turned into a verdict.              *)
VerdictIsContent ==
    \A t \in Tweets :
        /\ out[t].verdict = "rejected" =>
              \/ Deserves(content[t], out[t].reason)
              \/ out[t].reason = "not_available" /\ heard[t] = "cdn_404"
        /\ out[t].verdict = "passed" => content[t] = "good"

(* The answers of the model endpoint that come back however often it is    *)
(* asked: they name the request, the model, the key, or a whole body that  *)
(* does not parse                                                          *)
Deterministic == {"404", "400", "401", "bad_body"}

(* A candidate is given up as failed for one of three reasons only.  The   *)
(* model gave an answer filed as permanent, among them a body cut short.   *)
(* Or every attempt the policy grants was used, on a file that is broken,  *)
(* or with failures met by at least half of the attempts themselves: the   *)
(* late RemoveAll of a timed-out attempt takes the file from at most one   *)
(* later attempt, so it never uses up the attempts of a sound clip alone.  *)
FailedIsExhausted ==
    \A t \in Tweets : out[t].verdict = "failed" =>
        LET granted == MaximumAttempts[out[t].activity] IN
        \/ heard[t] \in Deterministic \cup {"cut_body"}
        \/ tries[t] = granted /\ (content[t] = "broken" \/ 2 * hits[t] >= granted)

(* Every candidate is eventually judged or given up, however its attempts  *)
(* queue on the semaphores and whatever fails.                             *)
CandidatesFinish == \A t \in Tweets : <>(stage[t] = "done")

=============================================================================
