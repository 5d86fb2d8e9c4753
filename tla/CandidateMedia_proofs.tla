------------------------ MODULE CandidateMedia_proofs ------------------------
(***************************************************************************)
(* What the activities of a worker conclude about a tweet is true of the   *)
(* tweet, a failure has used its attempts, and no slot is lost, for any    *)
(* number of tweets, attempts, slots and faults.                           *)
(***************************************************************************)
EXTENDS CandidateMedia, FiniteSetTheorems, TLAPS

Unresolvable == {"bad_url", "cut_id", "deleted", "private", "no_video"}

(* What a tweet can no longer be once its activity s has come to op.       *)
RuledOut(s, op) ==
    (IF s # "download" \/ op \in {"fetch", "probe", "fingerprint", "upload"}
     THEN Unresolvable \cup {"portrait"} ELSE {})
    \cup (IF s # "download" \/ op \in {"probe", "fingerprint", "upload"} THEN {"geo"} ELSE {})
    \cup (IF s # "download" \/ op \in {"fingerprint", "upload"} THEN {"broken", "low_rate"} ELSE {})
    \cup (IF s = "vision" THEN {"short"} ELSE {})

(* An activity that may run again has an attempt left, one that runs has   *)
(* not had too many, and nothing is recorded before the last has ended.    *)
Going(c, s, n, p, o) ==
    /\ c \notin RuledOut(s, p[1])
    /\ o = Pending
    /\ n <= MaximumAttempts[s]
    /\ p = Idle => n < MaximumAttempts[s]

(* What is recorded of a tweet that is done.                               *)
Permanent == Deterministic \cup {"cut_body"}

Ended(c, n, o, a) ==
    /\ o.verdict # "none"
    /\ o.verdict = "rejected" =>
          Deserves(c, o.reason) \/ (o.reason = "not_available" /\ a = "cdn_404")
    /\ o.verdict = "passed" => c = "good"
    /\ o.verdict = "failed" =>
          \/ o.activity \in {"download", "hash", "vision"} /\ n = MaximumAttempts[o.activity]
          \/ a \in Permanent

TweetSound(t) ==
    IF stage[t] = "done" THEN Ended(content[t], tries[t], out[t], heard[t])
    ELSE Going(content[t], stage[t], tries[t], pc[t], out[t])

CandidateInv == TypeOK /\ SlotsAreHeld /\ \A t \in Tweets : TweetSound(t)

-----------------------------------------------------------------------------
(* The classifiers. *)

(* A tweet that cannot be resolved is rejected for what it is              *)
(* (classifySyndication).                                                  *)
LEMMA ResolveReasons ==
    ASSUME NEW c \in Truths
    PROVE  /\ ResolveError(c) # "none" => /\ classifySyndication(ResolveError(c)) \in Reasons
                                         /\ Deserves(c, classifySyndication(ResolveError(c)))
           /\ ResolveError(c) = "none" => c \notin Unresolvable
  BY DEF Truths, ResolveError, classifySyndication, Deserves, Unresolvable, Reasons

(* No denial or failure of the CDN is a reject but the geographic denial   *)
(* and the 404 (classifyCDNDenial, statusToErr).                           *)
LEMMA DownloadReasons ==
    /\ \A e \in DownloadFaults : /\ classifySyndication(e) \in {"none", "not_available"}
                                  /\ classifyTransient(e) \in Classes
    /\ \A e \in fetchTweetResultFaults : classifyTransient(e) \in Classes
    /\ classifySyndication(classifyCDNDenial("geo")) = "cdn_geo_restricted"
  BY DEF DownloadFaults, fetchTweetResultFaults, classifyCDNDenial, statusToErr,
         classifySyndication, classifyTransient, Classes

(* Classes of failures; of the model's answers only those of Permanent end *)
(* an activity early (visionFailure, classifyFailure).                     *)
LEMMA FailureClasses ==
    ASSUME NEW at, NEW e
    PROVE  classifyFailure(at, e) \in Classes /\ classifyProbe(e) \in Classes
           /\ permanent(at, e) \in BOOLEAN
  <1>1. classifyProbe(e) \in Classes
    BY DEF classifyProbe, Classes
  <1>2. classifyFailure(at, e) \in Classes
    BY DEF classifyFailure, Classes
  <1>3. permanent(at, e) \in BOOLEAN
    BY DEF permanent
  <1> QED BY <1>1, <1>2, <1>3

(* The answers filed as permanent, broken up.                              *)
LEMMA PermanentAnswers ==
    /\ "bad_body" \in Answers \cap Permanent
    /\ \A a \in ChatFaults :
          a \in Answers /\ (permanent("model_request", classifyError(a)) => a \in Permanent)
  BY DEF ChatFaults, Answers, classifyError, permanent, Permanent, Deterministic

-----------------------------------------------------------------------------
(* The semaphores. *)

Where == Operations \X {"idle", "stat", "wait", "run"}

FFHolders(f) == {t \in Tweets : f[t][1] \in FFOps /\ f[t][2] = "run"}

ChatHolders(f) == {t \in Tweets : f[t] = At("chat", "run")}

(* A position that holds no slot.                                          *)
Free(p) == ~(p[1] \in FFOps /\ p[2] = "run") /\ p # At("chat", "run")

(* Taking or giving back a slot changes the number of its holders by one.  *)
LEMMA HoldersCount ==
    /\ SlotsAreHeld <=> ffSem = Cardinality(FFHolders(pc)) /\ chatSem = Cardinality(ChatHolders(pc))
    /\ SlotsAreHeld' <=> ffSem' = Cardinality(FFHolders(pc')) /\ chatSem' = Cardinality(ChatHolders(pc'))
  BY DEF SlotsAreHeld, FFHolders, ChatHolders, HoldsFF, HoldsChat

(* The holders of a semaphore are finitely many.                           *)
LEMMA HoldersFinite ==
    ASSUME NEW f
    PROVE  /\ IsFiniteSet(FFHolders(f)) /\ IsFiniteSet(ChatHolders(f))
           /\ Cardinality(FFHolders(f)) \in Nat /\ Cardinality(ChatHolders(f)) \in Nat
  <1>1. FFHolders(f) \subseteq Tweets /\ ChatHolders(f) \subseteq Tweets
    BY DEF FFHolders, ChatHolders
  <1> QED BY <1>1, BoundsAssumption, FS_Subset, FS_CardinalityType

(* Moving one attempt to a position that holds nothing.                    *)
LEMMA HoldersMove ==
    ASSUME NEW f \in [Tweets -> Where], NEW t \in Tweets,
           NEW p \in Where
    PROVE  LET g == [f EXCEPT ![t] = p] IN
           /\ Free(p) => /\ FFHolders(g) = FFHolders(f) \ {t}
                         /\ ChatHolders(g) = ChatHolders(f) \ {t}
           /\ p[1] \in FFOps /\ p[2] = "run" =>
                         /\ FFHolders(g) = FFHolders(f) \cup {t}
                         /\ ChatHolders(g) = ChatHolders(f) \ {t}
           /\ p = At("chat", "run") =>
                         /\ FFHolders(g) = FFHolders(f) \ {t}
                         /\ ChatHolders(g) = ChatHolders(f) \cup {t}
  <1> DEFINE g == [f EXCEPT ![t] = p]
  <1>1. /\ g[t] = p
        /\ \A s \in Tweets : s # t => g[s] = f[s]
    OBVIOUS
  <1>2. p = At("chat", "run") => ~(p[1] \in FFOps)
    BY DEF At, FFOps
  <1> HIDE DEF g
  <1> QED BY <1>1, <1>2 DEF Free, FFHolders, ChatHolders

(* An attempt that ends, or leaves its operation, gives back what it held. *)
LEMMA SlotsReleased ==
    ASSUME TypeOK, SlotsAreHeld, NEW t \in Tweets, NEW p \in Where, Free(p),
           pc' = [pc EXCEPT ![t] = p], ReleaseSlots(t)
    PROVE  SlotsAreHeld' /\ ffSem' \in 0 .. MaxProcesses /\ chatSem' \in 0 .. ChatConcurrencyCap
  <1> DEFINE A == FFHolders(pc)  B == ChatHolders(pc)
  <1>1. FFHolders(pc') = A \ {t} /\ ChatHolders(pc') = B \ {t}
    <2>1. pc \in [Tweets -> Where]
      BY DEF TypeOK, Where
    <2> QED BY <2>1, HoldersMove
  <1>2. IsFiniteSet(A) /\ IsFiniteSet(B)
    BY HoldersFinite
  <1>3. /\ Cardinality(A \ {t}) = IF t \in A THEN Cardinality(A) - 1 ELSE Cardinality(A)
        /\ Cardinality(B \ {t}) = IF t \in B THEN Cardinality(B) - 1 ELSE Cardinality(B)
    BY <1>2, FS_RemoveElement
  <1>4. (t \in A <=> HoldsFF(t)) /\ (t \in B <=> HoldsChat(t))
    BY DEF FFHolders, ChatHolders, HoldsFF, HoldsChat
  <1>5. ffSem = Cardinality(A) /\ chatSem = Cardinality(B)
    BY HoldersCount
  <1>6. Cardinality(A \ {t}) \in Nat /\ Cardinality(B \ {t}) \in Nat
    BY <1>1, HoldersFinite
  <1> HIDE DEF A, B
  <1>7. ffSem' = Cardinality(A \ {t}) /\ chatSem' = Cardinality(B \ {t})
    BY <1>3, <1>4, <1>5 DEF ReleaseSlots
  <1>8. ffSem' \in 0 .. MaxProcesses
    BY <1>3, <1>5, <1>6, <1>7, BoundsAssumption DEF TypeOK, Where
  <1>9. chatSem' \in 0 .. ChatConcurrencyCap
    BY <1>3, <1>5, <1>6, <1>7, BoundsAssumption DEF TypeOK, Where
  <1> QED BY <1>1, <1>7, <1>8, <1>9, HoldersCount

(* An idle activity holds no slot.                                         *)
LEMMA IdleIsFree == Free(Idle) /\ Idle \in Where
  BY DEF Free, Idle, At, FFOps, Where, Operations

(* An attempt that ends gives back what it held.                           *)
LEMMA SlotsReturned ==
    ASSUME TypeOK, SlotsAreHeld, NEW t \in Tweets,
           pc' = [pc EXCEPT ![t] = Idle], ReleaseSlots(t)
    PROVE  SlotsAreHeld' /\ ffSem' \in 0 .. MaxProcesses /\ chatSem' \in 0 .. ChatConcurrencyCap
  BY IdleIsFree, SlotsReleased

(* An attempt that holds nothing and takes nothing.                        *)
LEMMA SlotsKept ==
    ASSUME TypeOK, SlotsAreHeld, NEW t \in Tweets, NEW p \in Where, Free(p),
           Free(pc[t]), pc' = [pc EXCEPT ![t] = p], UNCHANGED <<ffSem, chatSem>>
    PROVE  SlotsAreHeld' /\ ffSem' \in 0 .. MaxProcesses /\ chatSem' \in 0 .. ChatConcurrencyCap
  <1>1. ReleaseSlots(t)
    BY DEF ReleaseSlots, HoldsFF, HoldsChat, Free
  <1> QED BY <1>1, SlotsReleased

(* A slot that is taken below the capacity.                                *)
LEMMA SlotsTaken ==
    ASSUME TypeOK, SlotsAreHeld, NEW t \in Tweets, NEW p \in Where, Free(pc[t]),
           pc' = [pc EXCEPT ![t] = p],
           \/ /\ p[1] \in FFOps /\ p[2] = "run"
              /\ ffSem < MaxProcesses /\ ffSem' = ffSem + 1 /\ chatSem' = chatSem
           \/ /\ p = At("chat", "run")
              /\ chatSem < ChatConcurrencyCap /\ chatSem' = chatSem + 1 /\ ffSem' = ffSem
    PROVE  SlotsAreHeld' /\ ffSem' \in 0 .. MaxProcesses /\ chatSem' \in 0 .. ChatConcurrencyCap
  <1> DEFINE A == FFHolders(pc)  B == ChatHolders(pc)
  <1>0. pc \in [Tweets -> Where]
    BY DEF TypeOK, Where
  <1>1. t \notin A /\ t \notin B
    BY DEF FFHolders, ChatHolders, Free
  <1>2. IsFiniteSet(A) /\ IsFiniteSet(B)
    BY HoldersFinite
  <1>3. ffSem = Cardinality(A) /\ chatSem = Cardinality(B)
    BY HoldersCount
  <1>4. Cardinality(A \cup {t}) = Cardinality(A) + 1 /\ Cardinality(B \cup {t}) = Cardinality(B) + 1
    BY <1>1, <1>2, FS_AddElement
  <1>5. ffSem' \in 0 .. MaxProcesses /\ chatSem' \in 0 .. ChatConcurrencyCap
    BY BoundsAssumption DEF TypeOK, Where
  <1>6. CASE p[1] \in FFOps /\ p[2] = "run" /\ ffSem' = ffSem + 1 /\ chatSem' = chatSem
    <2>1. FFHolders(pc') = A \cup {t} /\ ChatHolders(pc') = B \ {t}
      BY <1>0, <1>6, HoldersMove
    <2>2. B \ {t} = B
      BY <1>1
    <2> HIDE DEF A, B
    <2> QED BY <1>3, <1>4, <1>5, <1>6, <2>1, <2>2, HoldersCount
  <1>7. CASE p = At("chat", "run") /\ chatSem' = chatSem + 1 /\ ffSem' = ffSem
    <2>1. ChatHolders(pc') = B \cup {t} /\ FFHolders(pc') = A \ {t}
      BY <1>0, <1>7, HoldersMove
    <2>2. A \ {t} = A
      BY <1>1
    <2> HIDE DEF A, B
    <2> QED BY <1>3, <1>4, <1>5, <1>7, <2>1, <2>2, HoldersCount
  <1> QED BY <1>6, <1>7

-----------------------------------------------------------------------------
(* What the endings of an attempt do to its tweet.                         *)

Sound(c, s, n, p, o, a) == IF s = "done" THEN Ended(c, n, o, a) ELSE Going(c, s, n, p, o)

(* The two counts of failures.                                             *)
Counters == faults \in 0 .. MaxFaults /\ hits \in [Tweets -> Nat]

(* A step of one tweet leaves the others alone.                            *)
LEMMA OneTweet ==
    ASSUME CandidateInv, NEW t \in Tweets, NEW s, NEW n, NEW p, NEW o, NEW a,
           content' = content,
           stage' = [stage EXCEPT ![t] = s],
           tries' = [tries EXCEPT ![t] = n],
           pc' = [pc EXCEPT ![t] = p],
           out' = [out EXCEPT ![t] = o],
           heard' = [heard EXCEPT ![t] = a],
           s \in Stages, n \in Nat, p \in Where, p \in Positions[s] \cup {Idle}, o \in Outcomes,
           a \in Answers,
           Sound(content[t], s, n, p, o, a),
           SlotsAreHeld', ffSem' \in 0 .. MaxProcesses, chatSem' \in 0 .. ChatConcurrencyCap,
           source' \in [Tweets -> {"none", "part", "whole"}],
           unwinding' \subseteq Tweets, staged' \subseteq Tweets, Counters'
    PROVE  CandidateInv'
  <1>1. /\ content \in [Tweets -> Truths] /\ stage \in [Tweets -> Stages]
        /\ tries \in [Tweets -> Nat] /\ pc \in [Tweets -> Where] /\ out \in [Tweets -> Outcomes]
        /\ heard \in [Tweets -> Answers]
        /\ \A u \in Tweets : pc[u] \in Positions[stage[u]] \cup {Idle}
    BY DEF CandidateInv, TypeOK, Where
  <1>2. /\ stage'[t] = s /\ tries'[t] = n /\ pc'[t] = p /\ out'[t] = o /\ content'[t] = content[t]
        /\ heard'[t] = a
        /\ \A u \in Tweets : u # t => /\ stage'[u] = stage[u] /\ tries'[u] = tries[u]
                                      /\ pc'[u] = pc[u] /\ out'[u] = out[u] /\ content'[u] = content[u]
                                      /\ heard'[u] = heard[u]
    BY <1>1
  <1>3. /\ content' \in [Tweets -> Truths] /\ stage' \in [Tweets -> Stages]
        /\ tries' \in [Tweets -> Nat] /\ pc' \in [Tweets -> Where] /\ out' \in [Tweets -> Outcomes]
        /\ heard' \in [Tweets -> Answers]
    BY <1>1
  <1>4. \A u \in Tweets : pc'[u] \in Positions'[stage'[u]] \cup {Idle'}
    BY <1>1, <1>2 DEF Positions, Idle, At
  <1>5. TypeOK'
    BY <1>3, <1>4 DEF TypeOK, Where, Counters, Answers, ChatFaults
  <1>6. \A u \in Tweets : TweetSound(u)'
    <2> SUFFICES ASSUME NEW u \in Tweets
                 PROVE  Sound(content'[u], stage'[u], tries'[u], pc'[u], out'[u], heard'[u])
      BY DEF TweetSound, Sound, Ended, Going, Pending, Idle, At
    <2>1. CASE u = t
      BY <2>1, <1>2
    <2>2. CASE u # t
      <3>1. Sound(content[u], stage[u], tries[u], pc[u], out[u], heard[u])
        BY DEF CandidateInv, TweetSound, Sound
      <3> QED BY <2>2, <3>1, <1>2
    <2> QED BY <2>1, <2>2
  <1> QED BY <1>5, <1>6 DEF CandidateInv

(* What is known of a tweet whose attempt is running.                      *)
LEMMA Running ==
    ASSUME CandidateInv, NEW t \in Tweets, pc[t] # Idle
    PROVE  /\ stage[t] \in {"download", "hash", "vision"}
           /\ pc[t] \in Positions[stage[t]] /\ pc[t] \in Where
           /\ Going(content[t], stage[t], tries[t], pc[t], out[t])
           /\ content[t] \in Truths /\ tries[t] \in Nat /\ MaximumAttempts[stage[t]] \in Nat \ {0}
  <1>1. stage[t] # "done"
    BY DEF CandidateInv, TypeOK, Positions
  <1>2. stage[t] \in {"download", "hash", "vision"}
    BY <1>1 DEF CandidateInv, TypeOK, Stages
  <1>3. pc[t] \in Positions[stage[t]] /\ pc[t] \in Where /\ content[t] \in Truths /\ tries[t] \in Nat
    BY DEF CandidateInv, TypeOK, Where
  <1>4. Going(content[t], stage[t], tries[t], pc[t], out[t])
    BY <1>1 DEF CandidateInv, TweetSound
  <1> QED BY <1>2, <1>3, <1>4, BoundsAssumption

(* Without an attempt running only less is known of the content.           *)
LEMMA IdleRulesOutLess ==
    ASSUME NEW s, NEW p PROVE RuledOut(s, Idle[1]) \subseteq RuledOut(s, p[1])
  BY DEF RuledOut, Idle, At

(* RemoveAll keeps the type of the scratch files (activities.go:107).      *)
LEMMA ScratchRemoved ==
    ASSUME CandidateInv, NEW t \in Tweets, RemoveAll(t)
    PROVE  source' \in [Tweets -> {"none", "part", "whole"}]
  BY DEF CandidateInv, TypeOK, RemoveAll

(* An error ends the activity only on its last attempt, or when repeating  *)
(* cannot help; TimeOut and WorkerDies go the same way.                    *)
LEMMA RetryKeeps ==
    ASSUME CandidateInv, NEW t \in Tweets, pc[t] # Idle, NEW at \in Places, NEW c \in Classes,
           NEW fatal \in BOOLEAN, NEW a \in Answers, fatal => a \in Permanent,
           Retry(t, at, c, fatal), ReleaseSlots(t), UNCHANGED <<content, tries>>,
           heard' = [heard EXCEPT ![t] = a],
           source' \in [Tweets -> {"none", "part", "whole"}],
           unwinding' \subseteq Tweets, staged' \subseteq Tweets, Counters'
    PROVE  CandidateInv'
  <1> DEFINE last == fatal \/ tries[t] >= MaximumAttempts[stage[t]]
             s == IF last THEN "done" ELSE stage[t]
             o == IF last THEN Failed(stage[t], at, c) ELSE out[t]
  <1>1. /\ stage[t] \in {"download", "hash", "vision"} /\ tries[t] \in Nat
        /\ Going(content[t], stage[t], tries[t], pc[t], out[t])
        /\ MaximumAttempts[stage[t]] \in Nat \ {0}
    BY Running
  <1>2. TypeOK /\ SlotsAreHeld
    BY DEF CandidateInv
  <1>3. /\ SlotsAreHeld' /\ ffSem' \in 0 .. MaxProcesses /\ chatSem' \in 0 .. ChatConcurrencyCap
    <2>1. pc' = [pc EXCEPT ![t] = Idle] /\ ReleaseSlots(t)
      BY DEF Retry
    <2> QED BY <1>2, <2>1, SlotsReturned
  <1>4. /\ stage' = [stage EXCEPT ![t] = s] /\ pc' = [pc EXCEPT ![t] = Idle]
        /\ out' = [out EXCEPT ![t] = o] /\ tries' = [tries EXCEPT ![t] = tries[t]]
    BY <1>2 DEF Retry, TypeOK
  <1>5. s \in Stages /\ Idle \in Positions[s] \cup {Idle}
    BY <1>1 DEF Stages
  <1>6. o \in Outcomes
    <2>1. out[t] \in Outcomes
      BY <1>2 DEF TypeOK
    <2> QED BY <1>1, <2>1 DEF Outcomes, Failed
  <1>7. Sound(content[t], s, tries[t], Idle, o, a)
    <2>1. CASE last
      <3>1. Failed(stage[t], at, c).verdict = "failed"
            /\ Failed(stage[t], at, c).activity = stage[t]
        BY DEF Failed
      <3>2. fatal \/ tries[t] = MaximumAttempts[stage[t]]
        BY <1>1, <2>1 DEF Going
      <3> QED BY <1>1, <2>1, <3>1, <3>2 DEF Sound, Ended
    <2>2. CASE ~last
      <3>1. tries[t] < MaximumAttempts[stage[t]]
        BY <1>1, <2>2
      <3> QED BY <1>1, <2>2, <3>1, IdleRulesOutLess DEF Sound, Going
    <2> QED BY <2>1, <2>2
  <1> HIDE DEF s, o
  <1> QED BY <1>1, <1>3, <1>4, <1>5, <1>6, <1>7, IdleIsFree, OneTweet

(* An attempt that returns an error keeps the invariant (activities.go:337). *)
LEMMA FailOnKeeps ==
    ASSUME CandidateInv, NEW t \in Tweets, pc[t] # Idle, NEW at \in Places, NEW c \in Classes,
           NEW fatal \in BOOLEAN, NEW a \in Answers, fatal => a \in Permanent,
           FailOn(t, a, at, c, fatal), Counters'
    PROVE  CandidateInv'
  <1>1. unwinding' \subseteq Tweets /\ staged' \subseteq Tweets
    BY DEF FailOn, CandidateInv, TypeOK
  <1>2. source' \in [Tweets -> {"none", "part", "whole"}]
    BY ScratchRemoved DEF FailOn
  <1> QED BY <1>1, <1>2, RetryKeeps DEF FailOn

(* An attempt that ended on no answer has heard "none".                    *)
LEMMA NoAnswer == "none" \in Answers
  BY DEF Answers

(* The same for an error that is no answer of a remote.                    *)
LEMMA FailKeeps ==
    ASSUME CandidateInv, NEW t \in Tweets, pc[t] # Idle, NEW at \in Places, NEW c \in Classes,
           Fail(t, at, c, FALSE), Counters'
    PROVE  CandidateInv'
  BY NoAnswer, FailOnKeeps DEF Fail

(* A rejection is right when the content deserves its reason, or carries   *)
(* the 404 of the CDN.                                                     *)
LEMMA RejectOnKeeps ==
    ASSUME CandidateInv, NEW t \in Tweets, pc[t] # Idle, NEW why \in Reasons, NEW a \in Answers,
           Deserves(content[t], why) \/ (why = "not_available" /\ a = "cdn_404"),
           RejectOn(t, a, why), Counters'
    PROVE  CandidateInv'
  <1>1. TypeOK /\ SlotsAreHeld
    BY DEF CandidateInv
  <1>2. /\ SlotsAreHeld' /\ ffSem' \in 0 .. MaxProcesses /\ chatSem' \in 0 .. ChatConcurrencyCap
    <2>1. pc' = [pc EXCEPT ![t] = Idle] /\ ReleaseSlots(t)
      BY DEF RejectOn
    <2> QED BY <1>1, <2>1, SlotsReturned
  <1>3. /\ stage' = [stage EXCEPT ![t] = "done"] /\ pc' = [pc EXCEPT ![t] = Idle]
        /\ out' = [out EXCEPT ![t] = Rejected(why)] /\ tries' = [tries EXCEPT ![t] = tries[t]]
        /\ content' = content /\ heard' = [heard EXCEPT ![t] = a] /\ tries[t] \in Nat
    BY <1>1 DEF RejectOn, TypeOK
  <1>4. Rejected(why) \in Outcomes /\ Rejected(why).verdict = "rejected" /\ Rejected(why).reason = why
    BY DEF Rejected, Outcomes, Pending
  <1>5. Sound(content[t], "done", tries[t], Idle, Rejected(why), a)
    BY <1>4 DEF Sound, Ended
  <1>6. unwinding' \subseteq Tweets /\ staged' \subseteq Tweets
    BY <1>1 DEF RejectOn, TypeOK
  <1>7. source' \in [Tweets -> {"none", "part", "whole"}]
    BY ScratchRemoved DEF RejectOn
  <1>8. "done" \in Stages
    BY DEF Stages
  <1> QED BY <1>2, <1>3, <1>4, <1>5, <1>6, <1>7, <1>8, IdleIsFree, OneTweet

(* The same for a rejection that no answer caused (activities.go:257).     *)
LEMMA RejectKeeps ==
    ASSUME CandidateInv, NEW t \in Tweets, pc[t] # Idle, NEW why \in Reasons,
           Deserves(content[t], why), Reject(t, why)
    PROVE  CandidateInv'
  <1>1. Counters'
    BY DEF Reject, Counters, CandidateInv, TypeOK
  <1> QED BY <1>1, NoAnswer, RejectOnKeeps DEF Reject

(* The next activity starts with all its attempts.                         *)
LEMMA AdvanceKeeps ==
    ASSUME CandidateInv, NEW t \in Tweets, pc[t] # Idle, NEW s \in {"hash", "vision"},
           content[t] \notin RuledOut(s, Idle[1]),
           Advance(t, s), UNCHANGED out, staged' \subseteq Tweets
    PROVE  CandidateInv'
  <1>1. TypeOK /\ SlotsAreHeld
    BY DEF CandidateInv
  <1>2. /\ SlotsAreHeld' /\ ffSem' \in 0 .. MaxProcesses /\ chatSem' \in 0 .. ChatConcurrencyCap
    <2>1. pc' = [pc EXCEPT ![t] = Idle] /\ ReleaseSlots(t)
      BY DEF Advance
    <2> QED BY <1>1, <2>1, SlotsReturned
  <1>3. /\ stage' = [stage EXCEPT ![t] = s] /\ pc' = [pc EXCEPT ![t] = Idle]
        /\ out' = [out EXCEPT ![t] = out[t]] /\ tries' = [tries EXCEPT ![t] = 0]
        /\ content' = content /\ out[t] \in Outcomes
        /\ heard' = [heard EXCEPT ![t] = heard[t]] /\ heard[t] \in Answers
    BY <1>1 DEF Advance, TypeOK
  <1>4. Sound(content[t], s, 0, Idle, out[t], heard[t])
    <2>1. out[t] = Pending
      BY Running DEF Going
    <2>2. MaximumAttempts[s] \in Nat \ {0}
      BY BoundsAssumption
    <2> QED BY <2>1, <2>2 DEF Sound, Going
  <1>5. unwinding' \subseteq Tweets /\ Counters'
    BY <1>1 DEF Advance, TypeOK, Counters
  <1>6. source' \in [Tweets -> {"none", "part", "whole"}]
    BY ScratchRemoved DEF Advance
  <1>7. s \in Stages
    BY DEF Stages
  <1> QED BY <1>2, <1>3, <1>4, <1>5, <1>6, <1>7, IdleIsFree, OneTweet

(* Within an activity.                                                     *)
LEMMA GotoKeeps ==
    ASSUME CandidateInv, NEW t \in Tweets, pc[t] # Idle, NEW p \in Where,
           p \in Positions[stage[t]], p # Idle, content[t] \notin RuledOut(stage[t], p[1]), Goto(t, p),
           SlotsAreHeld', ffSem' \in 0 .. MaxProcesses, chatSem' \in 0 .. ChatConcurrencyCap,
           source' \in [Tweets -> {"none", "part", "whole"}],
           staged' \subseteq Tweets, Counters'
    PROVE  CandidateInv'
  <1>1. TypeOK
    BY DEF CandidateInv
  <1>2. /\ stage' = [stage EXCEPT ![t] = stage[t]] /\ pc' = [pc EXCEPT ![t] = p]
        /\ out' = [out EXCEPT ![t] = out[t]] /\ tries' = [tries EXCEPT ![t] = tries[t]]
        /\ content' = content /\ out[t] \in Outcomes /\ stage[t] \in Stages /\ tries[t] \in Nat
        /\ heard' = [heard EXCEPT ![t] = heard[t]] /\ heard[t] \in Answers
        /\ unwinding' \subseteq Tweets
    BY <1>1 DEF Goto, TypeOK
  <1>3. Sound(content[t], stage[t], tries[t], p, out[t], heard[t])
    BY Running DEF Sound, Going
  <1> QED BY <1>2, <1>3, OneTweet

-----------------------------------------------------------------------------
(* One lemma per action. *)

(* A fault is counted within its bound.                                    *)
LEMMA FaultCounts ==
    ASSUME CandidateInv, NEW t \in Tweets
    PROVE  /\ Fault(t) => Counters'
           /\ Hit(t) /\ UNCHANGED faults => Counters'
  <1>1. faults \in 0 .. MaxFaults /\ MaxFaults \in Nat /\ hits \in [Tweets -> Nat]
    BY BoundsAssumption DEF CandidateInv, TypeOK
  <1>2. ASSUME Hit(t) PROVE hits' \in [Tweets -> Nat]
    <2>1. hits[t] + 1 \in Nat
      BY <1>1
    <2> QED BY <1>1, <1>2, <2>1 DEF Hit
  <1>3. Fault(t) => faults' \in 0 .. MaxFaults /\ Hit(t)
    BY <1>1 DEF Fault
  <1> QED BY <1>1, <1>2, <1>3 DEF Counters

(* What a step that leaves the rest alone keeps of the types.              *)
LEMMA Unchanged ==
    ASSUME CandidateInv
    PROVE  /\ UNCHANGED source => source' \in [Tweets -> {"none", "part", "whole"}]
           /\ UNCHANGED staged => staged' \subseteq Tweets
           /\ UNCHANGED <<faults, hits>> => Counters'
  BY DEF CandidateInv, TypeOK, Counters

(* The start step keeps the invariant (workflow/video.go:134).             *)
LEMMA StartStep ==
    ASSUME CandidateInv, NEW t \in Tweets, StartAttempt(t)
    PROVE  CandidateInv'
  <1> DEFINE p == CASE stage[t] = "download" -> At("resolve", "run")
                    [] stage[t] = "hash"     -> At("hash_fetch", "run")
                    [] stage[t] = "vision"   -> At("clip_fetch", "run")
  <1>1. TypeOK /\ SlotsAreHeld
    BY DEF CandidateInv
  <1>2. stage[t] \in {"download", "hash", "vision"}
    BY <1>1 DEF TypeOK, Stages, StartAttempt
  <1>3. /\ p \in Where /\ p \in Positions[stage[t]] /\ Free(p)
        /\ RuledOut(stage[t], p[1]) = RuledOut(stage[t], Idle[1])
        /\ p # Idle
    <2>1. CASE stage[t] = "download"
      BY <2>1 DEF Where, Operations, Positions, Free, At, FFOps, RuledOut, Idle
    <2>2. CASE stage[t] = "hash"
      BY <2>2 DEF Where, Operations, Positions, Free, At, FFOps, RuledOut, Idle
    <2>3. CASE stage[t] = "vision"
      BY <2>3 DEF Where, Operations, Positions, Free, At, FFOps, RuledOut, Idle
    <2> QED BY <1>2, <2>1, <2>2, <2>3
  <1>4. /\ stage' = [stage EXCEPT ![t] = stage[t]] /\ pc' = [pc EXCEPT ![t] = p]
        /\ out' = [out EXCEPT ![t] = out[t]] /\ tries' = [tries EXCEPT ![t] = tries[t] + 1]
        /\ content' = content /\ out[t] \in Outcomes /\ stage[t] \in Stages /\ tries[t] + 1 \in Nat
        /\ unwinding' \subseteq Tweets /\ UNCHANGED <<source, staged, faults, hits, ffSem, chatSem>>
        /\ heard' = [heard EXCEPT ![t] = "none"]
    BY <1>1 DEF StartAttempt, TypeOK
  <1>5. pc[t] = Idle
    BY DEF StartAttempt
  <1> HIDE DEF p
  <1>6. SlotsAreHeld' /\ ffSem' \in 0 .. MaxProcesses /\ chatSem' \in 0 .. ChatConcurrencyCap
    BY <1>1, <1>3, <1>4, <1>5, IdleIsFree, SlotsKept
  <1>7. Sound(content[t], stage[t], tries[t] + 1, p, out[t], "none")
    <2>1. Going(content[t], stage[t], tries[t], Idle, out[t])
      BY <1>2, <1>5 DEF CandidateInv, TweetSound
    <2>2. tries[t] \in Nat /\ MaximumAttempts[stage[t]] \in Nat
      BY <1>1, <1>2, BoundsAssumption DEF TypeOK
    <2> QED BY <1>2, <1>3, <2>1, <2>2 DEF Sound, Going
  <1> QED BY <1>3, <1>4, <1>6, <1>7, Unchanged, NoAnswer, OneTweet

(* Constants of the positions, and what each rules out.                    *)
LEMMA PositionFacts ==
    /\ At("resolve", "run") # Idle /\ At("fetch", "run") # Idle /\ At("upload", "run") # Idle
    /\ At("fetch", "run") \in Where /\ At("fetch", "run") \in Positions["download"]
    /\ At("probe", "stat") \in Where /\ At("probe", "stat") \in Positions["download"]
    /\ At("fingerprint", "stat") \in Where /\ At("fingerprint", "stat") \in Positions["download"]
    /\ At("upload", "run") \in Where /\ At("upload", "run") \in Positions["download"]
    /\ Free(At("resolve", "run")) /\ Free(At("fetch", "run")) /\ Free(At("probe", "stat"))
    /\ Free(At("fingerprint", "stat")) /\ Free(At("upload", "run"))
    /\ At("probe", "stat") # Idle /\ At("fingerprint", "stat") # Idle
  BY DEF At, Idle, Where, Operations, Positions, Free, FFOps

(* The positions of the operations that only a download has.               *)
LEMMA DownloadOps ==
    ASSUME NEW s \in {"download", "hash", "vision"}, NEW p \in Positions[s],
           p[1] \in {"resolve", "fetch", "probe", "fingerprint", "upload"}
    PROVE  s = "download"
  BY DEF Positions, At

(* The resolve step keeps the invariant (activities.go:84).                *)
LEMMA ResolveStep ==
    ASSUME CandidateInv, NEW t \in Tweets, ResolveVideo(t)
    PROVE  CandidateInv'
  <1>1. pc[t] = At("resolve", "run") /\ pc[t] # Idle
    BY PositionFacts DEF ResolveVideo
  <1>2. /\ stage[t] \in {"download", "hash", "vision"} /\ pc[t] \in Positions[stage[t]]
        /\ content[t] \in Truths
    BY <1>1, Running
  <1>3. stage[t] = "download"
    BY <1>1, <1>2, DownloadOps DEF At
  <1>4. CASE /\ ResolveError(content[t]) # "none"
             /\ Reject(t, classifySyndication(ResolveError(content[t])))
    BY <1>1, <1>2, <1>4, ResolveReasons, RejectKeeps
  <1>5. CASE /\ ResolveError(content[t]) = "none" /\ ~PreFilter(content[t])
             /\ Reject(t, "filtered")
    <2>1. Deserves(content[t], "filtered") /\ "filtered" \in Reasons
      BY <1>5 DEF PreFilter, Deserves, Reasons
    <2> QED BY <1>1, <1>5, <2>1, RejectKeeps
  <1>6. CASE /\ ResolveError(content[t]) = "none" /\ PreFilter(content[t])
             /\ Goto(t, At("fetch", "run"))
             /\ source' = [source EXCEPT ![t] = "part"]
             /\ UNCHANGED <<staged, ffSem, chatSem, faults, hits>>
    <2>1. content[t] \notin RuledOut("download", "fetch")
      BY <1>2, <1>6, ResolveReasons DEF RuledOut, PreFilter
    <2>2. At("fetch", "run")[1] = "fetch"
      BY DEF At
    <2>3. SlotsAreHeld' /\ ffSem' \in 0 .. MaxProcesses /\ chatSem' \in 0 .. ChatConcurrencyCap
      BY <1>1, <1>6, PositionFacts, SlotsKept DEF Goto, CandidateInv
    <2>4. source' \in [Tweets -> {"none", "part", "whole"}]
      BY <1>6 DEF CandidateInv, TypeOK
    <2> QED BY <1>1, <1>3, <1>6, <2>1, <2>2, <2>3, <2>4, PositionFacts, Unchanged, GotoKeeps
  <1>7. CASE \E e \in fetchTweetResultFaults : Fault(t) /\ Fail(t, "resolve", classifyTransient(e), FALSE)
    <2>1. PICK e \in fetchTweetResultFaults : Fault(t) /\ Fail(t, "resolve", classifyTransient(e), FALSE)
      BY <1>7
    <2>2. classifyTransient(e) \in Classes /\ "resolve" \in Places
      BY DownloadReasons DEF Places
    <2> QED BY <1>1, <2>1, <2>2, FaultCounts, FailKeeps
  <1> QED BY <1>4, <1>5, <1>6, <1>7 DEF ResolveVideo

(* The download step keeps the invariant (activities.go:204).              *)
LEMMA DownloadStep ==
    ASSUME CandidateInv, NEW t \in Tweets, downloadTo(t)
    PROVE  CandidateInv'
  <1>1. pc[t] = At("fetch", "run") /\ pc[t] # Idle
    BY PositionFacts DEF downloadTo
  <1>2. /\ stage[t] \in {"download", "hash", "vision"} /\ pc[t] \in Positions[stage[t]]
        /\ content[t] \notin RuledOut(stage[t], pc[t][1])
    BY <1>1, Running DEF Going
  <1>3. stage[t] = "download"
    BY <1>1, <1>2, DownloadOps DEF At
  <1>4. CASE /\ content[t] # "geo"
             /\ Goto(t, At("probe", "stat"))
             /\ source' = [source EXCEPT ![t] = IF @ = "none" THEN "none" ELSE "whole"]
             /\ UNCHANGED <<staged, ffSem, chatSem, faults, hits>>
    <2>1. content[t] \notin RuledOut("download", "probe")
      BY <1>1, <1>2, <1>3, <1>4 DEF RuledOut, At
    <2>2. At("probe", "stat")[1] = "probe"
      BY DEF At
    <2>3. SlotsAreHeld' /\ ffSem' \in 0 .. MaxProcesses /\ chatSem' \in 0 .. ChatConcurrencyCap
      BY <1>1, <1>4, PositionFacts, SlotsKept DEF Goto, CandidateInv
    <2>4. source' \in [Tweets -> {"none", "part", "whole"}]
      BY <1>4 DEF CandidateInv, TypeOK
    <2> QED BY <1>1, <1>3, <1>4, <2>1, <2>2, <2>3, <2>4, PositionFacts, Unchanged, GotoKeeps
  <1>5. CASE /\ content[t] = "geo"
             /\ Reject(t, classifySyndication(classifyCDNDenial("geo")))
    <2>1. Deserves(content[t], "cdn_geo_restricted") /\ "cdn_geo_restricted" \in Reasons
      BY <1>5 DEF Deserves, Reasons
    <2>2. Reject(t, "cdn_geo_restricted")
      BY <1>5, DownloadReasons
    <2> QED BY <1>1, <2>1, <2>2, RejectKeeps
  <1>6. ASSUME NEW e \in DownloadFaults, Fault(t), Fail(t, "cdn_download", classifyTransient(e), FALSE)
        PROVE  CandidateInv'
    <2>1. classifyTransient(e) \in Classes /\ "cdn_download" \in Places
      BY DownloadReasons DEF Places
    <2> QED BY <1>1, <1>6, <2>1, FaultCounts, FailKeeps
  <1>7. ASSUME Fault(t), RejectOn(t, "cdn_404", "not_available")
        PROVE  CandidateInv'
    <2>1. "not_available" \in Reasons /\ "cdn_404" \in Answers
      BY DEF Reasons, Answers
    <2> QED BY <1>1, <1>7, <2>1, FaultCounts, RejectOnKeeps
  <1> QED BY <1>4, <1>5, <1>6, <1>7, DownloadReasons DEF downloadTo

(* A subprocess that fails is an error of its activity, never a verdict.   *)
LEMMA FailOpKeeps ==
    ASSUME CandidateInv, NEW t \in Tweets, pc[t] # Idle, NEW op, NEW e,
           FailOp(t, op, e), Counters'
    PROVE  CandidateInv'
  <1> DEFINE c == IF stage[t] = "download" THEN classifyProbe(e) ELSE classifyFailure(StageOf(op), e)
  <1>1. StageOf(op) \in Places
    BY DEF StageOf, Places
  <1>2. c \in Classes
    BY FailureClasses
  <1>3. Fail(t, StageOf(op), c, FALSE)
    BY DEF FailOp
  <1> HIDE DEF c
  <1> QED BY <1>1, <1>2, <1>3, FailKeeps

(* A process that fails ends its attempt and gives its slot back (ffmpeg/client.go:489). *)
LEMMA FailedProcess ==
    ASSUME CandidateInv, NEW t \in Tweets, pc[t] # Idle, NEW op, NEW e, Fault(t), FailOp(t, op, e)
    PROVE  CandidateInv'
  BY FaultCounts, FailOpKeeps

(* The probe step keeps the invariant (ffmpeg/client.go:134).              *)
LEMMA ProbeStep ==
    ASSUME CandidateInv, NEW t \in Tweets, ProbeMetadata(t)
    PROVE  CandidateInv'
  <1> DEFINE good == source[t] = "whole" /\ content[t] # "broken"
             e == classify("probe", IF source[t] = "none" THEN "no_file" ELSE "corrupt")
  <1>1. pc[t] = At("probe", "run") /\ pc[t] # Idle
    BY DEF ProbeMetadata, At, Idle
  <1>2. /\ stage[t] \in {"download", "hash", "vision"} /\ pc[t] \in Positions[stage[t]]
        /\ content[t] \notin RuledOut(stage[t], pc[t][1])
    BY <1>1, Running DEF Going
  <1>3. stage[t] = "download"
    BY <1>1, <1>2, DownloadOps DEF At
  <1>4. CASE /\ good /\ HardFilter(content[t])
             /\ Goto(t, At("fingerprint", "stat"))
             /\ ReleaseSlots(t) /\ UNCHANGED <<source, staged, faults, hits>>
    <2>1. content[t] \notin RuledOut("download", "fingerprint")
      BY <1>1, <1>2, <1>3, <1>4 DEF RuledOut, At, HardFilter, PreFilter
    <2>2. At("fingerprint", "stat")[1] = "fingerprint"
      BY DEF At
    <2>3. SlotsAreHeld' /\ ffSem' \in 0 .. MaxProcesses /\ chatSem' \in 0 .. ChatConcurrencyCap
      BY <1>4, PositionFacts, SlotsReleased DEF Goto, CandidateInv
    <2> QED BY <1>1, <1>3, <1>4, <2>1, <2>2, <2>3, PositionFacts, Unchanged, GotoKeeps
  <1>5. CASE good /\ ~HardFilter(content[t]) /\ Reject(t, "filtered")
    <2>1. Deserves(content[t], "filtered") /\ "filtered" \in Reasons
      BY <1>5 DEF HardFilter, PreFilter, Deserves, Reasons
    <2> QED BY <1>1, <1>5, <2>1, RejectKeeps
  <1>6. e = "ErrProbeFailed"
    BY DEF classify, Quiet, ProbeOps
  <1>7. CASE FailOp(t, "probe", e) /\ UNCHANGED <<faults, hits>>
    BY <1>1, <1>7, Unchanged, FailOpKeeps
  <1>8. ASSUME NEW f \in ProcessFaults, Fault(t), FailOp(t, "probe", classify("probe", f))
        PROVE  CandidateInv'
    BY <1>1, <1>8, FailedProcess
  <1> QED BY <1>4, <1>5, <1>6, <1>7, <1>8 DEF ProbeMetadata

(* Without a fingerprint the attempt goes on to the upload.                *)
LEMMA SkipKeeps ==
    ASSUME CandidateInv, NEW t \in Tweets, pc[t][1] = "fingerprint", SkipFingerprint(t),
           UNCHANGED <<faults, hits>>
    PROVE  CandidateInv'
  <1>1. pc[t] # Idle
    BY DEF At, Idle
  <1>2. /\ stage[t] \in {"download", "hash", "vision"} /\ pc[t] \in Positions[stage[t]]
        /\ content[t] \notin RuledOut(stage[t], pc[t][1])
    BY <1>1, Running DEF Going
  <1>3. stage[t] = "download"
    BY <1>1, <1>2, DownloadOps
  <1>4. At("upload", "run")[1] = "upload" /\ content[t] \notin RuledOut("download", "upload")
    BY <1>2, <1>3 DEF RuledOut, At
  <1>5. SlotsAreHeld' /\ ffSem' \in 0 .. MaxProcesses /\ chatSem' \in 0 .. ChatConcurrencyCap
    BY PositionFacts, SlotsReleased DEF SkipFingerprint, Goto, CandidateInv
  <1>6. Goto(t, At("upload", "run")) /\ UNCHANGED <<source, staged>>
    BY DEF SkipFingerprint
  <1> QED BY <1>1, <1>3, <1>4, <1>5, <1>6, PositionFacts, Unchanged, GotoKeeps

(* The fingerprint step keeps the invariant (media_fingerprint.go:87).     *)
LEMMA FingerprintStep ==
    ASSUME CandidateInv, NEW t \in Tweets, MediaFingerprint(t)
    PROVE  CandidateInv'
  <1>1. pc[t][1] = "fingerprint"
    BY DEF MediaFingerprint, At
  <1> QED BY <1>1, SkipKeeps DEF MediaFingerprint

(* The upload step keeps the invariant (activities.go:226).                *)
LEMMA UploadStep ==
    ASSUME CandidateInv, NEW t \in Tweets, uploadFile(t)
    PROVE  CandidateInv'
  <1>1. pc[t] = At("upload", "run") /\ pc[t] # Idle
    BY PositionFacts DEF uploadFile
  <1>2. /\ stage[t] \in {"download", "hash", "vision"} /\ pc[t] \in Positions[stage[t]]
        /\ content[t] \notin RuledOut(stage[t], pc[t][1])
    BY <1>1, Running DEF Going
  <1>3. stage[t] = "download"
    BY <1>1, <1>2, DownloadOps DEF At
  <1>4. "staging_upload" \in Places /\ "storage" \in Classes
    BY DEF Places, Classes
  <1>5. CASE Upload(t) /\ Advance(t, "hash") /\ UNCHANGED out
    <2>1. content[t] \notin RuledOut("hash", Idle[1])
      BY <1>1, <1>2, <1>3 DEF RuledOut, At, Idle
    <2>2. staged' \subseteq Tweets
      BY <1>5 DEF Upload, CandidateInv, TypeOK
    <2> QED BY <1>1, <1>5, <2>1, <2>2, AdvanceKeeps
  <1>6. CASE Fail(t, "staging_upload", "storage", FALSE) /\ (UNCHANGED <<faults, hits>> \/ Fault(t))
    BY <1>1, <1>4, <1>6, Unchanged, FaultCounts, FailKeeps
  <1> QED BY <1>5, <1>6 DEF uploadFile

(* An operation goes from its check to the queue and on to its slot.       *)
LEMMA SameOperation ==
    ASSUME NEW s \in {"download", "hash", "vision"}, NEW p \in Positions[s]
    PROVE  /\ p[2] = "stat" => /\ Free(p) /\ Free(At(p[1], "wait"))
                               /\ At(p[1], "wait") \in Positions[s] /\ At(p[1], "wait") \in Where
           /\ p[1] \in FFOps /\ p[2] = "wait" =>
                               /\ Free(p)
                               /\ At(p[1], "run") \in Positions[s] /\ At(p[1], "run") \in Where
           /\ At(p[1], "wait") # Idle /\ At(p[1], "run") # Idle
           /\ At(p[1], "wait")[1] = p[1] /\ At(p[1], "run")[1] = p[1] /\ At(p[1], "run")[2] = "run"
  <1>1. /\ At(p[1], "wait") # Idle /\ At(p[1], "run") # Idle
        /\ At(p[1], "wait")[1] = p[1] /\ At(p[1], "run")[1] = p[1] /\ At(p[1], "run")[2] = "run"
    BY DEF At, Idle
  <1>2. ASSUME p[2] = "stat"
        PROVE  /\ Free(p) /\ Free(At(p[1], "wait"))
               /\ At(p[1], "wait") \in Positions[s] /\ At(p[1], "wait") \in Where
    <2>1. CASE s = "download"
      BY <1>2, <2>1 DEF Positions, At, Free, Where, Operations, FFOps
    <2>2. CASE s = "hash"
      BY <1>2, <2>2 DEF Positions, At, Free, Where, Operations, FFOps
    <2>3. CASE s = "vision"
      BY <1>2, <2>3 DEF Positions, At, Free, Where, Operations, FFOps
    <2> QED BY <2>1, <2>2, <2>3
  <1>3. ASSUME p[1] \in FFOps, p[2] = "wait"
        PROVE  Free(p) /\ At(p[1], "run") \in Positions[s] /\ At(p[1], "run") \in Where
    <2>1. CASE s = "download"
      BY <1>3, <2>1 DEF Positions, At, Free, Where, Operations, FFOps
    <2>2. CASE s = "hash"
      BY <1>3, <2>2 DEF Positions, At, Free, Where, Operations, FFOps
    <2>3. CASE s = "vision"
      BY <1>3, <2>3 DEF Positions, At, Free, Where, Operations, FFOps
    <2> QED BY <2>1, <2>2, <2>3
  <1> QED BY <1>1, <1>2, <1>3

(* statInput keeps the invariant (ffmpeg/client.go:514).                   *)
LEMMA StatStep ==
    ASSUME CandidateInv, NEW t \in Tweets, statInput(t)
    PROVE  CandidateInv'
  <1>1. pc[t][2] = "stat" /\ pc[t] # Idle /\ UNCHANGED <<faults, hits>>
    BY DEF statInput, At, Idle
  <1>2. /\ stage[t] \in {"download", "hash", "vision"} /\ pc[t] \in Positions[stage[t]]
        /\ content[t] \notin RuledOut(stage[t], pc[t][1])
    BY <1>1, Running DEF Going
  <1>3. CASE pc[t][1] = "fingerprint" /\ SkipFingerprint(t)
    BY <1>1, <1>3, SkipKeeps
  <1>4. CASE FailOp(t, pc[t][1], "ErrInputNotFound")
    BY <1>1, <1>4, Unchanged, FailOpKeeps
  <1>5. CASE Goto(t, At(pc[t][1], "wait")) /\ UNCHANGED <<source, staged, ffSem, chatSem>>
    <2> DEFINE p == At(pc[t][1], "wait")
    <2>1. /\ Free(pc[t]) /\ Free(p) /\ p \in Positions[stage[t]] /\ p \in Where /\ p # Idle
          /\ p[1] = pc[t][1]
      BY <1>1, <1>2, SameOperation
    <2>2. Goto(t, p)
      BY <1>5
    <2> HIDE DEF p
    <2>3. SlotsAreHeld' /\ ffSem' \in 0 .. MaxProcesses /\ chatSem' \in 0 .. ChatConcurrencyCap
      BY <1>5, <2>1, <2>2, SlotsKept DEF Goto, CandidateInv
    <2> QED BY <1>1, <1>2, <1>5, <2>1, <2>2, <2>3, Unchanged, GotoKeeps
  <1> QED BY <1>3, <1>4, <1>5 DEF statInput

(* The acquire step keeps the invariant (ffmpeg/client.go:272).            *)
LEMMA AcquireStep ==
    ASSUME CandidateInv, NEW t \in Tweets, acquire(t)
    PROVE  CandidateInv'
  <1>1. pc[t][1] \in FFOps /\ pc[t][2] = "wait" /\ pc[t] # Idle
    BY DEF acquire, At, Idle
  <1>2. /\ stage[t] \in {"download", "hash", "vision"} /\ pc[t] \in Positions[stage[t]]
        /\ content[t] \notin RuledOut(stage[t], pc[t][1])
    BY <1>1, Running DEF Going
  <1>3. CASE /\ ffSem < MaxProcesses
             /\ ffSem' = ffSem + 1
             /\ Goto(t, At(pc[t][1], "run"))
             /\ UNCHANGED <<source, staged, chatSem, faults, hits>>
    <2> DEFINE p == At(pc[t][1], "run")
    <2>1. /\ Free(pc[t]) /\ p \in Positions[stage[t]] /\ p \in Where /\ p # Idle
          /\ p[1] = pc[t][1] /\ p[2] = "run"
      BY <1>1, <1>2, SameOperation
    <2>2. Goto(t, p)
      BY <1>3
    <2> HIDE DEF p
    <2>3. SlotsAreHeld' /\ ffSem' \in 0 .. MaxProcesses /\ chatSem' \in 0 .. ChatConcurrencyCap
      BY <1>1, <1>3, <2>1, <2>2, SlotsTaken DEF Goto, CandidateInv
    <2> QED BY <1>1, <1>2, <1>3, <2>1, <2>2, <2>3, Unchanged, GotoKeeps
  <1>4. CASE pc[t][1] = "fingerprint" /\ SkipFingerprint(t) /\ UNCHANGED <<faults, hits>>
    BY <1>4, SkipKeeps
  <1>5. CASE FailOp(t, pc[t][1], "ErrConcurrencyExhausted") /\ Hit(t) /\ UNCHANGED faults
    BY <1>1, <1>5, FaultCounts, FailOpKeeps
  <1> QED BY <1>3, <1>4, <1>5 DEF acquire

(* The fetch step keeps the invariant (vision/activities.go:163).          *)
LEMMA FetchStep ==
    ASSUME CandidateInv, NEW t \in Tweets, fetchStaged(t)
    PROVE  CandidateInv'
  <1>1. pc[t] # Idle /\ pc[t][1] \in {"hash_fetch", "clip_fetch"} /\ Free(pc[t])
    BY DEF fetchStaged, At, Idle, Free, FFOps
  <1>2. /\ stage[t] \in {"download", "hash", "vision"} /\ pc[t] \in Positions[stage[t]]
        /\ content[t] \notin RuledOut(stage[t], pc[t][1])
    BY <1>1, Running DEF Going
  <1>3. stage[t] \in {"hash", "vision"}
    BY <1>1, <1>2 DEF Positions, At
  <1>4. "staging_fetch" \in Places /\ "storage" \in Classes
    BY DEF Places, Classes
  <1>5. CASE /\ Goto(t, At(IF stage[t] = "hash" THEN "dense" ELSE "clip_probe", "stat"))
             /\ UNCHANGED <<source, staged, ffSem, chatSem, faults, hits>>
    <2> DEFINE p == At(IF stage[t] = "hash" THEN "dense" ELSE "clip_probe", "stat")
    <2>1. Free(p) /\ p \in Positions[stage[t]] /\ p \in Where /\ p # Idle
      BY <1>3 DEF Positions, At, Idle, Free, FFOps, Where, Operations
    <2>2. content[t] \notin RuledOut(stage[t], p[1])
      BY <1>2, <1>3 DEF RuledOut
    <2>3. Goto(t, p)
      BY <1>5
    <2> HIDE DEF p
    <2>4. SlotsAreHeld' /\ ffSem' \in 0 .. MaxProcesses /\ chatSem' \in 0 .. ChatConcurrencyCap
      BY <1>1, <1>5, <2>1, <2>3, SlotsKept DEF Goto, CandidateInv
    <2> QED BY <1>1, <1>5, <2>1, <2>2, <2>3, <2>4, Unchanged, GotoKeeps
  <1>6. CASE Fail(t, "staging_fetch", "storage", FALSE) /\ (UNCHANGED <<faults, hits>> \/ Fault(t))
    BY <1>1, <1>4, <1>6, Unchanged, FaultCounts, FailKeeps
  <1> QED BY <1>5, <1>6 DEF fetchStaged

(* The dense step keeps the invariant (ffmpeg/client.go:192).              *)
LEMMA DenseStep ==
    ASSUME CandidateInv, NEW t \in Tweets, ExtractDenseFrames(t)
    PROVE  CandidateInv'
  <1>1. pc[t] # Idle /\ pc[t] = At("dense", "run")
    BY DEF ExtractDenseFrames, At, Idle
  <1>2. /\ stage[t] \in {"download", "hash", "vision"} /\ pc[t] \in Positions[stage[t]]
        /\ content[t] \notin RuledOut(stage[t], pc[t][1])
    BY <1>1, Running DEF Going
  <1>3. stage[t] = "hash"
    BY <1>1, <1>2 DEF Positions, At
  <1>4. CASE content[t] = "short" /\ Reject(t, "insufficient_hash_frames")
    <2>1. Deserves(content[t], "insufficient_hash_frames") /\ "insufficient_hash_frames" \in Reasons
      BY <1>4 DEF Deserves, Reasons
    <2> QED BY <1>1, <1>4, <2>1, RejectKeeps
  <1>5. CASE content[t] # "short" /\ Advance(t, "vision") /\ UNCHANGED <<staged, out>>
    <2>1. content[t] \notin RuledOut("vision", Idle[1])
      BY <1>2, <1>3, <1>5 DEF RuledOut
    <2> QED BY <1>1, <1>5, <2>1, Unchanged, AdvanceKeeps
  <1>6. ASSUME NEW f \in ProcessFaults, Fault(t), FailOp(t, "dense", classify("dense", f))
        PROVE  CandidateInv'
    BY <1>1, <1>6, FailedProcess
  <1> QED BY <1>4, <1>5, <1>6 DEF ExtractDenseFrames

(* The frame step keeps the invariant (ffmpeg/client.go:160).              *)
LEMMA FrameStep ==
    ASSUME CandidateInv, NEW t \in Tweets, ExtractFrame(t)
    PROVE  CandidateInv'
  <1>1. pc[t] # Idle /\ pc[t][1] \in {"clip_probe", "frame1", "frame2", "frame3"}
    BY DEF ExtractFrame, At, Idle
  <1>2. /\ stage[t] \in {"download", "hash", "vision"} /\ pc[t] \in Positions[stage[t]]
        /\ content[t] \notin RuledOut(stage[t], pc[t][1])
    BY <1>1, Running DEF Going
  <1>3. stage[t] = "vision"
    BY <1>1, <1>2 DEF Positions, At
  <1>4. CASE /\ Goto(t, NextFrame(pc[t][1])) /\ ReleaseSlots(t)
             /\ UNCHANGED <<source, staged, faults, hits>>
    <2> DEFINE p == NextFrame(pc[t][1])
    <2>1. Free(p) /\ p \in Positions["vision"] /\ p \in Where /\ p # Idle
      BY <1>1 DEF NextFrame, Positions, At, Idle, Free, FFOps, Where, Operations
    <2>2. content[t] \notin RuledOut("vision", p[1])
      BY <1>2, <1>3 DEF RuledOut
    <2>3. Goto(t, p)
      BY <1>4
    <2> HIDE DEF p
    <2>4. SlotsAreHeld' /\ ffSem' \in 0 .. MaxProcesses /\ chatSem' \in 0 .. ChatConcurrencyCap
      BY <1>4, <2>1, <2>3, SlotsReleased DEF Goto, CandidateInv
    <2> QED BY <1>1, <1>3, <1>4, <2>1, <2>2, <2>3, <2>4, Unchanged, GotoKeeps
  <1>5. ASSUME NEW f \in ProcessFaults, Fault(t), FailOp(t, pc[t][1], classify(pc[t][1], f))
        PROVE  CandidateInv'
    BY <1>1, <1>5, FailedProcess
  <1> QED BY <1>4, <1>5 DEF ExtractFrame

(* The admit step keeps the invariant (llm/client.go:134).                 *)
LEMMA AdmitStep ==
    ASSUME CandidateInv, NEW t \in Tweets, ChatAdmit(t)
    PROVE  CandidateInv'
  <1> DEFINE p == At("chat", "run")
  <1>1. /\ pc[t] # Idle /\ pc[t][1] = "chat" /\ Free(pc[t])
        /\ p \in Where /\ p # Idle /\ p[1] = "chat" /\ p \in Positions["vision"]
    BY DEF ChatAdmit, At, Idle, Free, FFOps, Where, Operations, Positions
  <1>2. /\ stage[t] \in {"download", "hash", "vision"} /\ pc[t] \in Positions[stage[t]]
        /\ content[t] \notin RuledOut(stage[t], pc[t][1])
    BY <1>1, Running DEF Going
  <1>3. stage[t] = "vision"
    BY <1>1, <1>2 DEF Positions, At
  <1>4. /\ chatSem < ChatConcurrencyCap /\ chatSem' = chatSem + 1 /\ ffSem' = ffSem
        /\ Goto(t, p) /\ UNCHANGED <<source, staged, faults, hits>>
    BY DEF ChatAdmit
  <1>5. SlotsAreHeld' /\ ffSem' \in 0 .. MaxProcesses /\ chatSem' \in 0 .. ChatConcurrencyCap
    BY <1>1, <1>4, SlotsTaken DEF Goto, CandidateInv
  <1> HIDE DEF p
  <1> QED BY <1>1, <1>2, <1>3, <1>4, <1>5, Unchanged, GotoKeeps

(* The chat step keeps the invariant (llm/client.go:184).                  *)
LEMMA ChatStep ==
    ASSUME CandidateInv, NEW t \in Tweets, Chat(t)
    PROVE  CandidateInv'
  <1>1. pc[t] # Idle /\ pc[t] = At("chat", "run") /\ pc[t][1] = "chat"
    BY DEF Chat, At, Idle
  <1>2. /\ stage[t] \in {"download", "hash", "vision"} /\ pc[t] \in Positions[stage[t]]
        /\ content[t] \in Truths /\ content[t] \notin RuledOut(stage[t], pc[t][1])
    BY <1>1, Running DEF Going
  <1>3. stage[t] = "vision"
    BY <1>1, <1>2 DEF Positions, At
  <1>4. CASE content[t] = "wrong" /\ Reject(t, "vision")
    <2>1. Deserves(content[t], "vision") /\ "vision" \in Reasons
      BY <1>4 DEF Deserves, Reasons
    <2> QED BY <1>1, <1>4, <2>1, RejectKeeps
  <1>5. CASE /\ content[t] # "wrong"
             /\ out' = [out EXCEPT ![t] = [Pending EXCEPT !.verdict = "passed"]]
             /\ Advance(t, "done") /\ UNCHANGED staged
    <2> DEFINE o == [Pending EXCEPT !.verdict = "passed"]
    <2>1. TypeOK /\ SlotsAreHeld
      BY DEF CandidateInv
    <2>2. SlotsAreHeld' /\ ffSem' \in 0 .. MaxProcesses /\ chatSem' \in 0 .. ChatConcurrencyCap
      BY <1>5, <2>1, SlotsReturned DEF Advance
    <2>3. /\ stage' = [stage EXCEPT ![t] = "done"] /\ pc' = [pc EXCEPT ![t] = Idle]
          /\ out' = [out EXCEPT ![t] = o] /\ tries' = [tries EXCEPT ![t] = 0]
          /\ content' = content /\ unwinding' \subseteq Tweets /\ UNCHANGED staged /\ Counters'
          /\ heard' = [heard EXCEPT ![t] = heard[t]] /\ heard[t] \in Answers
      BY <1>5, <2>1 DEF Advance, TypeOK, Counters
    <2>4. o \in Outcomes /\ o.verdict = "passed" /\ "done" \in Stages
      BY DEF Outcomes, Pending, Stages
    <2>5. content[t] = "good"
      BY <1>2, <1>3, <1>5 DEF RuledOut, Truths, Unresolvable
    <2> HIDE DEF o
    <2>6. Sound(content[t], "done", 0, Idle, o, heard[t])
      BY <2>4, <2>5 DEF Sound, Ended
    <2>7. source' \in [Tweets -> {"none", "part", "whole"}]
      BY <1>5, ScratchRemoved DEF Advance
    <2> QED BY <2>2, <2>3, <2>4, <2>6, <2>7, IdleIsFree, Unchanged, OneTweet
  <1>6. ASSUME NEW at \in {"response_parse", "model_request"}, NEW e, NEW a \in Answers, Fault(t),
               permanent(at, e) => a \in Permanent,
               FailOn(t, a, at, classifyFailure(at, e), permanent(at, e))
        PROVE  CandidateInv'
    <2>1. at \in Places
      BY DEF Places
    <2>2. classifyFailure(at, e) \in Classes /\ permanent(at, e) \in BOOLEAN
      BY FailureClasses
    <2> QED BY <1>1, <1>6, <2>1, <2>2, FaultCounts, FailOnKeeps
  <1>7. \A a \in ChatFaults : /\ a \in Answers
                              /\ permanent("model_request", classifyError(a)) => a \in Permanent
    BY PermanentAnswers
  <1>8. "bad_body" \in Answers /\ "bad_body" \in Permanent
    BY PermanentAnswers
  <1> QED BY <1>4, <1>5, <1>6, <1>7, <1>8 DEF Chat

(* The timeout step keeps the invariant (event_vision_queue.go:15).        *)
LEMMA TimeOutStep ==
    ASSUME CandidateInv, NEW t \in Tweets, TimeOut(t)
    PROVE  CandidateInv'
  <1>1. /\ pc[t] # Idle /\ Retry(t, "activity", "timeout", FALSE) /\ ReleaseSlots(t)
        /\ UNCHANGED <<content, tries, source>> /\ Fault(t)
        /\ heard' = [heard EXCEPT ![t] = heard[t]] /\ heard[t] \in Answers
    BY DEF TimeOut, CandidateInv, TypeOK
  <1>2. "activity" \in Places /\ "timeout" \in Classes
    BY DEF Places, Classes
  <1>3. unwinding' \subseteq Tweets /\ staged' \subseteq Tweets
    BY DEF TimeOut, Upload, CandidateInv, TypeOK
  <1> QED BY <1>1, <1>2, <1>3, FaultCounts, Unchanged, RetryKeeps

(* The late step keeps the invariant (activities.go:107).                  *)
LEMMA LateStep ==
    ASSUME CandidateInv, NEW t \in Tweets, LateRemoveAll(t)
    PROVE  CandidateInv'
  <1>1. TypeOK'
    BY DEF CandidateInv, TypeOK, LateRemoveAll, Positions, Idle, At, Outcomes, Answers, ChatFaults
  <1>2. SlotsAreHeld'
    BY DEF CandidateInv, SlotsAreHeld, LateRemoveAll, HoldsFF, HoldsChat
  <1>3. \A u \in Tweets : TweetSound(u)'
    BY DEF CandidateInv, LateRemoveAll, TweetSound, Ended, Going
  <1> QED BY <1>1, <1>2, <1>3 DEF CandidateInv

(* The death of the worker ends every attempt and empties the semaphores.  *)
LEMMA WorkerDiesStep ==
    ASSUME CandidateInv, WorkerDies
    PROVE  CandidateInv'
  <1> DEFINE ended(t) == pc[t] # Idle /\ tries[t] >= MaximumAttempts[stage[t]]
             s(t) == IF ended(t) THEN "done" ELSE stage[t]
             o(t) == IF ended(t) THEN Failed(stage[t], "activity", "timeout") ELSE out[t]
  <1>1. /\ content \in [Tweets -> Truths] /\ stage \in [Tweets -> Stages]
        /\ tries \in [Tweets -> Nat] /\ out \in [Tweets -> Outcomes]
        /\ source \in [Tweets -> {"none", "part", "whole"}] /\ staged \subseteq Tweets
        /\ heard \in [Tweets -> Answers] /\ hits \in [Tweets -> Nat] /\ faults \in 0 .. MaxFaults
    BY DEF CandidateInv, TypeOK
  <1>2. /\ stage' = [t \in Tweets |-> s(t)] /\ out' = [t \in Tweets |-> o(t)]
        /\ pc' = [t \in Tweets |-> Idle] /\ UNCHANGED <<content, tries, source, staged, heard>>
        /\ ffSem' = 0 /\ chatSem' = 0 /\ unwinding' = {}
    BY DEF WorkerDies
  <1>3. ASSUME NEW t \in Tweets
        PROVE  /\ s(t) \in Stages /\ o(t) \in Outcomes
               /\ Sound(content[t], s(t), tries[t], Idle, o(t), heard[t])
    <2>1. CASE ended(t)
      <3>1. /\ stage[t] \in {"download", "hash", "vision"} /\ tries[t] \in Nat
            /\ Going(content[t], stage[t], tries[t], pc[t], out[t])
            /\ MaximumAttempts[stage[t]] \in Nat \ {0}
        BY <2>1, Running
      <3>2. tries[t] = MaximumAttempts[stage[t]]
        BY <2>1, <3>1 DEF Going
      <3>3. LET f == Failed(stage[t], "activity", "timeout") IN
            f \in Outcomes /\ f.verdict = "failed" /\ f.activity = stage[t]
        BY <3>1 DEF Failed, Outcomes, Places, Classes
      <3> QED BY <2>1, <3>1, <3>2, <3>3 DEF Sound, Ended, Stages
    <2>2. CASE ~ended(t)
      <3>1. s(t) = stage[t] /\ o(t) = out[t]
        BY <2>2
      <3>2. CASE stage[t] = "done"
        BY <1>1, <3>1, <3>2 DEF CandidateInv, TweetSound, Sound
      <3>3. CASE stage[t] # "done"
        <4>1. Going(content[t], stage[t], tries[t], pc[t], out[t])
          BY <3>3 DEF CandidateInv, TweetSound
        <4>2. tries[t] \in Nat /\ MaximumAttempts[stage[t]] \in Nat
          BY <1>1, <3>3, BoundsAssumption DEF Stages
        <4>3. tries[t] < MaximumAttempts[stage[t]]
          BY <2>2, <4>1, <4>2 DEF Going
        <4> QED BY <1>1, <3>1, <3>3, <4>1, <4>3, IdleRulesOutLess DEF Sound, Going
      <3> QED BY <3>2, <3>3
    <2> QED BY <2>1, <2>2
  <1> HIDE DEF s, o
  <1>4. Counters'
    BY <1>1, BoundsAssumption DEF WorkerDies, Counters
  <1>5. TypeOK'
    <2>1. stage' \in [Tweets -> Stages] /\ out' \in [Tweets -> Outcomes]
      BY <1>2, <1>3
    <2>2. \A t \in Tweets : pc'[t] = Idle /\ Idle \in Where
      BY <1>2, IdleIsFree
    <2>3. ffSem' \in 0 .. MaxProcesses /\ chatSem' \in 0 .. ChatConcurrencyCap
      BY <1>2, BoundsAssumption
    <2>4. pc' \in [Tweets -> Where] /\ unwinding' \subseteq Tweets
      BY <1>2, IdleIsFree
    <2> QED BY <1>1, <1>2, <1>4, <2>1, <2>2, <2>3, <2>4
            DEF TypeOK, Where, Idle, At, Counters, Answers, ChatFaults
  <1>6. SlotsAreHeld'
    <2>1. FFHolders(pc') = {} /\ ChatHolders(pc') = {}
      BY <1>2 DEF FFHolders, ChatHolders, Idle, At
    <2> QED BY <1>2, <2>1, HoldersCount, FS_EmptySet
  <1>7. \A t \in Tweets : TweetSound(t)'
    <2> SUFFICES ASSUME NEW t \in Tweets
                 PROVE  Sound(content'[t], stage'[t], tries'[t], pc'[t], out'[t], heard'[t])
      BY DEF TweetSound, Sound, Ended, Going, Pending, Idle, At
    <2> QED BY <1>2, <1>3
  <1> QED BY <1>5, <1>6, <1>7 DEF CandidateInv

(* The invariant holds before the first attempt.                           *)
LEMMA InitCandidate == Init => CandidateInv
  <1> SUFFICES ASSUME Init PROVE CandidateInv
    OBVIOUS
  <1>1. content \in [Tweets -> Truths]
    BY BoundsAssumption DEF Init
  <1>2. TypeOK
    <2>1. pc \in [Tweets -> Where] /\ \A t \in Tweets : pc[t] = Idle
      BY IdleIsFree DEF Init
    <2>2. out \in [Tweets -> Outcomes]
      BY DEF Init, Outcomes, Pending
    <2>3. heard \in [Tweets -> Answers] /\ hits \in [Tweets -> Nat]
      BY NoAnswer DEF Init
    <2> QED BY <1>1, <2>1, <2>2, <2>3, BoundsAssumption DEF Init, TypeOK, Where, Stages
  <1>3. SlotsAreHeld
    <2>1. FFHolders(pc) = {} /\ ChatHolders(pc) = {}
      BY DEF Init, FFHolders, ChatHolders, Idle, At
    <2> QED BY <2>1, HoldersCount, FS_EmptySet DEF Init
  <1>4. ASSUME NEW t \in Tweets PROVE TweetSound(t)
    <2>1. /\ stage[t] = "download" /\ tries[t] = 0 /\ pc[t] = Idle /\ out[t] = Pending
      BY DEF Init
    <2>2. content[t] \notin RuledOut("download", Idle[1])
      BY DEF RuledOut, Idle, At
    <2>3. MaximumAttempts["download"] \in Nat \ {0}
      BY BoundsAssumption
    <2> QED BY <2>1, <2>2, <2>3 DEF TweetSound, Going
  <1> QED BY <1>2, <1>3, <1>4 DEF CandidateInv

(* Every step keeps the invariant.                                         *)
LEMMA StepCandidate == CandidateInv /\ [Next]_vars => CandidateInv'
  <1> SUFFICES ASSUME CandidateInv, [Next]_vars PROVE CandidateInv'
    OBVIOUS
  <1>1. CASE UNCHANGED vars
    <2>1. TypeOK'
      BY <1>1 DEF CandidateInv, TypeOK, vars, Positions, Idle, At, Outcomes, Answers, ChatFaults
    <2>2. SlotsAreHeld'
      BY <1>1 DEF CandidateInv, SlotsAreHeld, vars, HoldsFF, HoldsChat
    <2>3. \A u \in Tweets : TweetSound(u)'
      BY <1>1 DEF CandidateInv, vars, TweetSound, Ended, Going
    <2> QED BY <2>1, <2>2, <2>3 DEF CandidateInv
  <1>2. ASSUME NEW t \in Tweets, Progress(t) PROVE CandidateInv'
    BY <1>2, StartStep, StatStep, AcquireStep, ResolveStep, DownloadStep, ProbeStep, FingerprintStep,
       UploadStep, FetchStep, DenseStep, FrameStep, AdmitStep, ChatStep
       DEF Progress, DownloadAndStage, HashVideo, ValidateClip
  <1>3. ASSUME NEW t \in Tweets, TimeOut(t) \/ LateRemoveAll(t) PROVE CandidateInv'
    BY <1>3, TimeOutStep, LateStep
  <1> QED BY <1>1, <1>2, <1>3, WorkerDiesStep DEF Next

-----------------------------------------------------------------------------
(* What used up the attempts.  An attempt of a sound clip that did not meet *)
(* a failure itself lost its file to the late RemoveAll of a timed-out one, *)
(* so each attempt that has ended, is going to lose its file or has lost it *)
(* is covered by half a failure.                                            *)

(* A download that works on a file that is no longer there.                *)
Lost(p, f) == p[1] \in {"fetch", "probe", "fingerprint", "upload"} /\ f = "none"

Late(s, late) == IF s = "download" /\ late THEN 1 ELSE 0

Owed(s, n, p, f, late) ==
    (IF p = Idle THEN n ELSE n - 1) + Late(s, late) + (IF Lost(p, f) THEN 1 ELSE 0)

Covered(c, s, n, p, f, late, h) == c = "broken" \/ Owed(s, n, p, f, late) <= 2 * h

Exhausted(c, h, o, a) ==
    o.verdict = "failed" => a \in Permanent \/ c = "broken" \/ 2 * h >= MaximumAttempts[o.activity]

Settled(c, s, n, p, f, late, up, h, o, a) ==
    IF s = "done" THEN Exhausted(c, h, o, a)
    ELSE /\ Covered(c, s, n, p, f, late, h)
         /\ p[1] \in {"probe", "fingerprint", "upload"} => f # "part"
         /\ s # "download" => up

TweetSettled(t) ==
    Settled(content[t], stage[t], tries[t], pc[t], source[t], t \in unwinding, t \in staged,
            hits[t], out[t], heard[t])

AttemptsInv == CandidateInv /\ \A t \in Tweets : TweetSettled(t)

(* What an attempt owes is its number, less the running one, and the clean-ups. *)
LEMMA OwedFacts ==
    ASSUME NEW s, NEW n \in Nat, NEW p, NEW f, NEW late
    PROVE  /\ Late(s, late) \in {0, 1} /\ Owed(s, n, p, f, late) \in Int
           /\ Owed(s, n, Idle, f, late) = n + Late(s, late)
           /\ p # Idle => Owed(s, n, p, f, late) >= n - 1 + Late(s, late)
           /\ p # Idle /\ Lost(p, f) => Owed(s, n, p, f, late) = n + Late(s, late)
           /\ p # Idle /\ ~Lost(p, f) => Owed(s, n, p, f, late) = n - 1 + Late(s, late)
  <1>1. Late(s, late) \in {0, 1}
    BY DEF Late
  <1>2. ~Lost(Idle, f)
    BY DEF Lost, Idle, At
  <1> QED BY <1>1, <1>2 DEF Owed

(* An idle activity without a late clean-up owes its attempts.             *)
LEMMA OwesAttempts ==
    ASSUME NEW s, NEW n \in Nat, NEW f
    PROVE  Owed(s, n, Idle, f, FALSE) = n
  BY DEF Owed, Late, Lost, Idle, At

(* The parts of a tweet that a step reads.                                 *)
LEMMA TweetParts ==
    ASSUME AttemptsInv, NEW t \in Tweets
    PROVE  /\ content \in [Tweets -> Truths] /\ stage \in [Tweets -> Stages]
           /\ tries \in [Tweets -> Nat] /\ pc \in [Tweets -> Where] /\ out \in [Tweets -> Outcomes]
           /\ source \in [Tweets -> {"none", "part", "whole"}]
           /\ heard \in [Tweets -> Answers] /\ hits \in [Tweets -> Nat]
           /\ TweetSettled(t)
  BY DEF AttemptsInv, CandidateInv, TypeOK, Where

(* A step of one tweet leaves the others alone.                            *)
LEMMA OneSettled ==
    ASSUME AttemptsInv, NEW t \in Tweets,
           NEW s, NEW n, NEW p, NEW f, NEW h, NEW o, NEW a,
           CandidateInv',
           content' = content,
           stage' = [stage EXCEPT ![t] = s],
           tries' = [tries EXCEPT ![t] = n],
           pc' = [pc EXCEPT ![t] = p],
           source' = [source EXCEPT ![t] = f],
           hits' = [hits EXCEPT ![t] = h],
           out' = [out EXCEPT ![t] = o],
           heard' = [heard EXCEPT ![t] = a],
           unwinding' \ {t} = unwinding \ {t}, staged' \ {t} = staged \ {t},
           Settled(content[t], s, n, p, f, t \in unwinding', t \in staged', h, o, a)
    PROVE  AttemptsInv'
  <1> SUFFICES ASSUME NEW u \in Tweets
               PROVE  Settled(content'[u], stage'[u], tries'[u], pc'[u], source'[u], u \in unwinding',
                              u \in staged', hits'[u], out'[u], heard'[u])
    BY DEF AttemptsInv, TweetSettled, Settled, Covered, Exhausted, Owed, Lost, Late, Idle, At
  <1>1. CASE u = t
    <2>1. /\ stage'[t] = s /\ tries'[t] = n /\ pc'[t] = p /\ source'[t] = f /\ hits'[t] = h
          /\ out'[t] = o /\ heard'[t] = a /\ content'[t] = content[t]
      BY TweetParts
    <2> QED BY <1>1, <2>1
  <1>2. CASE u # t
    <2>1. /\ stage'[u] = stage[u] /\ tries'[u] = tries[u] /\ pc'[u] = pc[u] /\ source'[u] = source[u]
          /\ hits'[u] = hits[u] /\ out'[u] = out[u] /\ heard'[u] = heard[u] /\ content'[u] = content[u]
      BY <1>2, TweetParts
    <2>2. (u \in unwinding') = (u \in unwinding) /\ (u \in staged') = (u \in staged)
      BY <1>2
    <2>3. TweetSettled(u)
      BY TweetParts
    <2> QED BY <2>1, <2>2, <2>3 DEF TweetSettled
  <1> QED BY <1>1, <1>2

(* Of a running attempt: what it owes, and that it has an activity.        *)
LEMMA RunningSettled ==
    ASSUME AttemptsInv, NEW t \in Tweets, pc[t] # Idle
    PROVE  /\ stage[t] \in {"download", "hash", "vision"} /\ stage[t] # "done"
           /\ tries[t] \in Nat /\ hits[t] \in Nat
           /\ Covered(content[t], stage[t], tries[t], pc[t], source[t], t \in unwinding, hits[t])
           /\ pc[t][1] \in {"probe", "fingerprint", "upload"} => source[t] # "part"
           /\ stage[t] # "download" => t \in staged
  <1>1. stage[t] \in {"download", "hash", "vision"}
    BY Running DEF AttemptsInv
  <1>2. stage[t] # "done"
    BY <1>1
  <1>3. TweetSettled(t)
    BY TweetParts
  <1> QED BY <1>1, <1>2, <1>3, TweetParts DEF TweetSettled, Settled

(* A failure that ends the activity does so with its attempts covered.     *)
LEMMA RetrySettles ==
    ASSUME AttemptsInv, CandidateInv', NEW t \in Tweets, pc[t] # Idle, NEW at, NEW c,
           NEW fatal \in BOOLEAN, NEW a, fatal => a \in Permanent, NEW f, NEW h \in Nat,
           Retry(t, at, c, fatal), UNCHANGED <<content, tries>>,
           heard' = [heard EXCEPT ![t] = a],
           source' = [source EXCEPT ![t] = f],
           hits' = [hits EXCEPT ![t] = h],
           unwinding' \ {t} = unwinding \ {t}, staged' \ {t} = staged \ {t},
           t \in staged => t \in staged',
           content[t] = "broken" \/ tries[t] + Late(stage[t], t \in unwinding') <= 2 * h
    PROVE  AttemptsInv'
  <1> DEFINE last == fatal \/ tries[t] >= MaximumAttempts[stage[t]]
             s == IF last THEN "done" ELSE stage[t]
             o == IF last THEN Failed(stage[t], at, c) ELSE out[t]
             late == t \in unwinding'
  <1>1. /\ stage' = [stage EXCEPT ![t] = s] /\ pc' = [pc EXCEPT ![t] = Idle]
        /\ out' = [out EXCEPT ![t] = o] /\ tries' = [tries EXCEPT ![t] = tries[t]]
        /\ content' = content
    BY TweetParts DEF Retry
  <1>2. /\ stage[t] # "done" /\ tries[t] \in Nat /\ (stage[t] # "download" => t \in staged)
        /\ MaximumAttempts[stage[t]] \in Nat
    BY RunningSettled, BoundsAssumption
  <1>3. Settled(content[t], s, tries[t], Idle, f, late, t \in staged', h, o, a)
    <2>1. CASE last
      <3>1. s = "done" /\ o.activity = stage[t]
        BY <2>1 DEF Failed
      <3>2. a \in Permanent \/ content[t] = "broken" \/ 2 * h >= MaximumAttempts[stage[t]]
        <4>1. CASE fatal
          BY <4>1
        <4>2. CASE ~fatal
          <5>1. tries[t] >= MaximumAttempts[stage[t]]
            BY <2>1, <4>2
          <5>2. Late(stage[t], late) \in {0, 1}
            BY DEF Late
          <5> QED BY <1>2, <5>1, <5>2
        <4> QED BY <4>1, <4>2
      <3> QED BY <3>1, <3>2 DEF Settled, Exhausted
    <2>2. CASE ~last
      <3>1. s = stage[t]
        BY <2>2
      <3>2. Owed(stage[t], tries[t], Idle, f, late) = tries[t] + Late(stage[t], late)
        BY <1>2, OwedFacts
      <3>3. Idle[1] = "none"
        BY DEF Idle, At
      <3> QED BY <1>2, <3>1, <3>2, <3>3 DEF Settled, Covered
    <2> QED BY <2>1, <2>2
  <1> HIDE DEF s, o, late
  <1> QED BY <1>1, <1>3, OneSettled DEF late

(* An attempt that meets a failure pays for itself and for the file its    *)
(* clean-up may still take from the next one.                              *)
LEMMA FaultSettles ==
    ASSUME AttemptsInv, CandidateInv', NEW t \in Tweets, pc[t] # Idle, Hit(t), NEW at, NEW c,
           NEW fatal \in BOOLEAN, NEW a, fatal => a \in Permanent, FailOn(t, a, at, c, fatal)
    PROVE  AttemptsInv'
  <1> DEFINE f == IF stage[t] = "download" THEN "none" ELSE source[t]
  <1>1. /\ Retry(t, at, c, fatal) /\ UNCHANGED <<content, tries, unwinding, staged>>
        /\ heard' = [heard EXCEPT ![t] = a] /\ hits' = [hits EXCEPT ![t] = hits[t] + 1]
    BY DEF FailOn, Hit
  <1>2. source' = [source EXCEPT ![t] = f]
    BY TweetParts DEF FailOn, RemoveAll
  <1>3. content[t] = "broken" \/ tries[t] + Late(stage[t], t \in unwinding') <= 2 * (hits[t] + 1)
    <2> DEFINE owed == Owed(stage[t], tries[t], pc[t], source[t], t \in unwinding)
    <2>1. owed \in Int /\ owed >= tries[t] - 1 + Late(stage[t], t \in unwinding)
      BY RunningSettled, OwedFacts
    <2>2. content[t] = "broken" \/ owed <= 2 * hits[t]
      BY RunningSettled DEF Covered
    <2>3. Late(stage[t], t \in unwinding) \in {0, 1} /\ (t \in unwinding') = (t \in unwinding)
      BY <1>1 DEF Late
    <2> HIDE DEF owed
    <2> QED BY <2>1, <2>2, <2>3, RunningSettled
  <1>4. hits[t] + 1 \in Nat
    BY RunningSettled
  <1> HIDE DEF f
  <1> QED BY <1>1, <1>2, <1>3, <1>4, RetrySettles

(* An attempt that fails without meeting a failure works on a broken file, *)
(* or on one that is gone: the time-out behind that pays for it.           *)
LEMMA LostSettles ==
    ASSUME AttemptsInv, CandidateInv', NEW t \in Tweets, pc[t] # Idle, NEW at, NEW c,
           content[t] = "broken" \/ Lost(pc[t], source[t]),
           Fail(t, at, c, FALSE), UNCHANGED hits
    PROVE  AttemptsInv'
  <1> DEFINE f == IF stage[t] = "download" THEN "none" ELSE source[t]
  <1>1. /\ Retry(t, at, c, FALSE) /\ UNCHANGED <<content, tries, unwinding, staged>>
        /\ heard' = [heard EXCEPT ![t] = "none"] /\ hits' = [hits EXCEPT ![t] = hits[t]]
    BY TweetParts DEF Fail, FailOn
  <1>2. source' = [source EXCEPT ![t] = f]
    BY TweetParts DEF Fail, FailOn, RemoveAll
  <1>3. content[t] = "broken" \/ tries[t] + Late(stage[t], t \in unwinding') <= 2 * hits[t]
    <2>1. CASE content[t] # "broken"
      <3>1. Owed(stage[t], tries[t], pc[t], source[t], t \in unwinding) <= 2 * hits[t]
        BY <2>1, RunningSettled DEF Covered
      <3>2. Owed(stage[t], tries[t], pc[t], source[t], t \in unwinding)
              = tries[t] + Late(stage[t], t \in unwinding)
        BY <2>1, RunningSettled, OwedFacts
      <3>3. (t \in unwinding') = (t \in unwinding)
        BY <1>1
      <3> QED BY <3>1, <3>2, <3>3
    <2> QED BY <2>1
  <1> HIDE DEF f
  <1> QED BY <1>1, <1>2, <1>3, RunningSettled, RetrySettles

(* A rejection is no failure, so it owes nothing (activities.go:257).      *)
LEMMA RejectSettles ==
    ASSUME AttemptsInv, CandidateInv', NEW t \in Tweets, pc[t] # Idle, NEW a, NEW why,
           RejectOn(t, a, why), UNCHANGED hits \/ Hit(t)
    PROVE  AttemptsInv'
  <1> DEFINE f == IF stage[t] = "download" THEN "none" ELSE source[t]
             o == Rejected(why)
  <1>1. /\ stage' = [stage EXCEPT ![t] = "done"] /\ pc' = [pc EXCEPT ![t] = Idle]
        /\ tries' = [tries EXCEPT ![t] = tries[t]] /\ heard' = [heard EXCEPT ![t] = a]
        /\ source' = [source EXCEPT ![t] = f] /\ out' = [out EXCEPT ![t] = o]
        /\ UNCHANGED <<content, unwinding, staged>>
    BY TweetParts DEF RejectOn, RemoveAll
  <1>2. PICK h : hits' = [hits EXCEPT ![t] = h]
    BY TweetParts DEF Hit
  <1>3. Settled(content[t], "done", tries[t], Idle, f, t \in unwinding', t \in staged', h, o, a)
    <2>1. o.verdict = "rejected"
      BY DEF Rejected, Pending
    <2> QED BY <2>1 DEF Settled, Exhausted
  <1> HIDE DEF f, o
  <1> QED BY <1>1, <1>2, <1>3, OneSettled

(* The same for a rejection that no answer caused.                         *)
LEMMA RejectedSettles ==
    ASSUME AttemptsInv, CandidateInv', NEW t \in Tweets, pc[t] # Idle, NEW why, Reject(t, why)
    PROVE  AttemptsInv'
  BY RejectSettles DEF Reject

(* The next activity starts with nothing owed; it works on a staged file.  *)
LEMMA AdvanceSettles ==
    ASSUME AttemptsInv, CandidateInv', NEW t \in Tweets, pc[t] # Idle,
           NEW s \in {"hash", "vision", "done"}, NEW o, Advance(t, s),
           out' = [out EXCEPT ![t] = o], s = "done" => o.verdict = "passed",
           staged' \ {t} = staged \ {t}, t \in staged'
    PROVE  AttemptsInv'
  <1> DEFINE f == IF stage[t] = "download" THEN "none" ELSE source[t]
  <1>1. /\ stage' = [stage EXCEPT ![t] = s] /\ pc' = [pc EXCEPT ![t] = Idle]
        /\ tries' = [tries EXCEPT ![t] = 0] /\ hits' = [hits EXCEPT ![t] = 0]
        /\ heard' = [heard EXCEPT ![t] = heard[t]] /\ source' = [source EXCEPT ![t] = f]
        /\ UNCHANGED <<content, unwinding>>
    BY TweetParts DEF Advance, RemoveAll
  <1>2. Settled(content[t], s, 0, Idle, f, t \in unwinding', t \in staged', 0, o, heard[t])
    <2>1. CASE s = "done"
      BY <2>1 DEF Settled, Exhausted
    <2>2. CASE s # "done"
      <3>1. Owed(s, 0, Idle, f, t \in unwinding') = 0
        <4>1. Owed(s, 0, Idle, f, t \in unwinding') = 0 + Late(s, t \in unwinding')
          BY OwedFacts
        <4>2. Late(s, t \in unwinding') = 0
          BY DEF Late
        <4> QED BY <4>1, <4>2
      <3>2. Idle[1] = "none"
        BY DEF Idle, At
      <3> QED BY <2>2, <3>1, <3>2 DEF Settled, Covered
    <2> QED BY <2>1, <2>2
  <1> HIDE DEF f
  <1> QED BY <1>1, <1>2, OneSettled

(* Within an attempt, when its file does not go missing.                   *)
LEMMA GotoSettles ==
    ASSUME AttemptsInv, CandidateInv', NEW t \in Tweets, pc[t] # Idle, NEW p, p # Idle, NEW f,
           Goto(t, p), source' = [source EXCEPT ![t] = f], UNCHANGED <<staged, hits>>,
           Lost(p, f) => Lost(pc[t], source[t]),
           p[1] \in {"probe", "fingerprint", "upload"} => f # "part"
    PROVE  AttemptsInv'
  <1>1. /\ stage' = [stage EXCEPT ![t] = stage[t]] /\ pc' = [pc EXCEPT ![t] = p]
        /\ tries' = [tries EXCEPT ![t] = tries[t]] /\ hits' = [hits EXCEPT ![t] = hits[t]]
        /\ heard' = [heard EXCEPT ![t] = heard[t]] /\ out' = [out EXCEPT ![t] = out[t]]
        /\ UNCHANGED <<content, unwinding, staged>>
    BY TweetParts DEF Goto
  <1>2. Owed(stage[t], tries[t], p, f, t \in unwinding)
          <= Owed(stage[t], tries[t], pc[t], source[t], t \in unwinding)
    <2>1. tries[t] \in Nat /\ Late(stage[t], t \in unwinding) \in {0, 1}
      BY RunningSettled DEF Late
    <2> QED BY <2>1 DEF Owed
  <1>3. Covered(content[t], stage[t], tries[t], p, f, t \in unwinding, hits[t])
    <2> DEFINE before == Owed(stage[t], tries[t], pc[t], source[t], t \in unwinding)
               after == Owed(stage[t], tries[t], p, f, t \in unwinding)
    <2>1. before \in Int /\ after \in Int /\ after <= before
      BY <1>2, RunningSettled, OwedFacts
    <2>2. content[t] = "broken" \/ before <= 2 * hits[t]
      BY RunningSettled DEF Covered
    <2> HIDE DEF before, after
    <2>3. content[t] = "broken" \/ after <= 2 * hits[t]
      BY <2>1, <2>2, RunningSettled
    <2> QED BY <2>3 DEF after, Covered
  <1>4. (t \in unwinding') = (t \in unwinding) /\ (t \in staged') = (t \in staged)
    BY <1>1
  <1>5. Settled(content[t], stage[t], tries[t], p, f, t \in unwinding', t \in staged', hits[t],
                out[t], heard[t])
    BY <1>3, <1>4, RunningSettled DEF Settled
  <1> QED BY <1>1, <1>5, OneSettled

(* An attempt that meets a failure covers itself and one clean-up.         *)
LEMMA FaultFails ==
    ASSUME AttemptsInv, CandidateInv', NEW t \in Tweets, pc[t] # Idle, Fault(t) \/ Hit(t)
    PROVE  /\ \A at, c : Fail(t, at, c, FALSE) => AttemptsInv'
           /\ \A op, e : FailOp(t, op, e) => AttemptsInv'
  <1>1. Hit(t)
    BY DEF Fault
  <1>2. ASSUME NEW at, NEW c, Fail(t, at, c, FALSE) PROVE AttemptsInv'
    BY <1>1, <1>2, FaultSettles DEF Fail
  <1>3. ASSUME NEW op, NEW e, FailOp(t, op, e) PROVE AttemptsInv'
    BY <1>2, <1>3 DEF FailOp
  <1> QED BY <1>2, <1>3

(* The start step keeps the balance of attempts (workflow/video.go:134).   *)
LEMMA StartSettles ==
    ASSUME AttemptsInv, CandidateInv', NEW t \in Tweets, StartAttempt(t)
    PROVE  AttemptsInv'
  <1> DEFINE p == CASE stage[t] = "download" -> At("resolve", "run")
                    [] stage[t] = "hash"     -> At("hash_fetch", "run")
                    [] stage[t] = "vision"   -> At("clip_fetch", "run")
  <1>1. /\ stage[t] \in {"download", "hash", "vision"} /\ pc[t] = Idle
        /\ tries[t] \in Nat /\ TweetSettled(t)
    BY TweetParts DEF StartAttempt, Stages
  <1>2. /\ stage' = [stage EXCEPT ![t] = stage[t]] /\ pc' = [pc EXCEPT ![t] = p]
        /\ tries' = [tries EXCEPT ![t] = tries[t] + 1] /\ hits' = [hits EXCEPT ![t] = hits[t]]
        /\ heard' = [heard EXCEPT ![t] = "none"] /\ out' = [out EXCEPT ![t] = out[t]]
        /\ source' = [source EXCEPT ![t] = source[t]]
        /\ UNCHANGED <<content, unwinding, staged>>
    BY TweetParts DEF StartAttempt
  <1>3. p # Idle /\ p[1] \in {"resolve", "hash_fetch", "clip_fetch"}
    BY <1>1 DEF At, Idle
  <1> HIDE DEF p
  <1>4. Owed(stage[t], tries[t] + 1, p, source[t], t \in unwinding)
          = Owed(stage[t], tries[t], Idle, source[t], t \in unwinding)
    <2>1. ~Lost(p, source[t]) /\ tries[t] + 1 \in Nat
      BY <1>1, <1>3 DEF Lost
    <2>2. /\ Owed(stage[t], tries[t], Idle, source[t], t \in unwinding)
               = tries[t] + Late(stage[t], t \in unwinding)
          /\ Owed(stage[t], tries[t] + 1, p, source[t], t \in unwinding)
               = (tries[t] + 1) - 1 + Late(stage[t], t \in unwinding)
          /\ Late(stage[t], t \in unwinding) \in {0, 1}
      BY <1>1, <1>3, <2>1, OwedFacts
    <2> QED BY <1>1, <2>2
  <1>5. Settled(content[t], stage[t], tries[t] + 1, p, source[t], t \in unwinding', t \in staged',
                hits[t], out[t], "none")
    <2>1. Covered(content[t], stage[t], tries[t], Idle, source[t], t \in unwinding, hits[t])
          /\ (stage[t] # "download" => t \in staged)
      BY <1>1 DEF TweetSettled, Settled
    <2>2. Covered(content[t], stage[t], tries[t] + 1, p, source[t], t \in unwinding, hits[t])
      BY <1>4, <2>1 DEF Covered
    <2>3. (t \in unwinding') = (t \in unwinding) /\ (t \in staged') = (t \in staged)
      BY <1>2
    <2> QED BY <1>1, <1>3, <2>1, <2>2, <2>3 DEF Settled
  <1> QED BY <1>2, <1>5, OneSettled

(* The resolve step keeps the balance of attempts (activities.go:84).      *)
LEMMA ResolveSettles ==
    ASSUME AttemptsInv, CandidateInv', NEW t \in Tweets, ResolveVideo(t)
    PROVE  AttemptsInv'
  <1>1. pc[t] # Idle
    BY PositionFacts DEF ResolveVideo
  <1>2. CASE Goto(t, At("fetch", "run")) /\ source' = [source EXCEPT ![t] = "part"]
             /\ UNCHANGED <<staged, hits>>
    <2>1. ~Lost(At("fetch", "run"), "part") /\ At("fetch", "run")[1] = "fetch"
      BY DEF Lost, At
    <2> QED BY <1>1, <1>2, <2>1, PositionFacts, GotoSettles
  <1> QED BY <1>1, <1>2, RejectedSettles, FaultFails DEF ResolveVideo

(* The download step keeps the balance of attempts (activities.go:204).    *)
LEMMA DownloadSettles ==
    ASSUME AttemptsInv, CandidateInv', NEW t \in Tweets, downloadTo(t)
    PROVE  AttemptsInv'
  <1> DEFINE f == IF source[t] = "none" THEN "none" ELSE "whole"
  <1>1. pc[t] # Idle /\ pc[t][1] = "fetch"
    BY DEF downloadTo, At, Idle
  <1>2. CASE Goto(t, At("probe", "stat")) /\ source' = [source EXCEPT ![t] = f]
             /\ UNCHANGED <<staged, hits>>
    <2>1. Lost(At("probe", "stat"), f) => Lost(pc[t], source[t])
      BY <1>1 DEF Lost
    <2>2. f # "part"
      OBVIOUS
    <2> HIDE DEF f
    <2> QED BY <1>1, <1>2, <2>1, <2>2, PositionFacts, GotoSettles
  <1>3. source' = [source EXCEPT ![t] = IF @ = "none" THEN "none" ELSE "whole"]
          => source' = [source EXCEPT ![t] = f]
    BY TweetParts
  <1>4. \A e : Fault(t) /\ RejectOn(t, "cdn_404", e) => AttemptsInv'
    BY <1>1, RejectSettles DEF Fault
  <1> HIDE DEF f
  <1> QED BY <1>1, <1>2, <1>3, <1>4, RejectedSettles, FaultFails DEF downloadTo

(* A clip that is not broken fails its probe only when its file is gone.   *)
LEMMA ProbeSettles ==
    ASSUME AttemptsInv, CandidateInv', NEW t \in Tweets, ProbeMetadata(t)
    PROVE  AttemptsInv'
  <1>1. pc[t] # Idle /\ pc[t][1] = "probe"
    BY DEF ProbeMetadata, At, Idle
  <1>2. CASE /\ Goto(t, At("fingerprint", "stat")) /\ source[t] = "whole"
             /\ UNCHANGED <<source, staged, hits>>
    <2>1. source' = [source EXCEPT ![t] = source[t]]
      BY <1>2, TweetParts
    <2>2. Lost(At("fingerprint", "stat"), source[t]) => Lost(pc[t], source[t])
      BY <1>2 DEF Lost
    <2> QED BY <1>1, <1>2, <2>1, <2>2, PositionFacts, GotoSettles
  <1>3. ASSUME NEW e, ~(source[t] = "whole" /\ content[t] # "broken"),
               FailOp(t, "probe", e), UNCHANGED hits
        PROVE  AttemptsInv'
    <2>1. content[t] = "broken" \/ Lost(pc[t], source[t])
      BY <1>1, <1>3, TweetParts, RunningSettled DEF Lost
    <2> QED BY <1>1, <1>3, <2>1, LostSettles DEF FailOp
  <1> QED BY <1>1, <1>2, <1>3, RejectedSettles, FaultFails DEF ProbeMetadata

(* The skip step keeps the balance of attempts (activities.go:133).        *)
LEMMA SkipSettles ==
    ASSUME AttemptsInv, CandidateInv', NEW t \in Tweets, pc[t][1] = "fingerprint", SkipFingerprint(t),
           UNCHANGED hits
    PROVE  AttemptsInv'
  <1>1. pc[t] # Idle
    BY DEF At, Idle
  <1>2. source' = [source EXCEPT ![t] = source[t]]
    BY TweetParts DEF SkipFingerprint
  <1>3. Lost(At("upload", "run"), source[t]) => Lost(pc[t], source[t])
    BY DEF Lost
  <1>4. source[t] # "part"
    BY <1>1, RunningSettled
  <1> QED BY <1>1, <1>2, <1>3, <1>4, PositionFacts, GotoSettles DEF SkipFingerprint

(* The upload step keeps the balance of attempts (activities.go:226).      *)
LEMMA UploadSettles ==
    ASSUME AttemptsInv, CandidateInv', NEW t \in Tweets, uploadFile(t)
    PROVE  AttemptsInv'
  <1>1. pc[t] # Idle /\ pc[t][1] = "upload"
    BY DEF uploadFile, At, Idle
  <1>2. CASE Upload(t) /\ Advance(t, "hash") /\ UNCHANGED out
    <2>1. out' = [out EXCEPT ![t] = out[t]]
      BY <1>2, TweetParts
    <2>2. staged' \ {t} = staged \ {t} /\ t \in staged'
      BY <1>2 DEF Upload
    <2> QED BY <1>1, <1>2, <2>1, <2>2, AdvanceSettles
  <1>3. CASE source[t] # "whole" /\ Fail(t, "staging_upload", "storage", FALSE) /\ UNCHANGED hits
    <2>1. Lost(pc[t], source[t])
      BY <1>1, <1>3, TweetParts, RunningSettled DEF Lost
    <2> QED BY <1>1, <1>3, <2>1, LostSettles
  <1> QED BY <1>1, <1>2, <1>3, FaultFails DEF uploadFile

(* The stat step keeps the balance of attempts (ffmpeg/client.go:514).     *)
LEMMA StatSettles ==
    ASSUME AttemptsInv, CandidateInv', NEW t \in Tweets, statInput(t)
    PROVE  AttemptsInv'
  <1>1. pc[t] # Idle /\ pc[t][2] = "stat" /\ UNCHANGED hits
    BY DEF statInput, At, Idle
  <1>2. stage[t] \in {"download", "hash", "vision"} /\ pc[t] \in Positions[stage[t]]
    BY <1>1, Running DEF AttemptsInv
  <1>3. CASE pc[t][1] = "fingerprint" /\ SkipFingerprint(t)
    BY <1>1, <1>3, SkipSettles
  <1>4. CASE stage[t] = "download" /\ source[t] = "none" /\ FailOp(t, pc[t][1], "ErrInputNotFound")
    <2>1. pc[t][1] \in {"probe", "fingerprint"}
      BY <1>1, <1>2, <1>4 DEF Positions, At
    <2>2. Lost(pc[t], source[t])
      BY <1>4, <2>1 DEF Lost
    <2> QED BY <1>1, <1>4, <2>2, LostSettles DEF FailOp
  <1>5. CASE Goto(t, At(pc[t][1], "wait")) /\ UNCHANGED <<source, staged>>
    <2>1. At(pc[t][1], "wait") # Idle /\ At(pc[t][1], "wait")[1] = pc[t][1]
      BY <1>2, SameOperation
    <2>2. source' = [source EXCEPT ![t] = source[t]]
      BY <1>5, TweetParts
    <2> QED BY <1>1, <1>5, <2>1, <2>2, RunningSettled, GotoSettles DEF Lost
  <1> QED BY <1>3, <1>4, <1>5 DEF statInput

(* The acquire step keeps the balance of attempts (ffmpeg/client.go:272).  *)
LEMMA AcquireSettles ==
    ASSUME AttemptsInv, CandidateInv', NEW t \in Tweets, acquire(t)
    PROVE  AttemptsInv'
  <1>1. pc[t] # Idle
    BY DEF acquire, At, Idle
  <1>2. stage[t] \in {"download", "hash", "vision"} /\ pc[t] \in Positions[stage[t]]
    BY <1>1, Running DEF AttemptsInv
  <1>3. CASE Goto(t, At(pc[t][1], "run")) /\ UNCHANGED <<source, staged, hits>>
    <2>1. At(pc[t][1], "run") # Idle /\ At(pc[t][1], "run")[1] = pc[t][1]
      BY <1>2, SameOperation
    <2>2. source' = [source EXCEPT ![t] = source[t]]
      BY <1>3, TweetParts
    <2> QED BY <1>1, <1>3, <2>1, <2>2, RunningSettled, GotoSettles DEF Lost
  <1> QED BY <1>1, <1>3, SkipSettles, FaultFails DEF acquire

(* What HashVideo and ValidateClip fetch is there.                         *)
LEMMA FetchSettles ==
    ASSUME AttemptsInv, CandidateInv', NEW t \in Tweets, fetchStaged(t)
    PROVE  AttemptsInv'
  <1>1. pc[t] # Idle /\ pc[t][1] \in {"hash_fetch", "clip_fetch"}
    BY DEF fetchStaged, At, Idle
  <1>2. stage[t] \in {"hash", "vision"}
    <2>1. stage[t] \in {"download", "hash", "vision"} /\ pc[t] \in Positions[stage[t]]
      BY <1>1, Running DEF AttemptsInv
    <2> QED BY <1>1, <2>1 DEF Positions, At
  <1>3. Download(t)
    BY <1>1, <1>2, RunningSettled DEF Download
  <1>4. CASE /\ Goto(t, At(IF stage[t] = "hash" THEN "dense" ELSE "clip_probe", "stat"))
             /\ UNCHANGED <<source, staged, hits>>
    <2> DEFINE p == At(IF stage[t] = "hash" THEN "dense" ELSE "clip_probe", "stat")
    <2>1. p # Idle /\ p[1] \in {"dense", "clip_probe"}
      BY DEF At, Idle
    <2>2. source' = [source EXCEPT ![t] = source[t]]
      BY <1>4, TweetParts
    <2>3. Goto(t, p) /\ UNCHANGED <<staged, hits>>
      BY <1>4
    <2> HIDE DEF p
    <2> QED BY <1>1, <2>1, <2>2, <2>3, GotoSettles DEF Lost
  <1> QED BY <1>1, <1>3, <1>4, FaultFails DEF fetchStaged

(* The dense step keeps the balance of attempts (ffmpeg/client.go:192).    *)
LEMMA DenseSettles ==
    ASSUME AttemptsInv, CandidateInv', NEW t \in Tweets, ExtractDenseFrames(t)
    PROVE  AttemptsInv'
  <1>1. pc[t] # Idle /\ stage[t] \in {"download", "hash", "vision"} /\ pc[t] \in Positions[stage[t]]
    <2>1. pc[t] # Idle
      BY DEF ExtractDenseFrames, At, Idle
    <2> QED BY <2>1, Running DEF AttemptsInv
  <1>2. stage[t] = "hash"
    BY <1>1 DEF ExtractDenseFrames, Positions, At
  <1>3. CASE Advance(t, "vision") /\ UNCHANGED <<staged, out>>
    <2>1. out' = [out EXCEPT ![t] = out[t]] /\ t \in staged
      BY <1>1, <1>2, <1>3, TweetParts, RunningSettled
    <2> QED BY <1>1, <1>3, <2>1, AdvanceSettles
  <1> QED BY <1>1, <1>3, RejectedSettles, FaultFails DEF ExtractDenseFrames

(* The frame step keeps the balance of attempts (ffmpeg/client.go:160).    *)
LEMMA FrameSettles ==
    ASSUME AttemptsInv, CandidateInv', NEW t \in Tweets, ExtractFrame(t)
    PROVE  AttemptsInv'
  <1>1. pc[t] # Idle
    BY DEF ExtractFrame, At, Idle
  <1>2. CASE Goto(t, NextFrame(pc[t][1])) /\ UNCHANGED <<source, staged, hits>>
    <2> DEFINE p == NextFrame(pc[t][1])
    <2>1. p # Idle /\ p[1] \in {"frame1", "frame2", "frame3", "chat"}
      BY DEF ExtractFrame, NextFrame, At, Idle
    <2>2. source' = [source EXCEPT ![t] = source[t]]
      BY <1>2, TweetParts
    <2>3. Goto(t, p) /\ UNCHANGED <<staged, hits>>
      BY <1>2
    <2> HIDE DEF p
    <2> QED BY <1>1, <2>1, <2>2, <2>3, GotoSettles DEF Lost
  <1> QED BY <1>1, <1>2, FaultFails DEF ExtractFrame

(* The admit step keeps the balance of attempts (llm/client.go:134).       *)
LEMMA AdmitSettles ==
    ASSUME AttemptsInv, CandidateInv', NEW t \in Tweets, ChatAdmit(t)
    PROVE  AttemptsInv'
  <1> DEFINE p == At("chat", "run")
  <1>1. pc[t] # Idle /\ p # Idle /\ p[1] = "chat"
    BY DEF ChatAdmit, At, Idle
  <1>2. Goto(t, p) /\ source' = [source EXCEPT ![t] = source[t]] /\ UNCHANGED <<staged, hits>>
    BY TweetParts DEF ChatAdmit
  <1> HIDE DEF p
  <1> QED BY <1>1, <1>2, GotoSettles DEF Lost

(* The chat step keeps the balance of attempts (llm/client.go:184).        *)
LEMMA ChatSettles ==
    ASSUME AttemptsInv, CandidateInv', NEW t \in Tweets, Chat(t)
    PROVE  AttemptsInv'
  <1>1. pc[t] # Idle /\ stage[t] \in {"download", "hash", "vision"} /\ pc[t] \in Positions[stage[t]]
    <2>1. pc[t] # Idle
      BY DEF Chat, At, Idle
    <2> QED BY <2>1, Running DEF AttemptsInv
  <1>2. stage[t] = "vision"
    BY <1>1 DEF Chat, Positions, At
  <1>3. CASE /\ out' = [out EXCEPT ![t] = [Pending EXCEPT !.verdict = "passed"]]
             /\ Advance(t, "done") /\ UNCHANGED staged
    <2>1. [Pending EXCEPT !.verdict = "passed"].verdict = "passed"
      BY DEF Pending
    <2>2. t \in staged'
      BY <1>1, <1>2, <1>3, RunningSettled
    <2> QED BY <1>1, <1>3, <2>1, <2>2, AdvanceSettles
  <1>4. ASSUME NEW at, NEW e, NEW a, Fault(t), permanent(at, e) => a \in Permanent,
               FailOn(t, a, at, classifyFailure(at, e), permanent(at, e))
        PROVE  AttemptsInv'
    <2>1. permanent(at, e) \in BOOLEAN
      BY FailureClasses
    <2> QED BY <1>1, <1>4, <2>1, FaultSettles DEF Fault
  <1>5. /\ "bad_body" \in Permanent
        /\ \A a \in ChatFaults : permanent("model_request", classifyError(a)) => a \in Permanent
    BY PermanentAnswers
  <1> QED BY <1>1, <1>3, <1>4, <1>5, RejectedSettles DEF Chat

(* A time-out pays for its attempt and for the clean-up it leaves behind.  *)
LEMMA TimeOutSettles ==
    ASSUME AttemptsInv, CandidateInv', NEW t \in Tweets, TimeOut(t)
    PROVE  AttemptsInv'
  <1>1. /\ pc[t] # Idle /\ t \notin unwinding /\ Retry(t, "activity", "timeout", FALSE)
        /\ UNCHANGED <<content, tries>>
        /\ heard' = [heard EXCEPT ![t] = heard[t]] /\ source' = [source EXCEPT ![t] = source[t]]
        /\ hits' = [hits EXCEPT ![t] = hits[t] + 1]
    BY TweetParts DEF TimeOut, Fault, Hit
  <1>2. unwinding' \ {t} = unwinding \ {t} /\ staged' \ {t} = staged \ {t} /\ (t \in staged => t \in staged')
    BY DEF TimeOut, Upload
  <1>3. content[t] = "broken" \/ tries[t] + Late(stage[t], t \in unwinding') <= 2 * (hits[t] + 1)
    <2> DEFINE owed == Owed(stage[t], tries[t], pc[t], source[t], t \in unwinding)
    <2>1. owed \in Int /\ owed >= tries[t] - 1 + Late(stage[t], t \in unwinding)
      BY <1>1, RunningSettled, OwedFacts
    <2>2. content[t] = "broken" \/ owed <= 2 * hits[t]
      BY <1>1, RunningSettled DEF Covered
    <2>3. Late(stage[t], t \in unwinding) = 0 /\ Late(stage[t], t \in unwinding') \in {0, 1}
      BY <1>1 DEF Late
    <2> HIDE DEF owed
    <2> QED BY <1>1, <2>1, <2>2, <2>3, RunningSettled
  <1>4. hits[t] + 1 \in Nat
    BY <1>1, RunningSettled
  <1> QED BY <1>1, <1>2, <1>3, <1>4, RetrySettles

(* A late clean-up takes the file of the running download, if there is one; *)
(* what it might have taken no longer counts.                              *)
LEMMA LateSettles ==
    ASSUME AttemptsInv, CandidateInv', NEW t \in Tweets, LateRemoveAll(t)
    PROVE  AttemptsInv'
  <1>1. /\ stage' = [stage EXCEPT ![t] = stage[t]] /\ pc' = [pc EXCEPT ![t] = pc[t]]
        /\ tries' = [tries EXCEPT ![t] = tries[t]] /\ hits' = [hits EXCEPT ![t] = hits[t]]
        /\ heard' = [heard EXCEPT ![t] = heard[t]] /\ out' = [out EXCEPT ![t] = out[t]]
        /\ source' = [source EXCEPT ![t] = "none"]
        /\ content' = content /\ unwinding' \ {t} = unwinding \ {t} /\ staged' = staged
        /\ t \in unwinding /\ t \notin unwinding'
    BY TweetParts DEF LateRemoveAll
  <1>2. Settled(content[t], stage[t], tries[t], pc[t], "none", t \in unwinding', t \in staged', hits[t],
                out[t], heard[t])
    <2>1. Settled(content[t], stage[t], tries[t], pc[t], source[t], t \in unwinding, t \in staged, hits[t],
                  out[t], heard[t])
      BY <1>1, TweetParts DEF TweetSettled
    <2>2. CASE stage[t] = "done"
      BY <2>1, <2>2 DEF Settled
    <2>3. CASE stage[t] # "done"
      <3>1. /\ stage[t] \in {"download", "hash", "vision"} /\ tries[t] \in Nat /\ hits[t] \in Nat
            /\ Covered(content[t], stage[t], tries[t], pc[t], source[t], t \in unwinding, hits[t])
            /\ (stage[t] # "download" => t \in staged)
        BY <2>1, <2>3, TweetParts DEF Settled, Stages
      <3>2. Lost(pc[t], "none") => stage[t] = "download" /\ pc[t] # Idle
        <4>1. pc[t] \in Positions[stage[t]] \cup {Idle}
          BY DEF AttemptsInv, CandidateInv, TypeOK
        <4>2. ASSUME Lost(pc[t], "none") PROVE stage[t] = "download" /\ pc[t] # Idle
          <5>1. pc[t] # Idle
            BY <4>2 DEF Lost, Idle, At
          <5> QED BY <3>1, <4>1, <4>2, <5>1, DownloadOps DEF Lost
        <4> QED BY <4>2
      <3>3. Owed(stage[t], tries[t], pc[t], "none", t \in unwinding') <= Owed(stage[t], tries[t], pc[t], source[t], t \in unwinding)
        BY <1>1, <3>1, <3>2 DEF Owed, Late
      <3>4. Covered(content[t], stage[t], tries[t], pc[t], "none", t \in unwinding', hits[t])
        <4> DEFINE before == Owed(stage[t], tries[t], pc[t], source[t], t \in unwinding)
                   after == Owed(stage[t], tries[t], pc[t], "none", t \in unwinding')
        <4>1. before \in Int /\ after \in Int /\ after <= before
          BY <3>1, <3>3, OwedFacts
        <4>2. content[t] = "broken" \/ before <= 2 * hits[t]
          BY <3>1 DEF Covered
        <4> HIDE DEF before, after
        <4>3. content[t] = "broken" \/ after <= 2 * hits[t]
          BY <3>1, <4>1, <4>2
        <4> QED BY <4>3 DEF after, Covered
      <3> QED BY <1>1, <2>3, <3>1, <3>4 DEF Settled
    <2> QED BY <2>2, <2>3
  <1>3. staged' \ {t} = staged \ {t}
    BY <1>1
  <1> QED BY <1>1, <1>2, <1>3, OneSettled

(* The death of the worker is a failure of every running attempt, and the  *)
(* pending clean-ups die with it.                                          *)
LEMMA WorkerDiesSettles ==
    ASSUME AttemptsInv, CandidateInv', WorkerDies
    PROVE  AttemptsInv'
  <1> SUFFICES ASSUME NEW t \in Tweets
               PROVE  Settled(content[t], stage'[t], tries[t], Idle, source[t], FALSE, t \in staged,
                              hits'[t], out'[t], heard[t])
    <2>1. unwinding' = {} /\ UNCHANGED <<content, tries, source, staged, heard>>
      BY DEF WorkerDies
    <2>2. \A u \in Tweets : pc'[u] = Idle /\ u \notin unwinding'
      BY DEF WorkerDies
    <2> QED BY <2>1, <2>2
            DEF AttemptsInv, TweetSettled, Settled, Covered, Exhausted, Owed, Lost, Late, Idle, At
  <1> DEFINE ended == pc[t] # Idle /\ tries[t] >= MaximumAttempts[stage[t]]
  <1>1. /\ stage'[t] = (IF ended THEN "done" ELSE stage[t])
        /\ out'[t] = (IF ended THEN Failed(stage[t], "activity", "timeout") ELSE out[t])
        /\ hits'[t] = (IF pc[t] # Idle THEN hits[t] + 1 ELSE hits[t])
    BY DEF WorkerDies
  <1>2. tries[t] \in Nat /\ hits[t] \in Nat /\ Idle[1] = "none"
        /\ Owed(stage[t], tries[t], Idle, source[t], FALSE) = tries[t]
    <2>1. tries[t] \in Nat /\ hits[t] \in Nat
      BY TweetParts
    <2>2. Idle[1] = "none"
      BY DEF Idle, At
    <2>3. Owed(stage[t], tries[t], Idle, source[t], FALSE) = tries[t]
      BY <2>1, OwesAttempts
    <2> QED BY <2>1, <2>2, <2>3
  <1>3. CASE pc[t] # Idle
    <2>1. /\ stage[t] # "done" /\ MaximumAttempts[stage[t]] \in Nat
          /\ (stage[t] # "download" => t \in staged)
      BY <1>3, RunningSettled, BoundsAssumption
    <2>2. content[t] = "broken" \/ tries[t] <= 2 * (hits[t] + 1)
      <3> DEFINE owed == Owed(stage[t], tries[t], pc[t], source[t], t \in unwinding)
      <3>1. owed \in Int /\ owed >= tries[t] - 1 + Late(stage[t], t \in unwinding)
        BY <1>2, <1>3, OwedFacts
      <3>2. Late(stage[t], t \in unwinding) \in {0, 1}
        BY DEF Late
      <3>3. content[t] = "broken" \/ owed <= 2 * hits[t]
        BY <1>3, RunningSettled DEF Covered
      <3> HIDE DEF owed
      <3> QED BY <1>2, <3>1, <3>2, <3>3
    <2>3. CASE ended
      <3>1. out'[t].activity = stage[t] /\ stage'[t] = "done" /\ hits'[t] = hits[t] + 1
        BY <1>1, <1>3, <2>3 DEF Failed
      <3>2. content[t] = "broken" \/ 2 * hits'[t] >= MaximumAttempts[stage[t]]
        BY <1>2, <2>1, <2>2, <2>3, <3>1
      <3> QED BY <3>1, <3>2 DEF Settled, Exhausted
    <2>4. CASE ~ended
      <3>1. stage'[t] = stage[t] /\ hits'[t] = hits[t] + 1
        BY <1>1, <1>3, <2>4
      <3> QED BY <1>2, <2>1, <2>2, <3>1 DEF Settled, Covered
    <2> QED BY <2>3, <2>4
  <1>4. CASE pc[t] = Idle
    <2>1. stage'[t] = stage[t] /\ out'[t] = out[t] /\ hits'[t] = hits[t]
      BY <1>1, <1>4
    <2>2. Settled(content[t], stage[t], tries[t], Idle, source[t], t \in unwinding, t \in staged,
                  hits[t], out[t], heard[t])
      BY <1>4, TweetParts DEF TweetSettled
    <2>3. Covered(content[t], stage[t], tries[t], Idle, source[t], t \in unwinding, hits[t])
            => Covered(content[t], stage[t], tries[t], Idle, source[t], FALSE, hits[t])
      <3> DEFINE before == Owed(stage[t], tries[t], Idle, source[t], t \in unwinding)
                 after == Owed(stage[t], tries[t], Idle, source[t], FALSE)
                 late == Late(stage[t], t \in unwinding)
      <3>1. before = tries[t] + late /\ late \in {0, 1}
        BY <1>2, OwedFacts
      <3>2. after = tries[t]
        BY <1>2
      <3> HIDE DEF before, after, late
      <3>3. content[t] = "broken" \/ before <= 2 * hits[t]
              => content[t] = "broken" \/ after <= 2 * hits[t]
        BY <1>2, <3>1, <3>2
      <3> QED BY <3>3 DEF before, after, Covered
    <2> QED BY <2>1, <2>2, <2>3 DEF Settled
  <1> QED BY <1>3, <1>4

(* The fingerprint step keeps the balance of attempts (media_fingerprint.go:87). *)
LEMMA FingerprintSettles ==
    ASSUME AttemptsInv, CandidateInv', NEW t \in Tweets, MediaFingerprint(t)
    PROVE  AttemptsInv'
  <1>1. pc[t][1] = "fingerprint" /\ UNCHANGED hits
    BY DEF MediaFingerprint, At
  <1> QED BY <1>1, SkipSettles DEF MediaFingerprint

(* The balance of attempts holds before the first one.                     *)
LEMMA InitAttempts == Init => AttemptsInv
  <1> SUFFICES ASSUME Init, NEW t \in Tweets PROVE TweetSettled(t)
    BY InitCandidate DEF AttemptsInv
  <1>1. /\ stage[t] = "download" /\ tries[t] = 0 /\ pc[t] = Idle /\ hits[t] = 0 /\ t \notin unwinding
    BY DEF Init
  <1>2. Owed("download", 0, Idle, source[t], t \in unwinding) = 0
    <2>1. Owed("download", 0, Idle, source[t], t \in unwinding) = 0 + Late("download", t \in unwinding)
      BY OwedFacts
    <2> QED BY <1>1, <2>1 DEF Late
  <1>3. Idle[1] = "none"
    BY DEF Idle, At
  <1> QED BY <1>1, <1>2, <1>3 DEF TweetSettled, Settled, Covered

(* Every step keeps the balance of attempts.                               *)
LEMMA StepAttempts == AttemptsInv /\ [Next]_vars => AttemptsInv'
  <1> SUFFICES ASSUME AttemptsInv, [Next]_vars PROVE AttemptsInv'
    OBVIOUS
  <1>1. CandidateInv'
    BY StepCandidate DEF AttemptsInv
  <1>2. CASE UNCHANGED vars
    <2>1. ASSUME NEW t \in Tweets PROVE TweetSettled(t)'
      <3>1. TweetSettled(t)
        BY TweetParts
      <3> QED BY <1>2, <3>1 DEF vars, TweetSettled, Settled, Covered, Exhausted, Owed, Lost, Late, Idle, At
    <2> QED BY <1>1, <2>1 DEF AttemptsInv
  <1>3. ASSUME NEW t \in Tweets, Progress(t) PROVE AttemptsInv'
    BY <1>1, <1>3, StartSettles, StatSettles, AcquireSettles, ResolveSettles, DownloadSettles,
       ProbeSettles, FingerprintSettles, UploadSettles, FetchSettles, DenseSettles, FrameSettles,
       AdmitSettles, ChatSettles
       DEF Progress, DownloadAndStage, HashVideo, ValidateClip
  <1>4. ASSUME NEW t \in Tweets, TimeOut(t) \/ LateRemoveAll(t) PROVE AttemptsInv'
    BY <1>1, <1>4, TimeOutSettles, LateSettles
  <1> QED BY <1>1, <1>2, <1>3, <1>4, WorkerDiesSettles DEF Next

-----------------------------------------------------------------------------
(* The theorems. *)

(* The inductive invariant: what each operation of DownloadAndStage,       *)
(* HashVideo and ValidateClip has ruled out about a tweet is not what the  *)
(* tweet is, its attempts are within the retry policy, and the slots that  *)
(* are taken are those of running attempts.                                *)
THEOREM CandidateInvariance == Spec => []CandidateInv
  BY InitCandidate, StepCandidate, PTL DEF Spec

(* The activities, positions, outcomes and semaphores keep their types; no *)
(* semaphore is ever over its capacity (Client.acquire, Client.Chat).      *)
THEOREM CandidateTypes == Spec => []TypeOK
  <1>1. CandidateInv => TypeOK
    BY DEF CandidateInv
  <1> QED BY <1>1, CandidateInvariance, PTL

(* No failure, timeout or worker death leaks a slot of the ffmpeg or the   *)
(* model semaphore, or gives one back twice: the deferred releases run on  *)
(* every path.                                                             *)
THEOREM NoSlotLost == Spec => []SlotsAreHeld
  <1>1. CandidateInv => SlotsAreHeld
    BY DEF CandidateInv
  <1> QED BY <1>1, CandidateInvariance, PTL

(* A candidate is rejected only for what its tweet really is, or on a 404  *)
(* of the CDN, and passes only when nothing is wrong with it, through any  *)
(* retries, timeouts, late clean-ups and worker deaths (classifySyndication,*)
(* ProbeMetadata, HardFilter, Chat).                                       *)
THEOREM VerdictsAreTrue == Spec => []VerdictIsContent
  <1>1. CandidateInv => VerdictIsContent
    <2> SUFFICES ASSUME CandidateInv, NEW t \in Tweets
                 PROVE  /\ out[t].verdict = "rejected" =>
                              \/ Deserves(content[t], out[t].reason)
                              \/ out[t].reason = "not_available" /\ heard[t] = "cdn_404"
                        /\ out[t].verdict = "passed" => content[t] = "good"
      BY DEF VerdictIsContent
    <2> QED BY DEF CandidateInv, TweetSound, Ended, Going, Pending
  <1> QED BY <1>1, CandidateInvariance, PTL

(* The strengthening that counts: each attempt of a sound clip that has    *)
(* ended, may lose its file or has lost it is covered by half a failure    *)
(* the attempts met themselves, and what a later activity fetches has been *)
(* staged (DownloadAndStage, HashVideo, ValidateClip and their retries).   *)
THEOREM AttemptsInvariance == Spec => []AttemptsInv
  BY InitAttempts, StepAttempts, PTL DEF Spec

(* A candidate is given up only on an answer filed as permanent, on a      *)
(* broken file, or when at least half of its attempts met a failure of     *)
(* their own: a late RemoveAll costs at most one attempt per time-out      *)
(* (visionFailure, DownloadAndStage, the retry policies).                  *)
THEOREM FailuresAreExhausted == Spec => []FailedIsExhausted
  <1>1. AttemptsInv => FailedIsExhausted
    <2> SUFFICES ASSUME AttemptsInv, NEW t \in Tweets, out[t].verdict = "failed"
                 PROVE  \/ heard[t] \in Deterministic \cup {"cut_body"}
                        \/ /\ tries[t] = MaximumAttempts[out[t].activity]
                           /\ content[t] = "broken" \/ 2 * hits[t] >= MaximumAttempts[out[t].activity]
      BY DEF FailedIsExhausted
    <2>1. stage[t] = "done"
      BY DEF AttemptsInv, CandidateInv, TweetSound, Going, Pending
    <2>2. Ended(content[t], tries[t], out[t], heard[t])
      BY <2>1 DEF AttemptsInv, CandidateInv, TweetSound
    <2>3. Exhausted(content[t], hits[t], out[t], heard[t])
      BY <2>1, TweetParts DEF TweetSettled, Settled
    <2> QED BY <2>2, <2>3 DEF Ended, Exhausted, Permanent
  <1> QED BY <1>1, AttemptsInvariance, PTL

=============================================================================
