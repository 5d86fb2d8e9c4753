-------------------------- MODULE MCCandidateMedia --------------------------
(* Instances of CandidateMedia for TLC. *)
EXTENDS CandidateMedia

CONSTANTS t1, t2

(* Two attempts of each activity, on every kind of tweet *)
Attempts == [download |-> 2, hash |-> 2, vision |-> 2]

Kinds == {"good", "bad_url", "cut_id", "deleted", "private", "no_video", "portrait", "geo", "broken", "low_rate", "short", "wrong"}
=============================================================================
