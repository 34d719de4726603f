------------------------------ MODULE ApiKeyUse ------------------------------
(***************************************************************************)
(* What verify_api_key records of every authenticated request: where a key *)
(* was last used, and evidence when it moves between known places.  The    *)
(* key row is read at the start of a request and written before the        *)
(* handler runs, in the transaction of the request, so that requests       *)
(* overlap with stale readings and a request that fails takes its evidence *)
(* with it.                                                                *)
(***************************************************************************)
EXTENDS Integers, FiniteSets, FiniteSetsExt

CONSTANTS
    Requests,       \* concurrent requests
    ApiKeys,        \* keys of one user
    Places,         \* geo buckets that are known; Unknown is no bucket
    MaxAnomalies    \* bound on the evidence against a key

VARIABLES
    key,            \* key -> [place, score, revoked]
    user_score,     \* users.risk_score, in hundredths
    evidence,       \* key -> the committed pairs of risk flag and audit row that name it
    use,            \* request -> what it read and will write
    raced           \* whether two requests with one key overlapped

useVars == <<key, user_score, evidence, use, raced>>

Unknown == "unknown"
GEO_RISK_DELTA == 35
MAX_RISK_SCORE == 100
NoUse == [step |-> "idle"]

UseInit ==
    /\ key = [k \in ApiKeys |-> [place |-> Unknown, score |-> 0, revoked |-> FALSE]]
    /\ user_score = 0 /\ evidence = [k \in ApiKeys |-> 0]
    /\ use = [r \in Requests |-> NoUse] /\ raced = FALSE

is_geo_anomaly(previous, current) ==
    previous # Unknown /\ current # Unknown /\ previous # current

next_risk_score(score) == Min({MAX_RISK_SCORE, score + GEO_RISK_DELTA})

(* The row is read; a revoked key is refused. *)
verify_api_key(r, k, place) ==
    /\ use[r] = NoUse /\ ~key[k].revoked
    /\ use' = [use EXCEPT ![r] = [step |-> "read", key |-> k, place |-> place, row |-> key[k]]]
    /\ raced' = (raced \/ \E q \in Requests : use[q] # NoUse /\ use[q].key = k)
    /\ UNCHANGED <<key, user_score, evidence>>

(* Another request has written the key's row and not ended. *)
RowLocked(r) ==
    \E q \in Requests \ {r} : use[q] # NoUse /\ use[q].step = "written" /\ use[q].key = use[r].key

UserLocked(r) ==
    \E q \in Requests \ {r} : use[q] # NoUse /\ use[q].step = "written" /\ use[q].anomaly

(* The writes are made from what was read, and wait for the row locks. *)
_record_api_key_use(r) ==
    LET u == use[r]
        anomaly == is_geo_anomaly(u.row.place, u.place)
    IN  /\ u.step = "read" /\ ~RowLocked(r)
        /\ anomaly => ~UserLocked(r) /\ evidence[u.key] < MaxAnomalies
        /\ use' = [use EXCEPT ![r] = [step |-> "written", key |-> u.key, place |-> u.place,
                                      anomaly |-> anomaly, score |-> next_risk_score(u.row.score)]]
        /\ UNCHANGED <<key, user_score, evidence, raced>>

(* What the update makes of the user's score: the larger one. *)
UserScore(score) == Max({user_score, score})

(* The handler returned an answer, of whatever status: all is committed. *)
CommitUse(r) ==
    LET u == use[r]
    IN  /\ u.step = "written"
        /\ key' = [key EXCEPT ![u.key].place = IF u.place = Unknown THEN @ ELSE u.place,
                              ![u.key].score = IF u.anomaly THEN u.score ELSE @]
        /\ user_score' = IF u.anomaly THEN UserScore(u.score) ELSE user_score
        /\ evidence' = IF u.anomaly THEN [evidence EXCEPT ![u.key] = @ + 1] ELSE evidence
        /\ use' = [use EXCEPT ![r] = NoUse] /\ UNCHANGED raced

(* The handler raised (a missing scope) or rolled back: all is undone. *)
RollbackUse(r) ==
    /\ use[r] # NoUse /\ use' = [use EXCEPT ![r] = NoUse]
    /\ UNCHANGED <<key, user_score, evidence, raced>>

(* The key is revoked in the auth-service (external). *)
RevokeKey(k) ==
    /\ ~key[k].revoked /\ \A r \in Requests : use[r] # NoUse => use[r].key # k \/ use[r].step # "written"
    /\ key' = [key EXCEPT ![k].revoked = TRUE]
    /\ UNCHANGED <<user_score, evidence, use, raced>>

UseNext ==
    \/ \E r \in Requests :
         \/ \E k \in ApiKeys : \E place \in Places \cup {Unknown} : verify_api_key(r, k, place)
         \/ _record_api_key_use(r) \/ CommitUse(r) \/ RollbackUse(r)
    \/ \E k \in ApiKeys : RevokeKey(k)

-----------------------------------------------------------------------------
(* However requests overlap, the user's score is never behind a key's,     *)
(* never exceeds one, and there is evidence that names the key wherever it *)
(* has a score; as long as requests with a key do not overlap the keys'    *)
(* scores account for every anomaly.  (Overlapping ones may record an      *)
(* anomaly that counts for nothing: each adds to the score it read.)       *)
ScoreHasEvidence ==
    /\ user_score <= MAX_RISK_SCORE
    /\ \A k \in ApiKeys :
         /\ key[k].score <= user_score
         /\ key[k].score <= GEO_RISK_DELTA * evidence[k]
         /\ ~raced /\ key[k].score < MAX_RISK_SCORE => key[k].score = GEO_RISK_DELTA * evidence[k]

(* The user's score never falls, although a key's may when a request with  *)
(* an old reading is the last to write.                                    *)
UserScoreNeverFalls == [][user_score' >= user_score]_useVars
=============================================================================
