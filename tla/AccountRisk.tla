---------------------------- MODULE AccountRisk ----------------------------
(***************************************************************************)
(* The accounts of the auth-service: how they are opened, flagged, frozen  *)
(* and released.                                                           *)
(*                                                                         *)
(* A handler runs in one transaction at READ COMMITTED: it begins by       *)
(* reading committed rows and deciding on them, and its writes, which name *)
(* the columns they set, become visible together when get_session commits. *)
(* Between the two any other handler may commit.  A request is what it     *)
(* decided to write; it is lost when the process or the database           *)
(* connection fails, or when a unique index refuses its insert.            *)
(***************************************************************************)
EXTENDS Naturals, Sequences, FiniteSets, SequencesExt

CONSTANTS
    Workers,        \* requests the service handles at a time
    Users,          \* people; each has a phone, an email and perhaps a guardian
    Nobody,         \* not a user
    Rules,          \* risk_rules.code
    EnabledRules,   \* those with enabled = TRUE
    R3_CODE,        \* the rule a signup itself can trigger
    R3_MIN_PRIOR_USERS,
    FREEZE_THRESHOLD,
    Net,            \* the /24 network a user signs up from
    Ages,           \* ages of minors, 14 to 17
    MaxConsents,    \* bound: guardian_consent_requests rows
    MaxTokens,      \* bound: guardian consent tokens sent for a row
    MaxOverlaps     \* bound: requests begun while another is in flight

ASSUME RiskAssumption ==
    /\ EnabledRules \subseteq Rules
    /\ Nobody \notin Users
    /\ {R3_MIN_PRIOR_USERS, FREEZE_THRESHOLD} \subseteq Nat \ {0}
    /\ DOMAIN Net = Users
    /\ Ages \subseteq 14 .. 17

VARIABLES
    user,      \* the users rows
    flags,     \* risk_flags: the rules each user was flagged for
    links,     \* the users the metadata of a user's flags name
    keys,      \* api_keys, one a user is enough to tell the cases apart
    consents,  \* the guardian_consent_requests rows, in the order of creation
    req,       \* the request each worker is handling
    overlaps,  \* how many requests were begun while another was in flight
    pardoned   \* history: frozen was cleared since the last flag

accountVars == <<user, flags, links, keys, consents, pardoned>>
requestVars == <<req, overlaps>>

NoUser == [registered |-> FALSE, frozen |-> FALSE, merged |-> Nobody, deleted |-> FALSE,
           erased |-> FALSE, age |-> 0]
NewUser(age) == [NoUser EXCEPT !.registered = TRUE, !.age = age]
Idle == [op |-> "idle"]
Adult == 18

(* Some accounts are there already, with nothing held against them. *)
RiskInit ==
    /\ \E registered \in SUBSET Users :
         user = [u \in Users |-> IF u \in registered THEN NewUser(Adult) ELSE NoUser]
    /\ flags = [u \in Users |-> {}]
    /\ links = [u \in Users |-> {}]
    /\ keys = [u \in Users |-> "none"]
    /\ consents = <<>>
    /\ req = [w \in Workers |-> Idle]
    /\ overlaps = 0
    /\ pardoned = [u \in Users |-> FALSE]

-----------------------------------------------------------------------------
(* Requests. *)
Busy == {w \in Workers : req[w] # Idle}

Begin(w, r) ==
    /\ req[w] = Idle
    /\ overlaps' = overlaps + (IF Busy = {} THEN 0 ELSE 1)
    /\ overlaps' <= MaxOverlaps
    /\ req' = [req EXCEPT ![w] = r]

(* A handler that reads nothing it depends on is one step. *)
AtOnce ==
    /\ overlaps' = overlaps + (IF Busy = {} THEN 0 ELSE 1)
    /\ overlaps' <= MaxOverlaps
    /\ UNCHANGED req

Done(w) ==
    /\ req' = [req EXCEPT ![w] = Idle]
    /\ UNCHANGED overlaps

(* The transaction rolls back: a crash, or an IntegrityError. *)
Rollback(w) == req[w] # Idle /\ Done(w)

-----------------------------------------------------------------------------
(* Guardian consent.  The advisory lock on phone, email and guardian keeps *)
(* two of these requests apart, so each is one step.                       *)
Usable(i) == ~consents[i].confirmed /\ ~consents[i].expired

_create_or_refresh_guardian_consent(u, age) ==
    LET open == {i \in DOMAIN consents : consents[i].who = u /\ Usable(i)}
        i == CHOOSE i \in open : \A j \in open : j <= i
    IN  IF open = {}
        THEN /\ Len(consents) < MaxConsents
             /\ consents' = Append(consents, [who |-> u, age |-> age, token |-> 1,
                                              confirmed |-> FALSE, expired |-> FALSE])
        ELSE /\ consents[i].token < MaxTokens
             /\ consents' = [consents EXCEPT ![i].age = age, ![i].token = @ + 1]

ConsentExpires(i) ==
    /\ Usable(i)
    /\ consents' = [consents EXCEPT ![i].expired = TRUE]

ConsentMatches(i, u, age, token) ==
    Usable(i) /\ consents[i].who = u /\ consents[i].age = age /\ consents[i].token = token

-----------------------------------------------------------------------------
(* Risk.  A signup shares its /24 with the users who signed up before. *)
evaluate_ip_24_share(u) ==
    Cardinality({v \in Users \ {u} : user[v].registered /\ Net[v] = Net[u]})
        >= R3_MIN_PRIOR_USERS

evaluate_signup(u) ==
    IF R3_CODE \in EnabledRules /\ evaluate_ip_24_share(u) THEN {R3_CODE} ELSE {}

_distinct_enabled_triggers(rules) == rules \cap EnabledRules

Freezes(rules) == Cardinality(_distinct_enabled_triggers(rules)) >= FREEZE_THRESHOLD

(* A consent confirms one signup; 0 stands for none. *)
_create_verified_user_signup(w, u, age, consent) ==
    LET rules == evaluate_signup(u) IN
    Begin(w, [op |-> "signup", u |-> u, age |-> age, rules |-> rules,
              freeze |-> rules # {} /\ Freezes(rules), consent |-> consent])

signup(w, u) ==
    /\ ~user[u].registered
    /\ _create_verified_user_signup(w, u, Adult, 0)
    /\ UNCHANGED accountVars

_complete_guardian_confirmed_signup(w, i, u, age, token) ==
    /\ ConsentMatches(i, u, age, token)
    /\ ~user[u].registered
    /\ _create_verified_user_signup(w, u, age, i)
    /\ UNCHANGED accountVars

(* The unique indexes on phone and email let one of two signups through. *)
CommitSignup(w) ==
    LET r == req[w] IN
    /\ r.op = "signup"
    /\ ~user[r.u].registered
    /\ user' = [user EXCEPT ![r.u] = [NewUser(r.age) EXCEPT !.frozen = r.freeze]]
    /\ flags' = [flags EXCEPT ![r.u] = r.rules]
    /\ consents' = IF r.consent = 0 THEN consents
                   ELSE [consents EXCEPT ![r.consent].confirmed = TRUE]
    /\ Done(w)
    /\ UNCHANGED <<links, keys, pardoned>>

(* apply_flags_and_maybe_freeze leaves an account alone that it reads as   *)
(* frozen already.                                                         *)
admin_add_risk_flag(w, u, rule, link) ==
    /\ user[u].registered
    /\ Begin(w, [op |-> "flag", u |-> u, rule |-> rule, link |-> link,
                 freeze |-> Freezes(flags[u] \cup {rule}) /\ ~user[u].frozen])
    /\ UNCHANGED accountVars

CommitFlag(w) ==
    LET r == req[w] IN
    /\ r.op = "flag"
    /\ flags' = [flags EXCEPT ![r.u] = @ \cup {r.rule}]
    /\ links' = [links EXCEPT ![r.u] = @ \cup ({r.link} \cap Users)]
    /\ user' = [user EXCEPT ![r.u].frozen = @ \/ r.freeze]
    /\ pardoned' = [pardoned EXCEPT ![r.u] = FALSE]
    /\ Done(w)
    /\ UNCHANGED <<keys, consents>>

admin_unfreeze_user(u) ==
    /\ user[u].registered
    /\ user' = [user EXCEPT ![u].frozen = FALSE]
    /\ pardoned' = [pardoned EXCEPT ![u] = TRUE]
    /\ AtOnce
    /\ UNCHANGED <<flags, links, keys, consents>>

-----------------------------------------------------------------------------
ConsentNext ==
    \/ /\ \/ AtOnce /\ \E u \in Users : \E age \in Ages :
                         _create_or_refresh_guardian_consent(u, age)
          \/ UNCHANGED requestVars /\ \E i \in DOMAIN consents : ConsentExpires(i)
       /\ UNCHANGED <<user, flags, links, keys, pardoned>>
    \/ \E w \in Workers :
         \/ \E u \in Users : signup(w, u)
         \/ \E i \in DOMAIN consents : \E u \in Users : \E age \in Ages :
              \E token \in 1 .. MaxTokens :
                _complete_guardian_confirmed_signup(w, i, u, age, token)
         \/ CommitSignup(w)

FlagNext ==
    \/ \E w \in Workers :
         \/ \E u \in Users : \E rule \in Rules : \E link \in Users \cup {Nobody} :
              admin_add_risk_flag(w, u, rule, link)
         \/ CommitFlag(w)
    \/ \E u \in Users : admin_unfreeze_user(u)

RollbackNext == \E w \in Workers : Rollback(w) /\ UNCHANGED accountVars
=============================================================================
