--------------------------- MODULE AccountAccess ---------------------------
(***************************************************************************)
(* What an open account can do and how it is closed: one-time passwords    *)
(* and logins, API keys, notification preferences with the fan-out of an   *)
(* incident, and the deletion of the account in two stages.                *)
(***************************************************************************)
EXTENDS AccountMerge

CONSTANTS
    Incidents,   \* incident_id
    MaxOtps      \* bound: one-time password pairs a user asks for

VARIABLES
    otps,      \* user_otps: the pairs (phone, email) of a user, in order
    logins,    \* history: how often each pair opened a session
    deletion,  \* account_deletion_requests: status by user, and whether it is due
    prefs,     \* users who want incident notifications
    notified,  \* status_incident_notification_requests by incident
    events     \* outbox_events for them: how many by incident and user

accessVars == <<otps, logins, deletion, prefs, notified, events>>

AccessInit ==
    /\ otps = [u \in Users |-> <<>>]
    /\ logins = [u \in Users |-> <<>>]
    /\ deletion = [u \in Users |-> [status |-> "none", due |-> FALSE]]
    /\ prefs \in SUBSET Users
    /\ notified = [i \in Incidents |-> {}]
    /\ events = [i \in Incidents |-> [u \in Users |-> 0]]

(* get_active_user, then the two checks that follow it. *)
_require_active_user(u) == user[u].registered /\ ~Retired(u) /\ ~user[u].frozen

-----------------------------------------------------------------------------
(* Login.  Both endpoints refuse deleted and frozen accounts; a merged one *)
(* is frozen.                                                              *)
MayLogIn(u) == user[u].registered /\ ~user[u].deleted /\ ~user[u].frozen

Invalidated(pairs, n) ==
    [i \in DOMAIN pairs |-> IF i <= n THEN [pairs[i] EXCEPT !.used = TRUE] ELSE pairs[i]]

(* The UPDATE of w runs between the look-up and the commit and finds the   *)
(* pairs committed by then; a pair that another session adds later stays.  *)
UpdateFinds(w) == {req[w].n} \cup (req[w].n .. Len(otps[req[w].u]))

_invalidate_unused_otps(u, n) == Invalidated(otps[u], n)

request_otp(w, u) ==
    /\ MayLogIn(u)
    /\ Len(otps[u]) < MaxOtps
    /\ Begin(w, [op |-> "otp", u |-> u, n |-> Len(otps[u])])
    /\ UNCHANGED <<accountVars, mergeVars, accessVars>>

CommitOtp(w) ==
    LET u == req[w].u IN
    /\ req[w].op = "otp"
    /\ \E n \in UpdateFinds(w) :
          otps' = [otps EXCEPT ![u] = Append(_invalidate_unused_otps(u, n),
                                             [used |-> FALSE, expired |-> FALSE])]
    /\ logins' = [logins EXCEPT ![u] = Append(@, 0)]
    /\ Done(w)
    /\ UNCHANGED <<accountVars, mergeVars, deletion, prefs, notified, events>>

OtpExpires(u, i) ==
    /\ ~otps[u][i].expired
    /\ otps' = [otps EXCEPT ![u][i].expired = TRUE]
    /\ UNCHANGED <<accountVars, mergeVars, requestVars, logins, deletion, prefs, notified, events>>

(* Of the unused and unexpired pairs the newest counts. *)
_verify_otp(u, i) ==
    LET valid == {j \in DOMAIN otps[u] : ~otps[u][j].used /\ ~otps[u][j].expired} IN
    i \in valid /\ \A j \in valid : j <= i

login(w, u, i) ==
    /\ MayLogIn(u)
    /\ _verify_otp(u, i)
    /\ Begin(w, [op |-> "login", u |-> u, i |-> i, n |-> Len(otps[u])])
    /\ UNCHANGED <<accountVars, mergeVars, accessVars>>

CommitLogin(w) ==
    LET r == req[w] IN
    /\ r.op = "login"
    /\ \E n \in UpdateFinds(w) : otps' = [otps EXCEPT ![r.u] = _invalidate_unused_otps(r.u, n)]
    /\ logins' = IF r.i \in DOMAIN logins[r.u] THEN [logins EXCEPT ![r.u][r.i] = @ + 1] ELSE logins
    /\ Done(w)
    /\ UNCHANGED <<accountVars, mergeVars, deletion, prefs, notified, events>>

-----------------------------------------------------------------------------
(* API keys. *)
create_api_key(w, u) ==
    /\ _require_active_user(u)
    /\ keys[u] # "active"
    /\ Begin(w, [op |-> "key", u |-> u])
    /\ UNCHANGED <<accountVars, mergeVars, accessVars>>

CommitKey(w) ==
    /\ req[w].op = "key"
    /\ keys' = [keys EXCEPT ![req[w].u] = "active"]
    /\ Done(w)
    /\ UNCHANGED <<user, flags, links, consents, pardoned, mergeVars, accessVars>>

revoke_api_key(w, u) ==
    /\ _require_active_user(u)
    /\ keys[u] # "none"
    /\ Begin(w, [op |-> "revoke", u |-> u])
    /\ UNCHANGED <<accountVars, mergeVars, accessVars>>

(* The row is updated by its primary key; a row erased meanwhile makes the *)
(* flush fail.                                                             *)
CommitRevoke(w) ==
    /\ req[w].op = "revoke"
    /\ keys[req[w].u] # "none"
    /\ keys' = [keys EXCEPT ![req[w].u] = "revoked"]
    /\ Done(w)
    /\ UNCHANGED <<user, flags, links, consents, pardoned, mergeVars, accessVars>>

-----------------------------------------------------------------------------
(* Deletion.  A frozen or merged account may ask for it too. *)
request_account_deletion(w, u) ==
    /\ user[u].registered /\ ~user[u].deleted
    /\ deletion[u].status = "none"
    /\ Begin(w, [op |-> "delete", u |-> u])
    /\ UNCHANGED <<accountVars, mergeVars, accessVars>>

RevokedKeys(u) == IF keys[u] = "active" THEN [keys EXCEPT ![u] = "revoked"] ELSE keys

(* user_id_snapshot is unique. *)
CommitDelete(w) ==
    LET u == req[w].u IN
    /\ req[w].op = "delete"
    /\ deletion[u].status = "none"
    /\ user' = [user EXCEPT ![u].deleted = TRUE]
    /\ keys' = RevokedKeys(u)
    /\ deletion' = [deletion EXCEPT ![u].status = "scheduled"]
    /\ Done(w)
    /\ UNCHANGED <<flags, links, consents, pardoned, mergeVars, otps, logins, prefs, notified,
                   events>>

GracePeriodEnds(u) ==
    /\ deletion[u].status = "scheduled" /\ ~deletion[u].due
    /\ deletion' = [deletion EXCEPT ![u].due = TRUE]
    /\ UNCHANGED <<accountVars, mergeVars, requestVars, otps, logins, prefs, notified, events>>

(* All due requests in one transaction. *)
complete_due_deletion_requests ==
    LET due == {u \in Users : deletion[u].status = "scheduled" /\ deletion[u].due} IN
    /\ due # {}
    /\ deletion' = [u \in Users |-> IF u \in due THEN [deletion[u] EXCEPT !.status = "completed"]
                                    ELSE deletion[u]]
    /\ keys' = [u \in Users |-> IF u \in due THEN "none" ELSE keys[u]]
    /\ otps' = [u \in Users |-> IF u \in due THEN <<>> ELSE otps[u]]
    /\ logins' = [u \in Users |-> IF u \in due THEN <<>> ELSE logins[u]]
    /\ user' = [u \in Users |-> IF u \in due
                                THEN [user[u] EXCEPT !.erased = TRUE, !.frozen = FALSE]
                                ELSE user[u]]
    /\ pardoned' = [u \in Users |-> pardoned[u] \/ u \in due]
    /\ AtOnce
    /\ UNCHANGED <<flags, links, consents, mergeVars, prefs, notified, events>>

-----------------------------------------------------------------------------
(* Notifications.  The upsert names every column. *)
update_notification_preferences(u) ==
    /\ _require_active_user(u)
    /\ prefs' \in {prefs \cup {u}, prefs \ {u}} \ {prefs}
    /\ AtOnce
    /\ UNCHANGED <<accountVars, mergeVars, otps, logins, deletion, notified, events>>

admin_fanout_status_incident(w, i) ==
    /\ Begin(w, [op |-> "fanout", i |-> i, rows |-> {u \in prefs : _require_active_user(u)}])
    /\ UNCHANGED <<accountVars, mergeVars, accessVars>>

(* on_conflict_do_nothing waits for a concurrent insert of the same row    *)
(* and then returns nothing.                                               *)
CreatedRequests(i, rows) == rows \ notified[i]

CommitFanout(w) ==
    LET r == req[w]
        created == CreatedRequests(r.i, r.rows)
    IN  /\ r.op = "fanout"
        /\ notified' = [notified EXCEPT ![r.i] = @ \cup created]
        /\ events' = [events EXCEPT ![r.i] = [u \in Users |-> @[u] + (IF u \in created THEN 1 ELSE 0)]]
        /\ Done(w)
        /\ UNCHANGED <<accountVars, mergeVars, otps, logins, deletion, prefs>>

-----------------------------------------------------------------------------
KeyNext ==
    \E w \in Workers :
        \/ \E u \in Users : create_api_key(w, u) \/ revoke_api_key(w, u)
        \/ CommitKey(w) \/ CommitRevoke(w)

LoginNext ==
    \/ \E w \in Workers :
         \/ \E u \in Users : \/ request_otp(w, u)
                             \/ \E i \in DOMAIN otps[u] : login(w, u, i)
         \/ CommitOtp(w) \/ CommitLogin(w)
    \/ \E u \in Users : \E i \in DOMAIN otps[u] : OtpExpires(u, i)

DeletionNext ==
    \/ \E w \in Workers :
         \/ \E u \in Users : request_account_deletion(w, u)
         \/ CommitDelete(w)
    \/ \E u \in Users : GracePeriodEnds(u)
    \/ complete_due_deletion_requests

NotificationNext ==
    \/ \E u \in Users : update_notification_preferences(u)
    \/ \E w \in Workers :
         \/ \E i \in Incidents : admin_fanout_status_incident(w, i)
         \/ CommitFanout(w)
=============================================================================
