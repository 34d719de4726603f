---------------------------- MODULE BillingKeys -----------------------------
(***************************************************************************)
(* The idempotency keys of billing-service's endpoints that open no saga:  *)
(* a subscription, the education trial and a legal inquiry.  They share    *)
(* one table, whose primary key is the client's key.                       *)
(*                                                                         *)
(* A request reads the key's row when it begins and writes it when it      *)
(* commits.  The subscription endpoints look the row up again for that,    *)
(* and overwrite whatever they find.  A legal inquiry goes by what it read *)
(* at the beginning: where there was no row it inserts one, and the        *)
(* primary key decides; a row that had expired it updates, whoever owns it *)
(* by now.  The mapper sends the columns that differ from what it loaded,  *)
(* so an update of a row that has changed since may leave a mixture.       *)
(* What a subscription request changes besides is in Subscriptions.        *)
(***************************************************************************)
EXTENDS Integers, Sequences, FiniteSets

CONSTANTS
    Tenants,        \* users of the endpoints
    ClientKeys,     \* values of Idempotency-Key
    Inquiries,      \* bodies of legal inquiries
    Plannings,      \* bodies of subscription requests, the trial's among them
    Handlers,       \* database sessions
    MaxInquiries    \* bound: legal inquiries that are submitted

(* Hashes of the two kinds of requests differ, and "none" is no one's value. *)
ASSUME KeysAssumption ==
    /\ "none" \notin Tenants \cup Inquiries \cup Plannings
    /\ Inquiries \cap Plannings = {}

VARIABLES
    keyTable,       \* billing_idempotency_keys
    handler,        \* what each session holds
    inquiries,      \* legal_inquiries, each with one outbox row
    replies,        \* history: what inquiries were answered with
    lapsed          \* history: the keys that have expired once

keyVars == <<keyTable, handler, inquiries, replies, lapsed>>

NoRow == [user |-> "none", hash |-> "none", answer |-> 0, live |-> FALSE]
Resting == [at |-> "idle", user |-> "none", key |-> "none", hash |-> "none", loaded |-> NoRow]

KeysInit ==
    /\ keyTable = [k \in ClientKeys |-> NoRow]
    /\ handler = [w \in Handlers |-> Resting]
    /\ inquiries = <<>> /\ replies = {} /\ lapsed = {}

Reply(user, key, hash, answer) ==
    replies' = replies \cup {[user |-> user, key |-> key, hash |-> hash, answer |-> answer]}

(* A live row answers its own request again and refuses any other; a body  *)
(* of the other endpoint's kind does not validate, and the request fails.  *)
replay_response_if_cached(user, key, hash) ==
    LET row == keyTable[key]
    IN  IF row.user = user /\ row.hash = hash /\ hash \in Inquiries /\ row.answer # 0
        THEN Reply(user, key, hash, row.answer) ELSE UNCHANGED replies

BeginRequest(w, user, key, hash) ==
    /\ handler[w].at = "idle"
    /\ IF keyTable[key].live
       THEN replay_response_if_cached(user, key, hash) /\ UNCHANGED handler
       ELSE /\ handler' = [handler EXCEPT ![w] =
                             [at |-> "work", user |-> user, key |-> key, hash |-> hash,
                              loaded |-> keyTable[key]]]
            /\ UNCHANGED replies
    /\ UNCHANGED <<keyTable, inquiries, lapsed>>

(* The primary key refuses the insert of a request that found no row. *)
KeyRefused(w) == handler[w].loaded = NoRow /\ keyTable[handler[w].key] # NoRow

(* An insert, or an update of the columns that differ from the loaded row. *)
upsert_idempotency_row(w, answer) ==
    LET h == handler[w]
        Column(f, value) == IF value = h.loaded[f] THEN keyTable[h.key][f] ELSE value
    IN  keyTable' = [keyTable EXCEPT ![h.key] =
                       [user |-> Column("user", h.user), hash |-> Column("hash", h.hash),
                        answer |-> Column("answer", answer), live |-> TRUE]]

(* The work is done, and the row is looked up again. *)
find_plan_key(w) ==
    LET h == handler[w]
    IN  /\ h.at = "work" /\ h.hash \in Plannings
        /\ handler' = [handler EXCEPT ![w].at = "upsert", ![w].loaded = keyTable[h.key]]
        /\ UNCHANGED <<keyTable, inquiries, replies, lapsed>>

(* The answer is the subscription's, which has no number here. *)
upsert_plan_key(w) ==
    LET h == handler[w]
    IN  /\ h.at = "upsert"
        /\ ~KeyRefused(w)
        /\ upsert_idempotency_row(w, 0)
        /\ handler' = [handler EXCEPT ![w] = Resting]
        /\ UNCHANGED <<inquiries, replies, lapsed>>

submit_legal_inquiry(w) ==
    LET h == handler[w]
        id == Len(inquiries) + 1
    IN  /\ h.at = "work" /\ h.hash \in Inquiries
        /\ ~KeyRefused(w)
        /\ id <= MaxInquiries
        /\ inquiries' = Append(inquiries, [user |-> h.user, key |-> h.key, hash |-> h.hash])
        /\ upsert_idempotency_row(w, id)
        /\ Reply(h.user, h.key, h.hash, id)
        /\ handler' = [handler EXCEPT ![w] = Resting]
        /\ UNCHANGED lapsed

(* After the refusal the row is read again: one that is live is replayed or *)
(* refused as at the beginning, one that has expired fails the request.     *)
legal_replay_after_race(w) ==
    LET h == handler[w]
    IN  /\ h.at = "work" /\ h.hash \in Inquiries
        /\ KeyRefused(w)
        /\ IF keyTable[h.key].live
           THEN replay_response_if_cached(h.user, h.key, h.hash) ELSE UNCHANGED replies
        /\ handler' = [handler EXCEPT ![w] = Resting]
        /\ UNCHANGED <<keyTable, inquiries, lapsed>>

(* The plan does not allow it, the entitlement is refused, two inserts of a *)
(* key meet, or the process dies: nothing is kept.                          *)
EndWithoutCommit(w) ==
    /\ handler[w].at # "idle"
    /\ handler' = [handler EXCEPT ![w] = Resting]
    /\ UNCHANGED <<keyTable, inquiries, replies, lapsed>>

KeyLapses(k) ==
    /\ keyTable[k].live
    /\ keyTable' = [keyTable EXCEPT ![k].live = FALSE]
    /\ lapsed' = lapsed \cup {k}
    /\ UNCHANGED <<handler, inquiries, replies>>

KeysNext ==
    \/ \E w \in Handlers, u \in Tenants, k \in ClientKeys, h \in Inquiries \cup Plannings :
          BeginRequest(w, u, k, h)
    \/ \E w \in Handlers : \/ find_plan_key(w) \/ upsert_plan_key(w) \/ submit_legal_inquiry(w)
                           \/ legal_replay_after_race(w) \/ EndWithoutCommit(w)
    \/ \E k \in ClientKeys : KeyLapses(k)

(***************************************************************************)
(* Property.                                                               *)
(***************************************************************************)
(* Until its key expires, an inquiry is answered with the sender's own and  *)
(* a key stands for one inquiry at most: a retry that overlaps the first    *)
(* attempt, or a subscription request under the same key, makes no second   *)
(* ticket.  (Two requests that both meet an expired row make two, and the   *)
(* row they leave may pair one's answer with the other's user.)             *)
InquirySubmittedOnce ==
    /\ \A r \in replies :
          r.hash \in Inquiries /\ r.key \notin lapsed =>
             inquiries[r.answer] = [user |-> r.user, key |-> r.key, hash |-> r.hash]
    /\ \A i, j \in DOMAIN inquiries :
          i # j /\ inquiries[i].key = inquiries[j].key => inquiries[i].key \in lapsed
=============================================================================
