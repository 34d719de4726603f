-------------------------- MODULE ChargeAdmission ---------------------------
(***************************************************************************)
(* The admission of a charge: POST /charges with its idempotency key, the  *)
(* demo credits a first request is given, and SagaOrchestrator.start.  A   *)
(* request is handled in the steps between which another session can       *)
(* commit; a session reads what is committed and what it wrote itself.     *)
(* The budget's pause, which ends a request before anything is written, is *)
(* in BillingCharges.                                                      *)
(*                                                                         *)
(* A request is [user, key, body, confirmed]; the hash of a body differs   *)
(* when the confirmation of a warning is part of it.                       *)
(***************************************************************************)
EXTENDS Integers, Sequences, FiniteSets

CONSTANTS
    Users, Keys, Sessions,
    Price,          \* body.amount of each body
    DemoCredits,    \* settings.j1_demo_seed_amount
    LowRatio,       \* settings.balance_low_ratio
    CallThreshold,  \* settings.p5_call_threshold
    MaxCharges      \* bound: sagas that are created

Bodies == DOMAIN Price

VARIABLES
    seeds,          \* demo credit rows of each user
    debits,         \* what settled charges took from each user
    charges,        \* saga_instances: the charges in order of creation
    keyRows,        \* billing_idempotency_keys
    session,        \* what each session holds
    answers,        \* history: the 201 answers
    raced           \* history: users two of whose first requests overlapped

admissionVars == <<seeds, debits, charges, keyRows, session, answers, raced>>

NoKey == [user |-> "none", hash |-> <<"none", FALSE>>, charge |-> 0, live |-> FALSE]
NoSession == [at |-> "idle", user |-> "none", key |-> "none", body |-> "none",
              confirmed |-> FALSE, seeded |-> FALSE, hash |-> <<"none", FALSE>>, charge |-> 0]

AdmissionInit ==
    /\ seeds = [u \in Users |-> 0] /\ debits = [u \in Users |-> 0]
    /\ charges = <<>> /\ keyRows = [k \in Keys |-> NoKey]
    /\ session = [w \in Sessions |-> NoSession]
    /\ answers = {} /\ raced = {}

(***************************************************************************)
(* What a session reads.                                                   *)
(***************************************************************************)
has_any_transactions(u) == seeds[u] > 0 \/ debits[u] > 0

balance_for(w) ==
    LET u == session[w].user
    IN  (seeds[u] + (IF session[w].seeded THEN 1 ELSE 0)) * DemoCredits - debits[u]

classify_warnings(amount, balance) == amount >= CallThreshold \/ balance < amount * LowRatio

charge_request_hash_candidates(s) ==
    {<<s.body, FALSE>>} \cup (IF s.confirmed THEN {<<s.body, TRUE>>} ELSE {})

(* The unique index on saga_instances.idempotency_key: a charge with this  *)
(* key is committed.                                                       *)
KeyTakenByLive(k) == keyRows[k].charge # 0 /\ keyRows[k].live

KeyTaken(k) == \E i \in DOMAIN charges : charges[i].key = k

(* Another session has inserted the key and has not committed. *)
KeyBlocked(w) ==
    \E v \in Sessions \ {w} :
        session[v].at = "persist" /\ session[v].charge = 0 /\ session[v].key = session[w].key

(***************************************************************************)
(* The handler.                                                            *)
(***************************************************************************)
Goto(w, at) == session' = [session EXCEPT ![w].at = at]
End(w) == session' = [session EXCEPT ![w] = NoSession]
Answer(w, charge) ==
    answers' = answers \cup {[user |-> session[w].user, body |-> session[w].body,
                              key |-> session[w].key, charge |-> charge]}

create_charge(w, u, k, b, confirmed) ==
    /\ session[w].at = "idle"
    /\ session' = [session EXCEPT ![w] =
                     [NoSession EXCEPT !.at = "cached", !.user = u, !.key = k, !.body = b,
                                       !.confirmed = confirmed]]
    /\ UNCHANGED <<seeds, debits, charges, keyRows, answers, raced>>

(* A live key of this user and this body replays the stored answer; any    *)
(* other live key refuses, and so does one that no charge belongs to.      *)
charge_replay_response_if_cached(w) ==
    /\ session[w].at = "cached"
    /\ LET row == keyRows[session[w].key]
       IN  IF ~row.live THEN Goto(w, "seed") /\ UNCHANGED answers
           ELSE /\ End(w)
                /\ IF /\ row.user = session[w].user
                      /\ row.hash \in charge_request_hash_candidates(session[w])
                      /\ row.charge # 0
                   THEN Answer(w, row.charge) ELSE UNCHANGED answers
    /\ UNCHANGED <<seeds, debits, charges, keyRows, raced>>

seed_demo_balance(w) ==
    /\ session[w].at = "seed"
    /\ LET u == session[w].user
           first == ~has_any_transactions(u)
       IN  /\ session' = [session EXCEPT ![w].at = "balance", ![w].seeded = first]
           /\ raced' = IF first /\ \E v \in Sessions : session[v].user = u /\ session[v].seeded
                       THEN raced \cup {u} ELSE raced
    /\ UNCHANGED <<seeds, debits, charges, keyRows, answers>>

Commit(w) ==
    seeds' = IF session[w].seeded THEN [seeds EXCEPT ![session[w].user] = @ + 1] ELSE seeds

(* Too little credit, and a warning that was not confirmed, end the        *)
(* request; the demo credits stay.                                         *)
check_balance(w) ==
    /\ session[w].at = "balance"
    /\ LET s == session[w]
           amount == Price[s.body]
           warned == classify_warnings(amount, balance_for(w))
       IN  IF amount > balance_for(w) \/ (warned /\ ~s.confirmed)
           THEN Commit(w) /\ End(w)
           ELSE /\ session' = [session EXCEPT ![w].at = "start", ![w].hash = <<s.body, warned>>]
                /\ UNCHANGED seeds
    /\ UNCHANGED <<debits, charges, keyRows, answers, raced>>

(* SagaOrchestrator.start: a live key gives its charge or refuses. *)
start(w) ==
    /\ session[w].at = "start"
    /\ LET s == session[w]
           row == keyRows[s.key]
           own == row.user = s.user /\ row.hash = s.hash
       IN  \/ /\ row.live /\ ~own /\ End(w)
           \/ /\ row.live /\ own /\ row.charge # 0
              /\ session' = [session EXCEPT ![w].at = "persist", ![w].charge = row.charge]
           \/ /\ ~row.live \/ (own /\ row.charge = 0)
              /\ Goto(w, "insert")
    /\ UNCHANGED <<seeds, debits, charges, keyRows, answers, raced>>

(* The insert of the charge meets the unique index outside the try block   *)
(* and fails the request, its demo credits included; only a key that no    *)
(* charge has is met by the insert of the key, whose handler gives the     *)
(* key's charge to whoever asks and fails where there is none.             *)
insert_saga(w) ==
    /\ session[w].at = "insert"
    /\ ~KeyBlocked(w)
    /\ LET row == keyRows[session[w].key]
       IN  IF KeyTaken(session[w].key) THEN End(w)
           ELSE IF row = NoKey THEN Goto(w, "persist")
           ELSE IF row.charge = 0 THEN End(w)
           ELSE session' = [session EXCEPT ![w].at = "persist", ![w].seeded = FALSE,
                                           ![w].charge = row.charge]
    /\ UNCHANGED <<seeds, debits, charges, keyRows, answers, raced>>

(* The answer is stored in the key's row and the transaction commits. *)
persist_charge_response_body(w) ==
    /\ session[w].at = "persist"
    /\ LET s == session[w]
           fresh == s.charge = 0
           id == IF fresh THEN Len(charges) + 1 ELSE s.charge
       IN  /\ fresh => Len(charges) < MaxCharges
           /\ charges' = IF fresh
                         THEN Append(charges, [key |-> s.key, user |-> s.user, body |-> s.body,
                                               settled |-> FALSE])
                         ELSE charges
           /\ keyRows' = IF fresh
                         THEN [keyRows EXCEPT ![s.key] = [user |-> s.user, hash |-> s.hash,
                                                          charge |-> id, live |-> TRUE]]
                         ELSE keyRows
           /\ Answer(w, id)
    /\ Commit(w) /\ End(w)
    /\ UNCHANGED <<debits, raced>>

(***************************************************************************)
(* What goes on around it.                                                 *)
(***************************************************************************)
ExpireKey(k) ==
    /\ keyRows[k].live
    /\ keyRows' = [keyRows EXCEPT ![k].live = FALSE]
    /\ UNCHANGED <<seeds, debits, charges, session, answers, raced>>

(* A subscription that found the key free some time ago takes it, from a   *)
(* charge that was created since, or from one whose key has expired.       *)
upsert_subscription_idempotency_row(u, k) ==
    /\ ~ \E w \in Sessions : session[w].at = "persist" /\ session[w].charge = 0 /\ session[w].key = k
    /\ keyRows' = [keyRows EXCEPT ![k] = [NoKey EXCEPT !.user = u, !.live = TRUE]]
    /\ UNCHANGED <<seeds, debits, charges, session, answers, raced>>

SettleCharge(i) ==
    /\ ~charges[i].settled
    /\ charges' = [charges EXCEPT ![i].settled = TRUE]
    /\ debits' = [debits EXCEPT ![charges[i].user] = @ + Price[charges[i].body]]
    /\ UNCHANGED <<seeds, keyRows, session, answers, raced>>

AdmissionNext ==
    \/ \E w \in Sessions, u \in Users, k \in Keys, b \in Bodies, c \in BOOLEAN :
          create_charge(w, u, k, b, c)
    \/ \E w \in Sessions :
          \/ charge_replay_response_if_cached(w) \/ seed_demo_balance(w) \/ check_balance(w)
          \/ start(w) \/ insert_saga(w) \/ persist_charge_response_body(w)
    \/ \E k \in Keys : ExpireKey(k)
    \/ \E u \in Users, k \in Keys : upsert_subscription_idempotency_row(u, k)
    \/ \E i \in DOMAIN charges : SettleCharge(i)

(***************************************************************************)
(* Properties.                                                             *)
(***************************************************************************)
(* A request is answered with a charge of its own user, for its own body   *)
(* and key, also when the key has expired and another tenant uses it, and  *)
(* when two requests with one key race; and no key ever has two charges.   *)
AnsweredWithOwnCharge ==
    /\ \A a \in answers :
          LET c == charges[a.charge]
          IN  c.user = a.user /\ c.body = a.body /\ c.key = a.key
    /\ \A i, j \in DOMAIN charges : charges[i].key = charges[j].key => i = j

(* The demo credits are given once, unless two first requests of a user    *)
(* were handled at the same time.                                          *)
DemoCreditsOnce == \A u \in Users \ raced : seeds[u] <= 1
=============================================================================
