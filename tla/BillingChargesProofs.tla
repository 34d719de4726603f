------------------------ MODULE BillingChargesProofs ------------------------
(***************************************************************************)
(* Proofs about BillingCharges, for any sets of sagas and sessions, any    *)
(* amounts, prices and budgets.                                            *)
(***************************************************************************)
EXTENDS BillingCharges, TLAPS, FiniteSetTheorems, WellFoundedInduction

(* The transition table, read by trigger. *)
LEMMA TransitionTable ==
    /\ \A seen, t : t \in find_transition(seen, "reserve") =>
            seen = "pending" /\ t.to_state = "reserved"
    /\ \A seen, t : t \in find_transition(seen, "service_success") =>
            seen = "reserved" /\ t.to_state = "charged"
    /\ \A seen, t : t \in find_transition(seen, "user_cancel") =>
            seen = "reserved" /\ t.to_state = "refunded"
    /\ \A seen, t : t \in find_transition(seen, "downstream_reject_late") =>
            seen = "charged" /\ t.to_state = "rolled_back"
BY DEF find_transition, valid_transitions_from, TRANSITIONS, Transition

(* What SagaOrchestrator.apply does to the saga row, by trigger. *)
LEMMA ApplyEffect ==
    ASSUME NEW s, NEW seen
    PROVE  /\ apply(s, seen, "reserve") =>
                seen = "pending" /\ state' = [state EXCEPT ![s] = "reserved"]
           /\ apply(s, seen, "service_success") =>
                seen = "reserved" /\ state' = [state EXCEPT ![s] = "charged"]
           /\ apply(s, seen, "user_cancel") =>
                seen = "reserved" /\ state' = [state EXCEPT ![s] = "refunded"]
           /\ apply(s, seen, "downstream_reject_late") =>
                seen = "charged" /\ state' = [state EXCEPT ![s] = "rolled_back"]
BY TransitionTable DEF apply

(* finalize returns a part of the reservation, and leaves the floor. *)
LEMMA PartialRefund ==
    ASSUME NEW q \in Quotes, NEW s \in Sagas
    PROVE  /\ refund_partial(q, Amount[s]) \in Nat
           /\ refund_partial(q, Amount[s]) <= Amount[s] - Floor[s]
BY AmountAssumption, PriceAssumption DEF refund_partial, compute_charge_amount, Floor

(* An evaluated budget control is a budget control. *)
LEMMA BudgetType ==
    ASSUME NEW spend, NEW c \in [limit : Limits, enabled : BOOLEAN,
                                 status : {"active", "paused"},
                                 events : SUBSET {"alerted", "paused"}]
    PROVE  evaluate_budget_thresholds(c, spend) \in
                [limit : Limits, enabled : BOOLEAN, status : {"active", "paused"},
                 events : SUBSET {"alerted", "paused"}]
BY DEF evaluate_budget_thresholds

Book == [Sagas -> [Kinds -> Int]]

(* A row adds its amount to its kind and to nothing else. *)
LEMMA RowInserted ==
    ASSUME NEW book \in Book, NEW s \in Sagas, NEW kind \in Kinds, NEW x \in Int
    PROVE  /\ insert(book, s, kind, x) \in Book
           /\ insert(book, s, kind, x)[s][kind] = book[s][kind] + x
           /\ \A k \in Kinds : k # kind => insert(book, s, kind, x)[s][k] = book[s][k]
           /\ \A r \in Sagas : r # s => insert(book, s, kind, x)[r] = book[r]
BY DEF insert, Book

(* So do two rows of different kinds. *)
LEMMA TwoRowsInserted ==
    ASSUME NEW book \in Book, NEW s \in Sagas, NEW k1 \in Kinds, NEW k2 \in Kinds, k1 # k2,
           NEW x1 \in Int, NEW x2 \in Int, NEW after,
           after = insert(insert(book, s, k1, x1), s, k2, x2)
    PROVE  /\ after \in Book
           /\ after[s][k1] = book[s][k1] + x1
           /\ after[s][k2] = book[s][k2] + x2
           /\ \A k \in Kinds \ {k1, k2} : after[s][k] = book[s][k]
           /\ \A r \in Sagas : r # s => after[r] = book[r]
<1> DEFINE mid == insert(book, s, k1, x1)
<1>1. /\ mid \in Book /\ mid[s][k1] = book[s][k1] + x1
      /\ \A k \in Kinds : k # k1 => mid[s][k] = book[s][k]
      /\ \A r \in Sagas : r # s => mid[r] = book[r]
  BY RowInserted
<1>2. after = insert(mid, s, k2, x2)
  OBVIOUS
<1> HIDE DEF mid
<1>3. /\ after \in Book /\ after[s][k2] = mid[s][k2] + x2
      /\ \A k \in Kinds : k # k2 => after[s][k] = mid[s][k]
      /\ \A r \in Sagas : r # s => after[r] = mid[r]
  BY <1>1, <1>2, RowInserted
<1> QED
  BY <1>1, <1>3

(* What each commit does to the ledger: to the rows of s, and to no others. *)
LEMMA ChargePosted ==
    ASSUME TypeOK, NEW s \in Sagas, NEW p \in Int, PostCharge(s, p)
    PROVE  /\ ledger' \in Book
           /\ ledger'[s]["charge"] = ledger[s]["charge"] - Amount[s]
           /\ ledger'[s]["refund_partial"] = ledger[s]["refund_partial"] + p
           /\ \A k \in Kinds \ {"charge", "refund_partial"} : ledger'[s][k] = ledger[s][k]
           /\ \A r \in Sagas : r # s => ledger'[r] = ledger[r]
<1>1. /\ ledger \in Book /\ Amount[s] \in Nat /\ -Amount[s] \in Int
      /\ \A k \in Kinds : ledger[s][k] \in Int
      /\ "charge" \in Kinds /\ "refund_partial" \in Kinds /\ "charge" # "refund_partial"
  BY AmountAssumption DEF TypeOK, Book, Kinds
<1>2. ledger' = insert(insert(ledger, s, "charge", -Amount[s]), s, "refund_partial", p)
  BY DEF PostCharge
<1>3. /\ ledger' \in Book
      /\ ledger'[s]["charge"] = ledger[s]["charge"] + (-Amount[s])
      /\ ledger'[s]["refund_partial"] = ledger[s]["refund_partial"] + p
      /\ \A k \in Kinds \ {"charge", "refund_partial"} : ledger'[s][k] = ledger[s][k]
      /\ \A r \in Sagas : r # s => ledger'[r] = ledger[r]
  BY <1>1, <1>2, TwoRowsInserted
<1> QED
  BY <1>1, <1>3

(* What refunding a charged saga (downstream_reject_late) does to the ledger:
   the full refund, less the partial refund that was read. *)
LEMMA RollbackPosted ==
    ASSUME TypeOK, NEW s \in Sagas, NEW p \in Int, PostRolledBackCharge(s, p)
    PROVE  /\ ledger' \in Book
           /\ ledger'[s]["refund"] = ledger[s]["refund"] + Amount[s]
           /\ ledger'[s]["refund_reversal"] = ledger[s]["refund_reversal"] - p
           /\ \A k \in Kinds \ {"refund", "refund_reversal"} : ledger'[s][k] = ledger[s][k]
           /\ \A r \in Sagas : r # s => ledger'[r] = ledger[r]
<1>1. /\ ledger \in Book /\ Amount[s] \in Nat /\ -p \in Int
      /\ \A k \in Kinds : ledger[s][k] \in Int
      /\ "refund" \in Kinds /\ "refund_reversal" \in Kinds /\ "refund" # "refund_reversal"
  BY AmountAssumption DEF TypeOK, Book, Kinds
<1>2. ledger' = insert(insert(ledger, s, "refund", Amount[s]), s, "refund_reversal", -p)
  BY DEF PostRolledBackCharge
<1>3. /\ ledger' \in Book
      /\ ledger'[s]["refund"] = ledger[s]["refund"] + Amount[s]
      /\ ledger'[s]["refund_reversal"] = ledger[s]["refund_reversal"] + (-p)
      /\ \A k \in Kinds \ {"refund", "refund_reversal"} : ledger'[s][k] = ledger[s][k]
      /\ \A r \in Sagas : r # s => ledger'[r] = ledger[r]
  BY <1>1, <1>2, TwoRowsInserted
<1> QED
  BY <1>1, <1>3

(* What releasing a reservation (user_cancel) does to the ledger: a refund and
   its reversal on the saga's own rows, nothing on any other saga. *)
LEMMA ReservationPosted ==
    ASSUME TypeOK, NEW s \in Sagas, PostReleasedReservation(s)
    PROVE  /\ ledger' \in Book
           /\ ledger'[s]["refund"] = ledger[s]["refund"] + Amount[s]
           /\ ledger'[s]["refund_reversal"] = ledger[s]["refund_reversal"] - Amount[s]
           /\ \A k \in Kinds \ {"refund", "refund_reversal"} : ledger'[s][k] = ledger[s][k]
           /\ \A r \in Sagas : r # s => ledger'[r] = ledger[r]
<1>1. Amount[s] \in Int
  BY AmountAssumption
<1>2. PostRolledBackCharge(s, Amount[s])
  BY DEF PostReleasedReservation, PostRolledBackCharge
<1> QED
  BY <1>1, <1>2, RollbackPosted

(* What confirm_topup does to the ledger: the one topup row of its own saga. *)
LEMMA TopupPosted ==
    ASSUME TypeOK, NEW s \in Topups, confirm_topup(s)
    PROVE  /\ ledger' \in Book
           /\ ledger'[s]["topup"] = Amount[s]
           /\ \A k \in Kinds \ {"topup"} : ledger'[s][k] = ledger[s][k]
           /\ \A r \in Sagas : r # s => ledger'[r] = ledger[r]
<1>1. /\ ledger \in Book /\ s \in Sagas /\ Amount[s] \in Nat /\ "topup" \in Kinds
      /\ ledger[s]["topup"] = 0
  BY AmountAssumption DEF TypeOK, Book, Kinds, Sagas, confirm_topup
<1> QED
  BY <1>1, RowInserted DEF confirm_topup

(* What each commit does to the outbox. *)
LEMMA Announced ==
    ASSUME TypeOK, NEW s \in Sagas, NEW es, Announce(s, es)
    PROVE  /\ outbox' \in [Sagas -> [Events -> Nat]]
           /\ \A e \in Events : outbox'[s][e] = IF e \in es THEN outbox[s][e] + 1
                                                ELSE outbox[s][e]
           /\ \A r \in Sagas : r # s => outbox'[r] = outbox[r]
BY DEF Announce, TypeOK

(* A request in flight is a well-formed one. *)
LEMMA InFlight ==
    ASSUME TypeOK, NEW w \in Workers, req[w] # Idle
    PROVE  req[w] \in Requests
BY DEF TypeOK

(* At most one more commit on s was overtaken, and none on another saga. *)
Overtakes(s) ==
    /\ overtaken' \in [Sagas -> Nat]
    /\ overtaken'[s] \in {overtaken[s], overtaken[s] + 1}
    /\ \A r \in Sagas : r # s => overtaken'[r] = overtaken[r]

(* Completing a request leaves the other sessions alone, and tells whether  *)
(* the request was overtaken.                                               *)
LEMMA Completed ==
    ASSUME TypeOK, NEW w \in Workers, NEW op, Completes(w, op)
    PROVE  /\ req[w] \in Requests /\ req[w].op = op
           /\ req[w].saga \in Sagas /\ req[w].partial \in Int
           /\ req' \in [Workers -> Requests \cup {Idle}]
           /\ req'[w] = Idle
           /\ \A v \in Workers : v # w => req'[v] = req[v]
           /\ overtaken' \in [Sagas -> Nat]
           /\ Overtakes(req[w].saga)
           /\ overtaken'[req[w].saga] = overtaken[req[w].saga]
                <=> req[w].seen = state[req[w].saga]
<1>1. /\ req[w] \in Requests /\ req[w].op = op
      /\ req[w].saga \in Sagas /\ req[w].partial \in Int
  BY DEF Completes, TypeOK, Requests
<1>2. /\ req' \in [Workers -> Requests \cup {Idle}]
      /\ req'[w] = Idle
      /\ \A v \in Workers : v # w => req'[v] = req[v]
  BY DEF Completes, TypeOK
<1>3. /\ overtaken' \in [Sagas -> Nat]
      /\ Overtakes(req[w].saga)
      /\ overtaken'[req[w].saga] = overtaken[req[w].saga]
            <=> req[w].seen = state[req[w].saga]
  BY <1>1 DEF Completes, TypeOK, Overtakes
<1> QED
  BY <1>1, <1>2, <1>3

-----------------------------------------------------------------------------
(* Every variable of the money path keeps its type (TypeOK). *)
THEOREM TypeCorrect == Spec => []TypeOK
<1>1. Init => TypeOK
  BY DEF Init, TypeOK, Kinds, Idle
<1>2. TypeOK /\ [Next]_vars => TypeOK'
  <2> SUFFICES ASSUME TypeOK, [Next]_vars PROVE TypeOK'
    OBVIOUS
  <2>1. ASSUME NEW s \in Charges, create_charge(s) PROVE TypeOK'
    BY <2>1 DEF create_charge, TypeOK, State, Sagas
  <2>2. ASSUME NEW s \in Charges, refund_user_cancel_charge(s) PROVE TypeOK'
    <3>1. s \in Sagas /\ ledger[s]["refund_partial"] \in Int
      BY DEF Sagas, TypeOK, Kinds
    <3>2. state' \in [Sagas -> State \cup {"absent"}]
      BY <2>2, ApplyEffect DEF refund_user_cancel_charge, TypeOK, State
    <3>3. ledger' \in Book
      BY <2>2, <3>1, ReservationPosted, RollbackPosted DEF refund_user_cancel_charge
    <3>4. outbox' \in [Sagas -> [Events -> Nat]]
      BY <2>2, <3>1, Announced DEF refund_user_cancel_charge
    <3> QED
      BY <2>2, <3>2, <3>3, <3>4 DEF refund_user_cancel_charge, TypeOK, Book
  <2>3. ASSUME NEW s \in Topups, create_topup(s) PROVE TypeOK'
    BY <2>3 DEF create_topup, TypeOK, State, Sagas
  <2>4. ASSUME NEW s \in Topups, confirm_topup(s) PROVE TypeOK'
    <3>1. s \in Sagas
      BY DEF Sagas
    <3>2. outbox' \in [Sagas -> [Events -> Nat]]
      BY <2>4, <3>1, Announced DEF confirm_topup
    <3> QED
      BY <2>4, <3>1, <3>2, TopupPosted DEF confirm_topup, TypeOK, State, Book
  <2>5. ASSUME NEW w \in Workers, NEW op \in Operations, NEW s \in Sagas, Load(w, op, s)
        PROVE  TypeOK'
    BY <2>5 DEF Load, TypeOK, Requests, State
  <2>6. ASSUME NEW w \in Workers, ReadLedger(w) PROVE TypeOK'
    <3>1. req[w] \in Requests /\ req[w].saga \in Sagas
      BY <2>6, InFlight DEF ReadLedger, Requests
    <3>2. ledger[req[w].saga]["refund_partial"] \in Int
      BY <3>1 DEF TypeOK, Kinds
    <3> DEFINE r == [req[w] EXCEPT !.phase = "read",
                                   !.partial = ledger[req[w].saga]["refund_partial"]]
    <3>3. r \in Requests
      BY <3>1, <3>2 DEF Requests
    <3>4. req' = [req EXCEPT ![w] = r]
      BY <2>6 DEF ReadLedger, TypeOK
    <3>5. UNCHANGED <<state, ledger, outbox, attributed, control, overtaken>>
      BY <2>6 DEF ReadLedger
    <3> HIDE DEF r
    <3> QED
      BY <3>3, <3>4, <3>5 DEF TypeOK
  <2>7. ASSUME NEW w \in Workers, Rollback(w) PROVE TypeOK'
    BY <2>7 DEF Rollback, TypeOK
  <2>8. ASSUME NEW w \in Workers, reserve_charge(w) PROVE TypeOK'
    <3>1. Completes(w, "reserve") /\ req[w].saga \in Sagas
      BY <2>8, Completed DEF reserve_charge
    <3>2. state' \in [Sagas -> State \cup {"absent"}]
      BY <2>8, ApplyEffect DEF reserve_charge, TypeOK, State
    <3> QED
      BY <2>8, <3>1, <3>2, Completed, Announced DEF reserve_charge, TypeOK
  <2>9. ASSUME NEW w \in Workers, finalize_success(w) PROVE TypeOK'
    <3>1. Completes(w, "finalize_success") /\ req[w].saga \in Sagas
      BY <2>9, Completed DEF finalize_success
    <3>2. state' \in [Sagas -> State \cup {"absent"}]
      BY <2>9, ApplyEffect DEF finalize_success, TypeOK, State
    <3>3. ledger' \in Book
      <4>1. PICK q \in Quotes : PostCharge(req[w].saga, refund_partial(q, Amount[req[w].saga]))
        BY <2>9 DEF finalize_success
      <4>2. refund_partial(q, Amount[req[w].saga]) \in Int
        BY <3>1, PartialRefund
      <4> QED
        BY <3>1, <4>1, <4>2, ChargePosted
    <3>4. attributed' \in [Sagas -> 0 .. 1]
      <4>1. RecordCost(req[w].saga) /\ attributed \in [Sagas -> 0 .. 1]
        BY <2>9 DEF finalize_success, TypeOK
      <4> QED
        BY <3>1, <4>1 DEF RecordCost
    <3>5. outbox' \in [Sagas -> [Events -> Nat]] /\ req' \in [Workers -> Requests \cup {Idle}]
          /\ overtaken' \in [Sagas -> Nat]
      BY <2>9, <3>1, Completed, Announced DEF finalize_success
    <3> QED
      BY <2>9, <3>2, <3>3, <3>4, <3>5, BudgetType DEF finalize_success, TypeOK, Book
  <2>10. ASSUME NEW w \in Workers, finalize_failure(w) PROVE TypeOK'
    <3>1. Completes(w, "finalize_failure") /\ req[w].saga \in Sagas
      BY <2>10, Completed DEF finalize_failure
    <3>2. state' \in [Sagas -> State \cup {"absent"}]
      <4>1. apply(req[w].saga, req[w].seen, "user_cancel")
        BY <2>10 DEF finalize_failure
      <4>2. state' = [state EXCEPT ![req[w].saga] = "refunded"]
        BY <4>1, ApplyEffect
      <4> QED
        BY <4>2 DEF TypeOK, State
    <3>3. ledger' \in Book
      BY <2>10, <3>1, ReservationPosted DEF finalize_failure
    <3>4. outbox' \in [Sagas -> [Events -> Nat]] /\ req' \in [Workers -> Requests \cup {Idle}]
          /\ overtaken' \in [Sagas -> Nat]
      BY <2>10, <3>1, Completed, Announced DEF finalize_failure
    <3> QED
      BY <2>10, <3>2, <3>3, <3>4, BudgetType DEF finalize_failure, TypeOK, Book
  <2>11. ASSUME NEW w \in Workers, refund_auto_reserved(w) PROVE TypeOK'
    <3>1. Completes(w, "refund_auto") /\ req[w].saga \in Sagas
      BY <2>11, Completed DEF refund_auto_reserved
    <3>2. state' \in [Sagas -> State \cup {"absent"}]
      BY <2>11, ApplyEffect DEF refund_auto_reserved, TypeOK, State
    <3>3. ledger' \in Book
      BY <2>11, <3>1, ReservationPosted DEF refund_auto_reserved
    <3> QED
      BY <2>11, <3>1, <3>2, <3>3, Completed, Announced DEF refund_auto_reserved, TypeOK, Book
  <2>12. ASSUME NEW w \in Workers, refund_auto_charged(w) PROVE TypeOK'
    <3>1. Completes(w, "refund_auto") /\ req[w].saga \in Sagas /\ req[w].partial \in Int
      BY <2>12, Completed DEF refund_auto_charged
    <3>2. state' \in [Sagas -> State \cup {"absent"}]
      BY <2>12, ApplyEffect DEF refund_auto_charged, TypeOK, State
    <3>3. ledger' \in Book
      BY <2>12, <3>1, RollbackPosted DEF refund_auto_charged
    <3> QED
      BY <2>12, <3>1, <3>2, <3>3, Completed, Announced DEF refund_auto_charged, TypeOK, Book
  <2>13. ASSUME NEW w \in Workers, confirm_charge(w) PROVE TypeOK'
    <3>1. Completes(w, "confirm") /\ req[w].saga \in Sagas
      BY <2>13, Completed DEF confirm_charge
    <3>2. state' \in [Sagas -> State \cup {"absent"}]
      BY <2>13, ApplyEffect DEF confirm_charge, TypeOK, State
    <3>3. ledger' \in Book
      BY <2>13, <3>1, ChargePosted DEF confirm_charge
    <3>4. outbox' \in [Sagas -> [Events -> Nat]] /\ req' \in [Workers -> Requests \cup {Idle}]
          /\ overtaken' \in [Sagas -> Nat]
      BY <2>13, <3>1, Completed, Announced DEF confirm_charge
    <3> QED
      BY <2>13, <3>2, <3>3, <3>4, BudgetType DEF confirm_charge, TypeOK, Book
  <2>14. ASSUME configure_budget PROVE TypeOK'
    <3> DEFINE c(l) == [control EXCEPT !.limit = l, !.enabled = TRUE, !.status = "active"]
    <3>1. \A l \in Limits : c(l) \in [limit : Limits, enabled : BOOLEAN,
                                      status : {"active", "paused"},
                                      events : SUBSET {"alerted", "paused"}]
      BY DEF TypeOK
    <3>2. CASE \E l \in Limits :
                  control' = evaluate_budget_thresholds(c(l), monthly_actual_spend(ledger))
      <4> HIDE DEF c
      <4>1. PICK l \in Limits :
                  control' = evaluate_budget_thresholds(c(l), monthly_actual_spend(ledger))
        BY <3>2
      <4>2. control' \in [limit : Limits, enabled : BOOLEAN, status : {"active", "paused"},
                          events : SUBSET {"alerted", "paused"}]
        BY <3>1, <4>1, BudgetType
      <4> QED
        BY <2>14, <4>2 DEF configure_budget, TypeOK
    <3>3. CASE control' = [control EXCEPT !.enabled = FALSE, !.status = "active"]
      BY <2>14, <3>3 DEF configure_budget, TypeOK
    <3> QED
      BY <2>14, <3>2, <3>3 DEF configure_budget
  <2>15. CASE UNCHANGED vars
    BY <2>15 DEF vars, TypeOK
  <2> QED
    BY <2>1, <2>2, <2>3, <2>4, <2>5, <2>6, <2>7, <2>8, <2>9, <2>10, <2>11, <2>12,
       <2>13, <2>14, <2>15 DEF Next
<1> QED
  BY <1>1, <1>2, PTL DEF Spec

-----------------------------------------------------------------------------
(* What a session in flight knows.  It has read a saga that exists; it      *)
(* reads the ledger of a charged saga only; and as long as no commit on the *)
(* saga was overtaken, a saga that was charged when it was read can only    *)
(* have been rolled back since, and otherwise still has the partial refund  *)
(* that was read.                                                           *)
ReadOf(r) ==
    /\ state[r.saga] # "absent"
    /\ r.phase = "read" => r.seen = "charged"
    /\ overtaken[r.saga] = 0 /\ r.seen = "charged" =>
          state[r.saga] \in {"charged", "rolled_back"}
    /\ overtaken[r.saga] = 0 /\ r.phase = "read" /\ state[r.saga] = "charged" =>
          r.partial = ledger[r.saga]["refund_partial"]

Reads == \A w \in Workers : req[w] # Idle => ReadOf(req[w])

(* A commit on s that is overtaken moves a saga that exists; one that is    *)
(* not is chosen from the state of s.                                       *)
Moves(s, from, to) ==
    /\ state' = [state EXCEPT ![s] = to]
    /\ Overtakes(s)
    /\ overtaken'[s] = overtaken[s] => state[s] \in from
    /\ Reads => state[s] # "absent"

(* The five ways a step can treat the money of a saga. *)
LeavesMoney ==
    /\ ledger' = ledger
    /\ \A s \in Sagas, e \in Events : e # "reserve" => outbox'[s][e] = outbox[s][e]
    /\ \/ state' = state /\ overtaken' = overtaken
       \/ \E s \in Sagas : /\ state[s] = "absent" /\ overtaken' = overtaken
                           /\ state' = [state EXCEPT ![s] = "pending"]
       \/ \E s \in Sagas : Moves(s, {"pending"}, "reserved")

Settles(s, p, es) ==
    /\ Moves(s, {"pending", "reserved"}, "charged")
    /\ p \in Nat /\ p <= Amount[s] - Floor[s]
    /\ PostCharge(s, p)
    /\ Announce(s, es)
    /\ "service_success" \in es
    /\ es \cap {"user_cancel", "downstream_reject_late", "topup_confirmed"} = {}

Releases(s, es) ==
    /\ Moves(s, {"reserved"}, "refunded")
    /\ PostReleasedReservation(s)
    /\ Announce(s, es)
    /\ "user_cancel" \in es
    /\ es \cap {"service_success", "downstream_reject_late", "topup_confirmed"} = {}

RollsBack(s, p, es) ==
    /\ Moves(s, {"charged"}, "rolled_back")
    /\ p \in Int
    /\ Reads /\ overtaken'[s] = 0 => p = ledger[s]["refund_partial"]
    /\ PostRolledBackCharge(s, p)
    /\ Announce(s, es)
    /\ "downstream_reject_late" \in es
    /\ es \cap {"service_success", "user_cancel", "topup_confirmed"} = {}

MoneyStep ==
    \/ LeavesMoney
    \/ \E s \in Sagas, p \in Int, es \in SUBSET Events : Settles(s, p, es)
    \/ \E s \in Sagas, es \in SUBSET Events : Releases(s, es)
    \/ \E s \in Sagas, p \in Int, es \in SUBSET Events : RollsBack(s, p, es)
    \/ \E s \in Topups : confirm_topup(s)

(* The commit of a request, with the transition it was chosen from. *)
LEMMA CommitMoves ==
    ASSUME TypeOK, NEW w \in Workers, NEW op, Completes(w, op), NEW from, NEW to,
           req[w].seen \in from, state' = [state EXCEPT ![req[w].saga] = to]
    PROVE  Moves(req[w].saga, from, to)
<1>1. /\ Overtakes(req[w].saga)
      /\ overtaken'[req[w].saga] = overtaken[req[w].saga]
            <=> req[w].seen = state[req[w].saga]
  BY Completed
<1>2. Reads => state[req[w].saga] # "absent"
  BY DEF Completes, Reads, ReadOf
<1> QED
  BY <1>1, <1>2 DEF Moves

(* The commit of a handler that holds the lock when it reads the saga. *)
LEMMA LockedMoves ==
    ASSUME TypeOK, NEW s \in Sagas, NEW from, NEW to, state[s] \in from, state[s] # "absent",
           state' = [state EXCEPT ![s] = to], overtaken' = overtaken
    PROVE  Moves(s, from, to)
BY DEF Moves, Overtakes, TypeOK

LEMMA ConfirmMoves ==
    ASSUME TypeOK, NEW s \in Topups, confirm_topup(s)
    PROVE  s \in Sagas /\ Moves(s, {"pending"}, "completed")
<1>1. /\ s \in Sagas /\ state[s] = "pending" /\ overtaken' = overtaken
      /\ state' = [state EXCEPT ![s] = "completed"]
  BY DEF confirm_topup, Sagas
<1>2. state[s] \in {"pending"} /\ state[s] # "absent"
  BY <1>1
<1> QED
  BY <1>1, <1>2 DEF Moves, Overtakes, TypeOK

(* Every handler step is one of the five. *)
LEMMA StepKinds ==
    ASSUME TypeOK, [Next]_vars
    PROVE  MoneyStep
<1>1. ASSUME NEW s \in Charges, create_charge(s) PROVE MoneyStep
  BY <1>1 DEF create_charge, MoneyStep, LeavesMoney, Sagas
<1>2. ASSUME NEW s \in Charges, refund_user_cancel_charge(s) PROVE MoneyStep
  <2>1. /\ s \in Sagas /\ ledger[s]["refund_partial"] \in Int
        /\ overtaken' = overtaken
    BY <1>2 DEF Sagas, TypeOK, Kinds, refund_user_cancel_charge
  <2>2. CASE apply(s, state[s], "user_cancel")
             /\ Announce(s, {"user_cancel", "refund_user_cancel"})
             /\ PostReleasedReservation(s)
    <3>1. Releases(s, {"user_cancel", "refund_user_cancel"})
      <4>1. Moves(s, {"reserved"}, "refunded")
        BY <2>1, <2>2, ApplyEffect, LockedMoves
      <4> QED
        BY <2>2, <4>1 DEF Releases
    <3> QED
      BY <2>1, <3>1 DEF MoneyStep, Events
  <2>3. CASE apply(s, state[s], "downstream_reject_late")
             /\ Announce(s, {"downstream_reject_late", "refund_user_cancel"})
             /\ PostRolledBackCharge(s, ledger[s]["refund_partial"])
    <3>1. RollsBack(s, ledger[s]["refund_partial"],
                    {"downstream_reject_late", "refund_user_cancel"})
      <4>1. Moves(s, {"charged"}, "rolled_back")
        BY <2>1, <2>3, ApplyEffect, LockedMoves
      <4> QED
        BY <2>1, <2>3, <4>1 DEF RollsBack
    <3> QED
      BY <2>1, <3>1 DEF MoneyStep, Events
  <2> QED
    BY <1>2, <2>2, <2>3 DEF refund_user_cancel_charge
<1>3. ASSUME NEW s \in Topups, create_topup(s) PROVE MoneyStep
  BY <1>3 DEF create_topup, MoneyStep, LeavesMoney, Sagas
<1>4. ASSUME NEW s \in Topups, confirm_topup(s) PROVE MoneyStep
  BY <1>4 DEF MoneyStep
<1>5. ASSUME NEW w \in Workers, NEW op \in Operations, NEW s \in Sagas, Load(w, op, s)
      PROVE  MoneyStep
  BY <1>5 DEF Load, MoneyStep, LeavesMoney
<1>6. ASSUME NEW w \in Workers, ReadLedger(w) \/ Rollback(w) PROVE MoneyStep
  BY <1>6 DEF ReadLedger, Rollback, MoneyStep, LeavesMoney
<1>7. ASSUME NEW w \in Workers, reserve_charge(w) PROVE MoneyStep
  <2>1. req[w] # Idle /\ req[w].saga \in Sagas
    BY <1>7, Completed DEF reserve_charge, Completes
  <2>2. Moves(req[w].saga, {"pending"}, "reserved")
    BY <1>7, ApplyEffect, CommitMoves DEF reserve_charge
  <2>3. \A s \in Sagas, e \in Events : e # "reserve" => outbox'[s][e] = outbox[s][e]
    BY <1>7, <2>1, Announced DEF reserve_charge
  <2>4. ledger' = ledger
    BY <1>7 DEF reserve_charge
  <2> QED
    BY <2>1, <2>2, <2>3, <2>4 DEF MoneyStep, LeavesMoney
<1>8. ASSUME NEW w \in Workers, finalize_success(w) PROVE MoneyStep
  <2>1. req[w] # Idle /\ req[w].saga \in Sagas
    BY <1>8, Completed DEF finalize_success, Completes
  <2>2. PICK q \in Quotes : PostCharge(req[w].saga, refund_partial(q, Amount[req[w].saga]))
    BY <1>8 DEF finalize_success
  <2>3. Settles(req[w].saga, refund_partial(q, Amount[req[w].saga]), {"service_success"})
    <3>1. Moves(req[w].saga, {"pending", "reserved"}, "charged")
      BY <1>8, ApplyEffect, CommitMoves DEF finalize_success
    <3> QED
      BY <1>8, <2>1, <2>2, <3>1, PartialRefund DEF finalize_success, Settles
  <2>4. refund_partial(q, Amount[req[w].saga]) \in Int
    BY <2>3 DEF Settles
  <2> QED
    BY <2>1, <2>3, <2>4 DEF MoneyStep, Events
<1>9. ASSUME NEW w \in Workers, finalize_failure(w) PROVE MoneyStep
  <2>1. req[w] # Idle /\ req[w].saga \in Sagas
    BY <1>9, Completed DEF finalize_failure, Completes
  <2>2. Releases(req[w].saga, {"user_cancel"})
    <3>1. Moves(req[w].saga, {"reserved"}, "refunded")
      BY <1>9, ApplyEffect, CommitMoves DEF finalize_failure
    <3> QED
      BY <1>9, <3>1 DEF finalize_failure, Releases
  <2> QED
    BY <2>1, <2>2 DEF MoneyStep, Events
<1>10. ASSUME NEW w \in Workers, refund_auto_reserved(w) PROVE MoneyStep
  <2>1. req[w] # Idle /\ req[w].saga \in Sagas
    BY <1>10, Completed DEF refund_auto_reserved, Completes
  <2>2. Releases(req[w].saga, {"user_cancel", "refund_auto"})
    <3>1. Moves(req[w].saga, {"reserved"}, "refunded")
      BY <1>10, ApplyEffect, CommitMoves DEF refund_auto_reserved
    <3> QED
      BY <1>10, <3>1 DEF refund_auto_reserved, Releases
  <2> QED
    BY <2>1, <2>2 DEF MoneyStep, Events
<1>11. ASSUME NEW w \in Workers, refund_auto_charged(w) PROVE MoneyStep
  <2>1. req[w] # Idle /\ req[w].saga \in Sagas /\ req[w].partial \in Int
    BY <1>11, Completed DEF refund_auto_charged, Completes
  <2>2. RollsBack(req[w].saga, req[w].partial, {"downstream_reject_late", "refund_auto"})
    <3>1. Moves(req[w].saga, {"charged"}, "rolled_back")
      BY <1>11, ApplyEffect, CommitMoves DEF refund_auto_charged
    <3>2. Reads /\ overtaken'[req[w].saga] = 0 =>
              req[w].partial = ledger[req[w].saga]["refund_partial"]
      <4>1. overtaken[req[w].saga] \in Nat
        BY <2>1 DEF TypeOK
      <4>2. overtaken'[req[w].saga] = 0 =>
                overtaken[req[w].saga] = 0 /\ state[req[w].saga] = "charged"
        BY <3>1, <4>1 DEF Moves, Overtakes
      <4> QED
        BY <1>11, <2>1, <4>2 DEF refund_auto_charged, Reads, ReadOf
    <3> QED
      BY <1>11, <2>1, <3>1, <3>2 DEF refund_auto_charged, RollsBack
  <2> QED
    BY <2>1, <2>2 DEF MoneyStep, Events
<1>12. ASSUME NEW w \in Workers, confirm_charge(w) PROVE MoneyStep
  <2>1. req[w] # Idle /\ req[w].saga \in Sagas
    BY <1>12, Completed DEF confirm_charge, Completes
  <2>2. req[w].seen \in {"pending", "reserved"}
    BY <1>12 DEF confirm_charge, find_transition, is_idempotent_replay,
                 valid_transitions_from, TRANSITIONS, Transition
  <2>3. 0 <= Amount[req[w].saga] - Floor[req[w].saga]
    BY <2>1, AmountAssumption, PriceAssumption DEF Floor
  <2>4. PICK es \in {{"reserve", "service_success"}, {"service_success"}} :
              Announce(req[w].saga, es)
    BY <1>12 DEF confirm_charge
  <2>5. Settles(req[w].saga, 0, es)
    <3>1. Moves(req[w].saga, {"pending", "reserved"}, "charged")
      BY <1>12, <2>2, ApplyEffect, CommitMoves DEF confirm_charge
    <3> QED
      BY <1>12, <2>1, <2>3, <2>4, <3>1 DEF confirm_charge, Settles
  <2>6. es \in SUBSET Events /\ 0 \in Int
    BY <2>4 DEF Events
  <2> QED
    BY <2>1, <2>5, <2>6 DEF MoneyStep
<1>13. CASE configure_budget \/ UNCHANGED vars
  BY <1>13 DEF configure_budget, vars, MoneyStep, LeavesMoney
<1> QED
  BY <1>1, <1>2, <1>3, <1>4, <1>5, <1>6, <1>7, <1>8, <1>9, <1>10, <1>11, <1>12, <1>13
     DEF Next

-----------------------------------------------------------------------------
(* A payment is credited at most once, whatever requests run concurrently   *)
(* on the top-up's saga and however stale what they read is.                *)
THEOREM TopupSafe == Spec => []TopupCreditedOnce
<1>1. Init => TopupCreditedOnce
  BY DEF Init, TopupCreditedOnce, Kinds
<1>2. TypeOK /\ TopupCreditedOnce /\ [Next]_vars => TopupCreditedOnce'
  <2> SUFFICES ASSUME TypeOK, TopupCreditedOnce, [Next]_vars,
                      NEW r \in Sagas
               PROVE  ledger'[r]["topup"] \in (IF r \in Topups THEN {0, Amount[r]} ELSE {0})
    BY DEF TopupCreditedOnce
  <2>0. ledger[r]["topup"] \in (IF r \in Topups THEN {0, Amount[r]} ELSE {0})
    BY DEF TopupCreditedOnce
  <2>1. CASE LeavesMoney
    BY <2>0, <2>1 DEF LeavesMoney
  <2>2. ASSUME NEW s \in Sagas, NEW p, NEW es, Settles(s, p, es)
        PROVE  ledger'[r]["topup"] = ledger[r]["topup"]
    BY <2>2, ChargePosted DEF Settles, Kinds
  <2>3. ASSUME NEW s \in Sagas, NEW es, Releases(s, es)
        PROVE  ledger'[r]["topup"] = ledger[r]["topup"]
    BY <2>3, ReservationPosted DEF Releases, Kinds
  <2>4. ASSUME NEW s \in Sagas, NEW p, NEW es, RollsBack(s, p, es)
        PROVE  ledger'[r]["topup"] = ledger[r]["topup"]
    BY <2>4, RollbackPosted DEF RollsBack, Kinds
  <2>5. ASSUME NEW s \in Topups, confirm_topup(s)
        PROVE  ledger'[r]["topup"] \in (IF r \in Topups THEN {0, Amount[r]} ELSE {0})
    BY <2>0, <2>5, TopupPosted
  <2> QED
    BY <2>0, <2>1, <2>2, <2>3, <2>4, <2>5, StepKinds DEF MoneyStep
<1> QED
  BY <1>1, <1>2, TypeCorrect, PTL DEF Spec

(* One more event is one more amount. *)
LEMMA OneMore ==
    ASSUME NEW a \in Nat, NEW n \in Nat
    PROVE  a * (n + 1) = a * n + a /\ a * n \in Nat
OBVIOUS

(* The ledger and the outbox tell the same story, whatever runs             *)
(* concurrently: the dual write of a handler commits as one.                *)
THEOREM DualWriteSafe == Spec => []LedgerMatchesOutbox
<1>1. Init => LedgerMatchesOutbox
  BY AmountAssumption DEF Init, LedgerMatchesOutbox, Kinds, Events
<1>2. TypeOK /\ LedgerMatchesOutbox /\ [Next]_vars => LedgerMatchesOutbox'
  <2> SUFFICES ASSUME TypeOK, LedgerMatchesOutbox, [Next]_vars, NEW r \in Sagas
               PROVE  /\ ledger'[r]["charge"] = -(Amount[r] * outbox'[r]["service_success"])
                      /\ ledger'[r]["refund"] =
                            Amount[r] * (outbox'[r]["user_cancel"]
                                           + outbox'[r]["downstream_reject_late"])
                      /\ ledger'[r]["topup"] = Amount[r] * outbox'[r]["topup_confirmed"]
    BY DEF LedgerMatchesOutbox
  <2> DEFINE c == outbox[r]["service_success"]
             u == outbox[r]["user_cancel"]
             d == outbox[r]["downstream_reject_late"]
             t == outbox[r]["topup_confirmed"]
             c1 == outbox'[r]["service_success"]
             u1 == outbox'[r]["user_cancel"]
             d1 == outbox'[r]["downstream_reject_late"]
             t1 == outbox'[r]["topup_confirmed"]
             Agree == /\ ledger'[r]["charge"] = -(Amount[r] * c1)
                      /\ ledger'[r]["refund"] = Amount[r] * (u1 + d1)
                      /\ ledger'[r]["topup"] = Amount[r] * t1
  <2>0. /\ ledger[r]["charge"] = -(Amount[r] * c)
        /\ ledger[r]["refund"] = Amount[r] * (u + d)
        /\ ledger[r]["topup"] = Amount[r] * t
    BY DEF LedgerMatchesOutbox
  <2>a. c \in Nat /\ u \in Nat /\ d \in Nat /\ t \in Nat /\ u + d \in Nat /\ Amount[r] \in Nat
    BY AmountAssumption DEF TypeOK, Events
  <2> DEFINE n == u + d
  <2>b. /\ Amount[r] * (c + 1) = Amount[r] * c + Amount[r]
        /\ Amount[r] * (u + d + 1) = Amount[r] * (u + d) + Amount[r]
        /\ Amount[r] * c \in Nat /\ Amount[r] * (u + d) \in Nat
    <3>1. n \in Nat
      BY <2>a
    <3> HIDE DEF c, n
    <3>2. /\ Amount[r] * (c + 1) = Amount[r] * c + Amount[r]
          /\ Amount[r] * (n + 1) = Amount[r] * n + Amount[r]
          /\ Amount[r] * c \in Nat /\ Amount[r] * n \in Nat
      BY <2>a, <3>1, OneMore
    <3> QED
      BY <3>2 DEF n
  <2>1. CASE LeavesMoney
    <3>1. c1 = c /\ u1 = u /\ d1 = d /\ t1 = t
      BY <2>1 DEF LeavesMoney, Events
    <3> QED
      BY <2>0, <2>1, <3>1 DEF LeavesMoney
  <2>2. ASSUME NEW s \in Sagas, NEW p, NEW es, Settles(s, p, es), r = s PROVE Agree
    <3>1. c1 = c + 1 /\ u1 = u /\ d1 = d /\ t1 = t
      BY <2>2, Announced DEF Settles, Events
    <3>2. /\ ledger'[r]["charge"] = ledger[r]["charge"] - Amount[r]
          /\ ledger'[r]["refund"] = ledger[r]["refund"]
          /\ ledger'[r]["topup"] = ledger[r]["topup"]
      BY <2>2, ChargePosted DEF Settles, Kinds
    <3> HIDE DEF c, u, d, t, c1, u1, d1, t1
    <3> QED
      BY <2>0, <2>a, <2>b, <3>1, <3>2
  <2>3. ASSUME NEW s \in Sagas, NEW es, Releases(s, es), r = s PROVE Agree
    <3>1. c1 = c /\ u1 = u + 1 /\ d1 = d /\ t1 = t
      BY <2>3, Announced DEF Releases, Events
    <3>2. /\ ledger'[r]["charge"] = ledger[r]["charge"]
          /\ ledger'[r]["refund"] = ledger[r]["refund"] + Amount[r]
          /\ ledger'[r]["topup"] = ledger[r]["topup"]
      BY <2>3, ReservationPosted DEF Releases, Kinds
    <3> HIDE DEF c, u, d, t, c1, u1, d1, t1
    <3>3. u1 + d1 = u + d + 1
      BY <2>a, <3>1
    <3> QED
      BY <2>0, <2>a, <2>b, <3>1, <3>2, <3>3
  <2>4. ASSUME NEW s \in Sagas, NEW p, NEW es, RollsBack(s, p, es), r = s PROVE Agree
    <3>1. c1 = c /\ u1 = u /\ d1 = d + 1 /\ t1 = t
      BY <2>4, Announced DEF RollsBack, Events
    <3>2. /\ ledger'[r]["charge"] = ledger[r]["charge"]
          /\ ledger'[r]["refund"] = ledger[r]["refund"] + Amount[r]
          /\ ledger'[r]["topup"] = ledger[r]["topup"]
      BY <2>4, RollbackPosted DEF RollsBack, Kinds
    <3> HIDE DEF c, u, d, t, c1, u1, d1, t1
    <3>3. u1 + d1 = u + d + 1
      BY <2>a, <3>1
    <3> QED
      BY <2>0, <2>a, <2>b, <3>1, <3>2, <3>3
  <2>5. ASSUME NEW s \in Topups, confirm_topup(s), r = s PROVE Agree
    <3>1. c1 = c /\ u1 = u /\ d1 = d /\ t1 = t + 1
      BY <2>5, Announced DEF confirm_topup, Events
    <3>2. /\ ledger'[r]["charge"] = ledger[r]["charge"]
          /\ ledger'[r]["refund"] = ledger[r]["refund"]
          /\ ledger'[r]["topup"] = Amount[r] /\ ledger[r]["topup"] = 0
      BY <2>5, TopupPosted DEF confirm_topup, Kinds
    <3> HIDE DEF c, u, d, t, c1, u1, d1, t1
    <3>3. Amount[r] * (t + 1) = Amount[r] * t + Amount[r]
      BY <2>a, OneMore
    <3> QED
      BY <2>0, <2>a, <3>1, <3>2, <3>3
  <2>6. ASSUME NEW s \in Sagas, r # s, ledger'[r] = ledger[r], outbox'[r] = outbox[r] PROVE Agree
    BY <2>0, <2>6
  <2>7. /\ \A s \in Sagas, p \in Int, es \in SUBSET Events : Settles(s, p, es) /\ r # s =>
              ledger'[r] = ledger[r] /\ outbox'[r] = outbox[r]
        /\ \A s \in Sagas, es \in SUBSET Events : Releases(s, es) /\ r # s =>
              ledger'[r] = ledger[r] /\ outbox'[r] = outbox[r]
        /\ \A s \in Sagas, p \in Int, es \in SUBSET Events : RollsBack(s, p, es) /\ r # s =>
              ledger'[r] = ledger[r] /\ outbox'[r] = outbox[r]
        /\ \A s \in Topups : confirm_topup(s) /\ r # s =>
              ledger'[r] = ledger[r] /\ outbox'[r] = outbox[r]
    BY ChargePosted, ReservationPosted, RollbackPosted, TopupPosted, Announced
       DEF Settles, Releases, RollsBack, confirm_topup, Sagas
  <2> HIDE DEF Agree
  <2>8. Topups \subseteq Sagas
    BY DEF Sagas
  <2>c. LeavesMoney => Agree
    BY <2>1 DEF Agree
  <2>9. Agree
    BY <2>c, <2>2, <2>3, <2>4, <2>5, <2>6, <2>7, <2>8, StepKinds DEF MoneyStep
  <2> QED
    BY <2>9 DEF Agree
<1> QED
  BY <1>1, <1>2, TypeCorrect, PTL DEF Spec

-----------------------------------------------------------------------------
(* What a request in flight knows, and how a step changes the requests.     *)

(* A step that is not a read only ends requests; one that is changes        *)
(* nothing else.                                                            *)
LEMMA RequestMoves ==
    ASSUME TypeOK, [Next]_vars, NEW v \in Workers, req'[v] # Idle
    PROVE  \/ req'[v] = req[v]
           \/ /\ state' = state /\ ledger' = ledger /\ overtaken' = overtaken
              /\ req'[v].phase = "loaded"
              /\ req'[v].seen = state[req'[v].saga]
              /\ req'[v].seen # "absent"
           \/ /\ state' = state /\ ledger' = ledger /\ overtaken' = overtaken
              /\ req[v] # Idle /\ req'[v].saga = req[v].saga
              /\ req'[v].seen = "charged" /\ req[v].seen = "charged"
              /\ req'[v].phase = "read"
              /\ req'[v].partial = ledger[req[v].saga]["refund_partial"]
<1> DEFINE Goal ==
             \/ req'[v] = req[v]
             \/ /\ state' = state /\ ledger' = ledger /\ overtaken' = overtaken
                /\ req'[v].phase = "loaded"
                /\ req'[v].seen = state[req'[v].saga]
                /\ req'[v].seen # "absent"
             \/ /\ state' = state /\ ledger' = ledger /\ overtaken' = overtaken
                /\ req[v] # Idle /\ req'[v].saga = req[v].saga
                /\ req'[v].seen = "charged" /\ req[v].seen = "charged"
                /\ req'[v].phase = "read"
                /\ req'[v].partial = ledger[req[v].saga]["refund_partial"]
<1>1. ASSUME req' = req PROVE Goal
  BY <1>1
<1>2. ASSUME NEW w \in Workers, NEW op \in Operations, NEW s \in Sagas, Load(w, op, s)
      PROVE  Goal
  <2> DEFINE r == [phase |-> "loaded", op |-> op, saga |-> s,
                   seen |-> state[s], partial |-> 0]
  <2>1. req' = [req EXCEPT ![w] = r]
    BY <1>2 DEF Load
  <2>2. r.phase = "loaded" /\ r.saga = s /\ r.seen = state[s]
    OBVIOUS
  <2> HIDE DEF r
  <2>3. req'[w] = r /\ \A u \in Workers : u # w => req'[u] = req[u]
    BY <2>1 DEF TypeOK
  <2> QED
    BY <1>2, <2>2, <2>3 DEF Load
<1>3. ASSUME NEW w \in Workers, ReadLedger(w) PROVE Goal
  <2> DEFINE r == [req[w] EXCEPT !.phase = "read",
                                 !.partial = ledger[req[w].saga]["refund_partial"]]
  <2>1. req'[w] = r /\ \A u \in Workers : u # w => req'[u] = req[u]
    BY <1>3 DEF ReadLedger, TypeOK
  <2>2. req[w] \in Requests
    BY <1>3, InFlight DEF ReadLedger
  <2>3. /\ r.phase = "read" /\ r.saga = req[w].saga /\ r.seen = req[w].seen
        /\ r.partial = ledger[req[w].saga]["refund_partial"]
    BY <2>2 DEF Requests
  <2> HIDE DEF r
  <2> QED
    BY <1>3, <2>1, <2>3 DEF ReadLedger
<1>4. ASSUME NEW w \in Workers, Rollback(w) PROVE Goal
  BY <1>4 DEF Rollback, TypeOK
<1>5. ASSUME NEW w \in Workers, NEW op, Completes(w, op) PROVE Goal
  <2>1. req'[w] = Idle /\ \A u \in Workers : u # w => req'[u] = req[u]
    BY <1>5, Completed
  <2> QED
    BY <2>1
<1> HIDE DEF Goal
<1>6. ASSUME NEW w \in Workers,
             \/ reserve_charge(w) \/ finalize_success(w) \/ finalize_failure(w)
             \/ refund_auto_reserved(w) \/ refund_auto_charged(w) \/ confirm_charge(w)
      PROVE  Goal
  <2>1. \E op \in Operations : Completes(w, op)
    BY <1>6 DEF Operations, reserve_charge, finalize_success, finalize_failure,
       refund_auto_reserved, refund_auto_charged, confirm_charge
  <2> QED
    BY <1>5, <2>1
<1>7. ASSUME \/ \E s \in Charges : create_charge(s) \/ refund_user_cancel_charge(s)
             \/ \E s \in Topups : create_topup(s) \/ confirm_topup(s)
             \/ configure_budget \/ UNCHANGED vars
      PROVE  req' = req
  BY <1>7 DEF create_charge, create_topup, refund_user_cancel_charge, confirm_topup,
     configure_budget, vars
<1>8. Goal
  BY <1>1, <1>2, <1>3, <1>4, <1>6, <1>7 DEF Next
<1> QED
  BY <1>8 DEF Goal

(* No step makes wrong what a request in flight knows of its saga. *)
LEMMA KnowledgeKept ==
    ASSUME TypeOK, Reads, [Next]_vars, NEW q \in Requests, ReadOf(q)
    PROVE  ReadOf(q)'
<1>0. /\ q.saga \in Sagas /\ q.saga \in DOMAIN state
      /\ overtaken \in [Sagas -> Nat] /\ state \in [Sagas -> State \cup {"absent"}]
  BY DEF Requests, TypeOK
<1>1. CASE LeavesMoney
  BY <1>0, <1>1 DEF LeavesMoney, Moves, Overtakes, ReadOf
<1>2. ASSUME NEW s \in Sagas, NEW from \in SUBSET {"pending", "reserved"},
             NEW to \in {"charged", "refunded"}, Moves(s, from, to),
             \A r \in Sagas : r # s => ledger'[r] = ledger[r]
      PROVE  ReadOf(q)'
  BY <1>0, <1>2 DEF Moves, Overtakes, ReadOf
<1>3. ASSUME NEW s \in Sagas, NEW p, NEW es, Settles(s, p, es) PROVE ReadOf(q)'
  BY <1>2, <1>3, ChargePosted DEF Settles
<1>4. ASSUME NEW s \in Sagas, NEW es, Releases(s, es) PROVE ReadOf(q)'
  BY <1>2, <1>4, ReservationPosted DEF Releases
<1>5. ASSUME NEW s \in Sagas, NEW p, NEW es, RollsBack(s, p, es) PROVE ReadOf(q)'
  <2>1. \A r \in Sagas : r # s => ledger'[r] = ledger[r]
    BY <1>5, RollbackPosted DEF RollsBack
  <2> QED
    BY <1>0, <1>5, <2>1 DEF RollsBack, Moves, Overtakes, ReadOf
<1>6. ASSUME NEW s \in Topups, confirm_topup(s) PROVE ReadOf(q)'
  <2>1. \A r \in Sagas : r # s => ledger'[r] = ledger[r]
    BY <1>6, TopupPosted
  <2> QED
    BY <1>0, <1>6, <2>1 DEF confirm_topup, ReadOf
<1> QED
  BY <1>1, <1>3, <1>4, <1>5, <1>6, StepKinds DEF MoneyStep

(* What requests in flight know stays true. *)
LEMMA ReadsStep ==
    ASSUME TypeOK, TypeOK', Reads, [Next]_vars
    PROVE  Reads'
<1> SUFFICES ASSUME NEW v \in Workers, req'[v] # Idle PROVE ReadOf(req[v])'
  BY DEF Reads
<1>1. CASE req'[v] = req[v]
  <2>1. req[v] \in Requests /\ ReadOf(req[v])
    BY <1>1, InFlight DEF Reads
  <2> DEFINE q == req[v]
  <2>2. \A x \in Requests : ReadOf(x) => ReadOf(x)'
    BY KnowledgeKept
  <2> QED
    BY <1>1, <2>1, <2>2 DEF ReadOf
<1>2. CASE /\ state' = state /\ ledger' = ledger /\ overtaken' = overtaken
           /\ req'[v].phase = "loaded"
           /\ req'[v].seen = state[req'[v].saga]
           /\ req'[v].seen # "absent"
  BY <1>2 DEF ReadOf
<1>3. CASE /\ state' = state /\ ledger' = ledger /\ overtaken' = overtaken
           /\ req[v] # Idle /\ req'[v].saga = req[v].saga
           /\ req'[v].seen = "charged" /\ req[v].seen = "charged"
           /\ req'[v].phase = "read"
           /\ req'[v].partial = ledger[req[v].saga]["refund_partial"]
  BY <1>3 DEF Reads, ReadOf
<1> QED
  BY <1>1, <1>2, <1>3, RequestMoves

-----------------------------------------------------------------------------
(* The inductive invariant: what requests in flight know, and for each      *)
(* saga none of whose commits was overtaken the exact rows its state stands *)
(* for.  LedgerMatchesState alone is not inductive: a sum does not tell how *)
(* much of a charge was returned already, which is what a later rollback    *)
(* has to leave out.                                                        *)
BookOf(s) ==
    /\ state[s] # "failed"
    /\ state[s] \in {"absent", "pending", "reserved"} =>
          \A k \in Kinds : ledger[s][k] = 0
    /\ state[s] = "charged" =>
          /\ ledger[s]["charge"] = -Amount[s] /\ ledger[s]["topup"] = 0
          /\ ledger[s]["refund"] = 0 /\ ledger[s]["refund_reversal"] = 0
          /\ 0 <= ledger[s]["refund_partial"]
          /\ ledger[s]["refund_partial"] <= Amount[s] - Floor[s]
    /\ state[s] = "refunded" =>
          /\ ledger[s]["charge"] = 0 /\ ledger[s]["topup"] = 0
          /\ ledger[s]["refund_partial"] = 0
          /\ ledger[s]["refund"] = Amount[s] /\ ledger[s]["refund_reversal"] = -Amount[s]
    /\ state[s] = "rolled_back" =>
          /\ ledger[s]["charge"] = -Amount[s] /\ ledger[s]["topup"] = 0
          /\ ledger[s]["refund"] = Amount[s]
          /\ ledger[s]["refund_reversal"] = -ledger[s]["refund_partial"]
    /\ state[s] = "completed" =>
          /\ s \in Topups /\ ledger[s]["topup"] = Amount[s]
          /\ \A k \in Kinds \ {"topup"} : ledger[s][k] = 0

Books == \A s \in Sagas : overtaken[s] = 0 => BookOf(s)

MoneyInv == Reads /\ Books

(* A commit on s leaves the books of the other sagas alone, and what it     *)
(* does to the book of s matters only if it was not overtaken.              *)
LEMMA BooksAfterMove ==
    ASSUME TypeOK, Books, NEW s \in Sagas, NEW from, NEW to, Moves(s, from, to),
           \A r \in Sagas : r # s => ledger'[r] = ledger[r],
           overtaken'[s] = 0 /\ BookOf(s) /\ state[s] \in from => BookOf(s)'
    PROVE  Books'
<1> SUFFICES ASSUME NEW r \in Sagas, overtaken'[r] = 0 PROVE BookOf(r)'
  BY DEF Books
<1>1. /\ overtaken \in [Sagas -> Nat] /\ state \in [Sagas -> State \cup {"absent"}]
  BY DEF TypeOK
<1>2. CASE r # s
  <2>1. BookOf(r) /\ state'[r] = state[r] /\ ledger'[r] = ledger[r]
    BY <1>1, <1>2 DEF Books, Moves, Overtakes
  <2> QED
    BY <2>1 DEF BookOf
<1>3. CASE r = s
  <2>1. overtaken[s] = 0 /\ state[s] \in from
    BY <1>1, <1>3 DEF Moves, Overtakes
  <2> QED
    BY <1>3, <2>1 DEF Books
<1> QED
  BY <1>2, <1>3

(* Every commit that was not overtaken leaves its saga's rows in the sums   *)
(* its state stands for.                                                    *)
LEMMA BooksStep ==
    ASSUME TypeOK, Reads, Books, [Next]_vars
    PROVE  Books'
<1>0. /\ ledger \in Book /\ state \in [Sagas -> State \cup {"absent"}]
      /\ overtaken \in [Sagas -> Nat]
  BY DEF TypeOK, Book
<1>a. \A s \in Sagas : Amount[s] \in Nat \ {0}
  BY AmountAssumption
<1>1. CASE LeavesMoney
  <2>1. CASE state' = state /\ overtaken' = overtaken
    BY <1>1, <2>1 DEF LeavesMoney, Books, BookOf
  <2>2. ASSUME NEW s \in Sagas, state[s] = "absent", overtaken' = overtaken,
               state' = [state EXCEPT ![s] = "pending"]
        PROVE  Books'
    BY <1>0, <1>1, <2>2 DEF LeavesMoney, Books, BookOf
  <2>3. ASSUME NEW s \in Sagas, Moves(s, {"pending"}, "reserved") PROVE Books'
    <3>1. ledger' = ledger /\ state'[s] = "reserved"
      BY <1>0, <1>1, <2>3 DEF LeavesMoney, Moves
    <3>2. BookOf(s) /\ state[s] \in {"pending"} => BookOf(s)'
      BY <3>1 DEF BookOf
    <3> QED
      BY <2>3, <3>1, <3>2, BooksAfterMove
  <2> QED
    BY <1>1, <2>1, <2>2, <2>3 DEF LeavesMoney
<1>2. ASSUME NEW s \in Sagas, NEW p, NEW es, Settles(s, p, es) PROVE Books'
  <2>1. /\ Moves(s, {"pending", "reserved"}, "charged") /\ state'[s] = "charged"
        /\ p \in Nat /\ p <= Amount[s] - Floor[s]
    BY <1>0, <1>2 DEF Settles, Moves
  <2>2. /\ ledger'[s]["charge"] = ledger[s]["charge"] - Amount[s]
        /\ ledger'[s]["refund_partial"] = ledger[s]["refund_partial"] + p
        /\ \A k \in Kinds \ {"charge", "refund_partial"} : ledger'[s][k] = ledger[s][k]
        /\ \A r \in Sagas : r # s => ledger'[r] = ledger[r]
    BY <1>2, <2>1, ChargePosted DEF Settles
  <2>3. ASSUME BookOf(s), state[s] \in {"pending", "reserved"} PROVE BookOf(s)'
    <3>0. \A k \in Kinds : ledger[s][k] = 0
      BY <2>3 DEF BookOf
    <3>1. /\ ledger'[s]["charge"] = -Amount[s] /\ ledger'[s]["refund_partial"] = p
          /\ ledger'[s]["topup"] = 0 /\ ledger'[s]["refund"] = 0
          /\ ledger'[s]["refund_reversal"] = 0
      BY <1>a, <2>1, <2>2, <3>0 DEF Kinds
    <3> QED
      BY <2>1, <3>1 DEF BookOf
  <2> QED
    BY <2>1, <2>2, <2>3, BooksAfterMove
<1>3. ASSUME NEW s \in Sagas, NEW es, Releases(s, es) PROVE Books'
  <2>1. Moves(s, {"reserved"}, "refunded") /\ state'[s] = "refunded"
    BY <1>0, <1>3 DEF Releases, Moves
  <2>2. /\ ledger'[s]["refund"] = ledger[s]["refund"] + Amount[s]
        /\ ledger'[s]["refund_reversal"] = ledger[s]["refund_reversal"] - Amount[s]
        /\ \A k \in Kinds \ {"refund", "refund_reversal"} : ledger'[s][k] = ledger[s][k]
        /\ \A r \in Sagas : r # s => ledger'[r] = ledger[r]
    BY <1>3, ReservationPosted DEF Releases
  <2>3. ASSUME BookOf(s), state[s] \in {"reserved"} PROVE BookOf(s)'
    <3>0. \A k \in Kinds : ledger[s][k] = 0
      BY <2>3 DEF BookOf
    <3>1. /\ ledger'[s]["charge"] = 0 /\ ledger'[s]["refund_partial"] = 0
          /\ ledger'[s]["topup"] = 0 /\ ledger'[s]["refund"] = Amount[s]
          /\ ledger'[s]["refund_reversal"] = -Amount[s]
      BY <1>a, <2>2, <3>0 DEF Kinds
    <3> QED
      BY <2>1, <3>1 DEF BookOf
  <2> QED
    BY <2>1, <2>2, <2>3, BooksAfterMove
<1>4. ASSUME NEW s \in Sagas, NEW p, NEW es, RollsBack(s, p, es) PROVE Books'
  <2>1. /\ Moves(s, {"charged"}, "rolled_back") /\ state'[s] = "rolled_back"
        /\ p \in Int
        /\ overtaken'[s] = 0 => p = ledger[s]["refund_partial"]
    BY <1>0, <1>4 DEF RollsBack, Moves
  <2>2. /\ ledger'[s]["refund"] = ledger[s]["refund"] + Amount[s]
        /\ ledger'[s]["refund_reversal"] = ledger[s]["refund_reversal"] - p
        /\ \A k \in Kinds \ {"refund", "refund_reversal"} : ledger'[s][k] = ledger[s][k]
        /\ \A r \in Sagas : r # s => ledger'[r] = ledger[r]
    BY <1>4, <2>1, RollbackPosted DEF RollsBack
  <2>3. ASSUME overtaken'[s] = 0, BookOf(s), state[s] \in {"charged"} PROVE BookOf(s)'
    <3>0. /\ ledger[s]["charge"] = -Amount[s] /\ ledger[s]["topup"] = 0
          /\ ledger[s]["refund"] = 0 /\ ledger[s]["refund_reversal"] = 0
          /\ p = ledger[s]["refund_partial"]
      BY <2>1, <2>3 DEF BookOf
    <3>1. /\ ledger'[s]["charge"] = -Amount[s] /\ ledger'[s]["refund_partial"] = p
          /\ ledger'[s]["topup"] = 0 /\ ledger'[s]["refund"] = Amount[s]
          /\ ledger'[s]["refund_reversal"] = -p
      BY <1>a, <2>1, <2>2, <3>0 DEF Kinds
    <3> QED
      BY <2>1, <3>1 DEF BookOf
  <2> QED
    BY <2>1, <2>2, <2>3, BooksAfterMove
<1>5. ASSUME NEW s \in Topups, confirm_topup(s) PROVE Books'
  <2>1. state[s] = "pending" /\ state'[s] = "completed" /\ s \in Sagas
    BY <1>0, <1>5 DEF confirm_topup, Sagas
  <2>2. /\ ledger'[s]["topup"] = Amount[s]
        /\ \A k \in Kinds \ {"topup"} : ledger'[s][k] = ledger[s][k]
        /\ \A r \in Sagas : r # s => ledger'[r] = ledger[r]
    BY <1>5, TopupPosted
  <2>3. Moves(s, {"pending"}, "completed")
    BY <1>5, ConfirmMoves
  <2>4. ASSUME BookOf(s), state[s] \in {"pending"} PROVE BookOf(s)'
    <3>1. \A k \in Kinds \ {"topup"} : ledger'[s][k] = 0
      BY <2>2, <2>4 DEF BookOf
    <3> QED
      BY <2>1, <2>2, <3>1 DEF BookOf
  <2> QED
    BY <2>1, <2>2, <2>3, <2>4, BooksAfterMove
<1> QED
  BY <1>1, <1>2, <1>3, <1>4, <1>5, StepKinds DEF MoneyStep

(* The inductive invariant holds, whatever requests overlap. *)
LEMMA MoneyInvariant == Spec => []MoneyInv
<1>1. Init => MoneyInv
  BY DEF Init, MoneyInv, Reads, Books, BookOf, Kinds
<1>2. TypeOK /\ TypeOK' /\ MoneyInv /\ [Next]_vars => MoneyInv'
  BY ReadsStep, BooksStep DEF MoneyInv
<1> QED
  BY <1>1, <1>2, TypeCorrect, PTL DEF Spec

(* Whatever requests overlap, the daily reconciliation can find drift only  *)
(* on a saga a commit of which was overtaken (LedgerMatchesState).          *)
THEOREM ReconciliationSafe == Spec => []LedgerMatchesState
<1>1. TypeOK /\ MoneyInv => LedgerMatchesState
  <2> SUFFICES ASSUME TypeOK, Books, NEW s \in Sagas, overtaken[s] = 0
               PROVE  Net(ledger[s]) \in expected_bounds(s, state[s])
    BY DEF LedgerMatchesState, MoneyInv
  <2>1. /\ Amount[s] \in Nat \ {0} /\ Floor[s] \in Nat /\ Floor[s] <= Amount[s]
        /\ state[s] \in State \cup {"absent"}
        /\ \A k \in Kinds : ledger[s][k] \in Int
    BY AmountAssumption, PriceAssumption DEF Floor, TypeOK
  <2>2. CASE state[s] \in {"absent", "pending", "reserved"}
    <3>1. Net(ledger[s]) = 0
      BY <2>1, <2>2 DEF Books, BookOf, Net, UsageTotal, Kinds
    <3> QED
      BY <2>2, <3>1 DEF expected_bounds
  <2>3. CASE state[s] = "charged"
    <3>1. Net(ledger[s]) = ledger[s]["refund_partial"] - Amount[s]
      BY <2>1, <2>3 DEF Books, BookOf, Net, UsageTotal, Kinds
    <3>2. 0 <= ledger[s]["refund_partial"] /\ ledger[s]["refund_partial"] <= Amount[s] - Floor[s]
          /\ ledger[s]["refund_partial"] \in Int
      BY <2>1, <2>3 DEF Books, BookOf, Kinds
    <3>3. Net(ledger[s]) \in (-Amount[s]) .. (-Floor[s])
      BY <2>1, <3>1, <3>2
    <3> QED
      BY <2>3, <3>3 DEF expected_bounds
  <2>4. CASE state[s] = "refunded"
    BY <2>1, <2>4 DEF Books, BookOf, Net, UsageTotal, Kinds, expected_bounds
  <2>5. CASE state[s] = "rolled_back"
    <3>0. /\ ledger[s]["charge"] = -Amount[s] /\ ledger[s]["topup"] = 0
          /\ ledger[s]["refund"] = Amount[s]
          /\ ledger[s]["refund_reversal"] = -ledger[s]["refund_partial"]
          /\ ledger[s]["refund_partial"] \in Int
      BY <2>1, <2>5 DEF Books, BookOf, Kinds
    <3>1. Net(ledger[s]) = 0
      BY <2>1, <3>0 DEF Net, UsageTotal
    <3> QED
      BY <2>5, <3>1 DEF expected_bounds
  <2>6. CASE state[s] = "completed"
    <3>1. Net(ledger[s]) = Amount[s] /\ s \in Topups
      BY <2>1, <2>6 DEF Books, BookOf, Net, UsageTotal, Kinds
    <3> QED
      BY <2>6, <3>1 DEF expected_bounds
  <2> QED
    BY <2>1, <2>2, <2>3, <2>4, <2>5, <2>6 DEF Books, BookOf, State
<1> QED
  BY <1>1, MoneyInvariant, TypeCorrect, PTL

(* The debits of a saga, counted: one for the reservation, which a saga     *)
(* that is not settled still has to spend, and one for each commit that was *)
(* overtaken.                                                               *)
Unsettled(s) == IF state[s] \in {"absent", "pending", "reserved"} THEN 1 ELSE 0

DebitsCounted ==
    \A s \in Sagas : outbox[s]["service_success"] + Unsettled(s) <= 1 + overtaken[s]

(* A commit on s that announces no debit, or one. *)
LEMMA CountAfterMove ==
    ASSUME TypeOK, DebitsCounted, NEW s \in Sagas, NEW from, NEW to, Moves(s, from, to),
           NEW d \in {0, 1}, outbox'[s]["service_success"] = outbox[s]["service_success"] + d,
           \A r \in Sagas : r # s => outbox'[r] = outbox[r],
           from \subseteq {"pending", "reserved", "charged"},
           to \in {"charged", "refunded", "rolled_back", "completed"},
           d = 1 => "charged" \notin from
    PROVE  DebitsCounted'
<1>1. /\ overtaken \in [Sagas -> Nat] /\ state \in [Sagas -> State \cup {"absent"}]
      /\ \A r \in Sagas : outbox[r]["service_success"] \in Nat
  BY DEF TypeOK, Events
<1>2. ASSUME NEW r \in Sagas, r # s
      PROVE  outbox'[r]["service_success"] + Unsettled(r)' <= 1 + overtaken'[r]
  <2>1. /\ outbox'[r] = outbox[r] /\ state'[r] = state[r] /\ overtaken'[r] = overtaken[r]
    BY <1>1, <1>2 DEF Moves, Overtakes
  <2> QED
    BY <2>1 DEF DebitsCounted, Unsettled
<1>3. outbox'[s]["service_success"] + Unsettled(s)' <= 1 + overtaken'[s]
  <2>1. /\ outbox[s]["service_success"] \in Nat /\ overtaken[s] \in Nat
        /\ outbox[s]["service_success"] + Unsettled(s) <= 1 + overtaken[s]
        /\ Unsettled(s) \in {0, 1} /\ Unsettled(s)' \in {0, 1}
    BY <1>1 DEF DebitsCounted, Unsettled
  <2>2. state'[s] = to /\ (d = 0 \/ d = 1)
    BY <1>1 DEF Moves
  <2>3. d = 1 => Unsettled(s)' = 0
    BY <2>2 DEF Unsettled
  <2>4. CASE overtaken'[s] = overtaken[s] + 1
    BY <2>1, <2>3, <2>4
  <2>5. CASE overtaken'[s] = overtaken[s]
    <3>1. state[s] \in from
      BY <2>5 DEF Moves
    <3>2. Unsettled(s)' = 0
      BY <2>2 DEF Unsettled
    <3>3. d = 1 => Unsettled(s) = 1
      BY <3>1 DEF Unsettled
    <3> QED
      BY <2>1, <2>2, <2>5, <3>2, <3>3
  <2> QED
    BY <2>4, <2>5 DEF Moves, Overtakes
<1> QED
  BY <1>2, <1>3 DEF DebitsCounted

(* No step debits a saga that has no debit left. *)
LEMMA CountStep ==
    ASSUME TypeOK, DebitsCounted, [Next]_vars
    PROVE  DebitsCounted'
<1>0. /\ state \in [Sagas -> State \cup {"absent"}]
      /\ \A r \in Sagas : outbox[r]["service_success"] \in Nat
      /\ "service_success" \in Events /\ "service_success" # "reserve"
  BY DEF TypeOK, Events
<1>1. CASE LeavesMoney
  <2>0. \A s \in Sagas : outbox'[s]["service_success"] = outbox[s]["service_success"]
    BY <1>0, <1>1 DEF LeavesMoney
  <2>1. CASE state' = state /\ overtaken' = overtaken
    BY <2>0, <2>1 DEF DebitsCounted, Unsettled
  <2>2. ASSUME NEW s \in Sagas, state[s] = "absent", overtaken' = overtaken,
               state' = [state EXCEPT ![s] = "pending"]
        PROVE  DebitsCounted'
    <3>1. \A r \in Sagas : Unsettled(r)' = Unsettled(r)
      BY <1>0, <2>2 DEF Unsettled
    <3> QED
      BY <2>0, <2>2, <3>1 DEF DebitsCounted
  <2>3. ASSUME NEW s \in Sagas, Moves(s, {"pending"}, "reserved") PROVE DebitsCounted'
    <3>1. \A r \in Sagas : Unsettled(r)' <= Unsettled(r) \/ overtaken'[r] = overtaken[r] + 1
      BY <1>0, <2>3 DEF Moves, Overtakes, Unsettled
    <3>2. \A r \in Sagas : overtaken'[r] \in {overtaken[r], overtaken[r] + 1}
      BY <2>3 DEF Moves, Overtakes
    <3>3. \A r \in Sagas : /\ overtaken[r] \in Nat
                          /\ Unsettled(r) \in {0, 1} /\ Unsettled(r)' \in {0, 1}
      BY DEF TypeOK, Unsettled
    <3> QED
      BY <1>0, <2>0, <3>1, <3>2, <3>3 DEF DebitsCounted
  <2> QED
    BY <1>1, <2>1, <2>2, <2>3 DEF LeavesMoney
<1>2. ASSUME NEW s \in Sagas, NEW p, NEW es, Settles(s, p, es) PROVE DebitsCounted'
  <2>1. /\ outbox'[s]["service_success"] = outbox[s]["service_success"] + 1
        /\ \A r \in Sagas : r # s => outbox'[r] = outbox[r]
    BY <1>0, <1>2, Announced DEF Settles
  <2> QED
    BY <1>2, <2>1, CountAfterMove DEF Settles
<1>3. ASSUME NEW s \in Sagas, NEW es, Releases(s, es) PROVE DebitsCounted'
  <2>1. /\ outbox'[s]["service_success"] = outbox[s]["service_success"] + 0
        /\ \A r \in Sagas : r # s => outbox'[r] = outbox[r]
    BY <1>0, <1>3, Announced DEF Releases
  <2> QED
    BY <1>3, <2>1, CountAfterMove DEF Releases
<1>4. ASSUME NEW s \in Sagas, NEW p, NEW es, RollsBack(s, p, es) PROVE DebitsCounted'
  <2>1. /\ outbox'[s]["service_success"] = outbox[s]["service_success"] + 0
        /\ \A r \in Sagas : r # s => outbox'[r] = outbox[r]
    BY <1>0, <1>4, Announced DEF RollsBack
  <2> QED
    BY <1>4, <2>1, CountAfterMove DEF RollsBack
<1>5. ASSUME NEW s \in Topups, confirm_topup(s) PROVE DebitsCounted'
  <2>1. s \in Sagas /\ Moves(s, {"pending"}, "completed")
    BY <1>5, ConfirmMoves
  <2>2. /\ outbox'[s]["service_success"] = outbox[s]["service_success"] + 0
        /\ \A r \in Sagas : r # s => outbox'[r] = outbox[r]
    BY <1>0, <1>5, <2>1, Announced DEF confirm_topup
  <2> QED
    BY <2>1, <2>2, CountAfterMove
<1> QED
  BY <1>1, <1>2, <1>3, <1>4, <1>5, StepKinds DEF MoneyStep

LEMMA DebitsAlwaysCounted == Spec => []DebitsCounted
<1>1. Init => DebitsCounted
  BY DEF Init, DebitsCounted, Unsettled, Events
<1>2. TypeOK /\ DebitsCounted /\ [Next]_vars => DebitsCounted'
  BY CountStep
<1> QED
  BY <1>1, <1>2, TypeCorrect, PTL DEF Spec

(* A product grows with its factor. *)
LEMMA Larger ==
    ASSUME NEW a \in Nat, NEW m \in Nat, NEW n \in Nat, m <= n
    PROVE  a * m <= a * n /\ a * m \in Nat /\ a * n \in Nat
OBVIOUS

(* However many requests overlap, time out or are repeated, a saga is       *)
(* debited once and once more at most for each commit on it that was        *)
(* overtaken (DebitsBoundedByOvertaking): a saga on which apply never uses  *)
(* a stale object is debited once.                                          *)
THEOREM DebitsBounded == Spec => []DebitsBoundedByOvertaking
<1>1. TypeOK /\ LedgerMatchesOutbox /\ DebitsCounted => DebitsBoundedByOvertaking
  <2> SUFFICES ASSUME TypeOK, LedgerMatchesOutbox, DebitsCounted, NEW s \in Sagas
               PROVE  ledger[s]["charge"] >= -(Amount[s] * (1 + overtaken[s]))
    BY DEF DebitsBoundedByOvertaking
  <2> DEFINE n == outbox[s]["service_success"]
             m == 1 + overtaken[s]
  <2>1. n \in Nat /\ m \in Nat /\ Amount[s] \in Nat
    BY AmountAssumption DEF TypeOK, Events
  <2>2. n <= m
    <3>1. Unsettled(s) \in {0, 1}
      BY DEF Unsettled
    <3> QED
      BY <2>1, <3>1 DEF DebitsCounted
  <2>3. ledger[s]["charge"] = -(Amount[s] * n)
    BY DEF LedgerMatchesOutbox
  <2> HIDE DEF n, m
  <2>4. Amount[s] * n <= Amount[s] * m /\ Amount[s] * n \in Nat /\ Amount[s] * m \in Nat
    BY <2>1, <2>2, Larger
  <2>5. ledger[s]["charge"] >= -(Amount[s] * m)
    BY <2>3, <2>4
  <2> QED
    BY <2>5 DEF m
<1> QED
  BY <1>1, DebitsAlwaysCounted, DualWriteSafe, TypeCorrect, PTL

(* A commit that was not overtaken leaves no terminal state, and moves no   *)
(* money of a saga that is in one (TerminalStickiness).                     *)
THEOREM TerminalSafe == Spec => TerminalStickiness
<1>1. TypeOK /\ [Next]_vars =>
        \A s \in Sagas : state[s] \in TERMINAL_STATES /\ overtaken'[s] = overtaken[s]
            => state'[s] = state[s] /\ ledger'[s] = ledger[s]
  <2> SUFFICES ASSUME TypeOK, [Next]_vars, NEW r \in Sagas, state[r] \in TERMINAL_STATES,
                      overtaken'[r] = overtaken[r]
               PROVE  state'[r] = state[r] /\ ledger'[r] = ledger[r]
    OBVIOUS
  <2>0. state \in [Sagas -> State \cup {"absent"}]
    BY DEF TypeOK
  <2>1. ASSUME NEW s \in Sagas, NEW from, NEW to, Moves(s, from, to),
               from \cap TERMINAL_STATES = {}
        PROVE  r # s /\ state'[r] = state[r]
    BY <2>0, <2>1 DEF Moves
  <2>2. CASE LeavesMoney
    BY <2>0, <2>1, <2>2 DEF LeavesMoney, TERMINAL_STATES
  <2>3. ASSUME NEW s \in Sagas, NEW p, NEW es, Settles(s, p, es)
        PROVE  state'[r] = state[r] /\ ledger'[r] = ledger[r]
    BY <2>1, <2>3, ChargePosted DEF Settles, TERMINAL_STATES
  <2>4. ASSUME NEW s \in Sagas, NEW es, Releases(s, es)
        PROVE  state'[r] = state[r] /\ ledger'[r] = ledger[r]
    BY <2>1, <2>4, ReservationPosted DEF Releases, TERMINAL_STATES
  <2>5. ASSUME NEW s \in Sagas, NEW p, NEW es, RollsBack(s, p, es)
        PROVE  state'[r] = state[r] /\ ledger'[r] = ledger[r]
    BY <2>1, <2>5, RollbackPosted DEF RollsBack, TERMINAL_STATES
  <2>6. ASSUME NEW s \in Topups, confirm_topup(s)
        PROVE  state'[r] = state[r] /\ ledger'[r] = ledger[r]
    <3>1. s # r
      BY <2>6 DEF confirm_topup, TERMINAL_STATES
    <3> QED
      BY <2>0, <2>6, <3>1, TopupPosted DEF confirm_topup
  <2> QED
    BY <2>2, <2>3, <2>4, <2>5, <2>6, StepKinds DEF MoneyStep
<1>2. TypeOK /\ [Next]_vars =>
        [\A s \in Sagas : state[s] \in TERMINAL_STATES /\ overtaken'[s] = overtaken[s]
            => state'[s] = state[s] /\ ledger'[s] = ledger[s]]_vars
  BY <1>1
<1> QED
  BY <1>2, TypeCorrect, PTL DEF Spec, TerminalStickiness

-----------------------------------------------------------------------------
(* The refinement of ChargeContract, step by step.                          *)

(* The phase each state stands for. *)
LEMMA Phases ==
    /\ PhaseOf("absent") = "none"
    /\ PhaseOf("pending") = "open" /\ PhaseOf("reserved") = "open"
    /\ PhaseOf("charged") = "settled"
    /\ PhaseOf("refunded") = "released" /\ PhaseOf("rolled_back") = "released"
    /\ PhaseOf("completed") = "credited"
BY DEF PhaseOf

(* A step that moves one saga moves that saga's phase and payment. *)
LEMMA ContractMoves ==
    ASSUME TypeOK, NEW s \in Sagas, NEW from, NEW to, Moves(s, from, to),
           \A r \in Sagas : r # s => ledger'[r] = ledger[r]
    PROVE  /\ ContractPhase' = [ContractPhase EXCEPT ![s] =
                                  IF overtaken'[s] = 0 THEN PhaseOf(to) ELSE "disputed"]
           /\ ContractPaid' = [ContractPaid EXCEPT ![s] =
                                  IF overtaken'[s] = 0 THEN -Net(ledger'[s]) ELSE 0]
<1>1. /\ state'[s] = to
      /\ \A r \in Sagas : r # s => /\ state'[r] = state[r] /\ overtaken'[r] = overtaken[r]
                                   /\ ledger'[r] = ledger[r]
  BY DEF Moves, Overtakes, TypeOK
<1>2. ContractPhase' = [ContractPhase EXCEPT ![s] =
                          IF overtaken'[s] = 0 THEN PhaseOf(to) ELSE "disputed"]
  <2>1. ContractPhase' = [r \in Sagas |-> IF overtaken'[r] = 0 THEN PhaseOf(state'[r])
                                          ELSE "disputed"]
    BY DEF ContractPhase
  <2> QED
    BY <1>1, <2>1 DEF ContractPhase
<1>3. ContractPaid' = [ContractPaid EXCEPT ![s] =
                          IF overtaken'[s] = 0 THEN -Net(ledger'[s]) ELSE 0]
  <2>1. ContractPaid' = [r \in Sagas |-> IF overtaken'[r] = 0 THEN -Net(ledger'[r]) ELSE 0]
    BY DEF ContractPaid
  <2> QED
    BY <1>1, <2>1 DEF ContractPaid
<1> QED
  BY <1>2, <1>3

(* A commit that was overtaken disputes the saga; once it is disputed, the  *)
(* contract does not see what happens to it.                                *)
LEMMA DisputeStep ==
    ASSUME TypeOK, Reads, NEW s \in Sagas, NEW from, NEW to, Moves(s, from, to),
           \A r \in Sagas : r # s => ledger'[r] = ledger[r], overtaken'[s] # 0
    PROVE  [Contract!Next]_(Contract!contractVars)
<1>1. /\ ContractPhase' = [ContractPhase EXCEPT ![s] = "disputed"]
      /\ ContractPaid' = [ContractPaid EXCEPT ![s] = 0]
  BY ContractMoves
<1>2. CASE overtaken[s] = 0
  <2>1. state[s] \in State
    BY DEF Moves, TypeOK
  <2>2. ContractPhase[s] \notin {"none", "disputed"}
    BY <1>2, <2>1, Phases DEF ContractPhase, State, PhaseOf
  <2>3. Contract!Dispute(s)
    BY <1>1, <2>2 DEF Contract!Dispute
  <2> QED
    BY <2>3 DEF Contract!Next
<1>3. CASE overtaken[s] # 0
  <2>1. ContractPhase[s] = "disputed" /\ ContractPaid[s] = 0
    BY <1>3 DEF ContractPhase, ContractPaid
  <2>2. ContractPhase' = ContractPhase /\ ContractPaid' = ContractPaid
    BY <1>1, <2>1 DEF ContractPhase, ContractPaid
  <2> QED
    BY <2>2 DEF Contract!contractVars
<1> QED
  BY <1>2, <1>3

(* A commit that was not overtaken, on a saga none of whose commits was. *)
LEMMA UndisputedMove ==
    ASSUME TypeOK, NEW s \in Sagas, NEW from, NEW to, Moves(s, from, to),
           \A r \in Sagas : r # s => ledger'[r] = ledger[r], overtaken'[s] = 0
    PROVE  /\ state[s] \in from /\ state'[s] = to
           /\ ContractPhase[s] = PhaseOf(state[s])
           /\ ContractPhase' = [ContractPhase EXCEPT ![s] = PhaseOf(to)]
           /\ ContractPaid' = [ContractPaid EXCEPT ![s] = -Net(ledger'[s])]
<1>1. overtaken[s] = 0 /\ overtaken'[s] = overtaken[s] /\ state'[s] = to
  BY DEF Moves, Overtakes, TypeOK
<1>2. /\ ContractPhase' = [ContractPhase EXCEPT ![s] = PhaseOf(to)]
      /\ ContractPaid' = [ContractPaid EXCEPT ![s] = -Net(ledger'[s])]
  BY ContractMoves
<1> QED
  BY <1>1, <1>2 DEF Moves, ContractPhase

(* What the rows of a saga come to, from the book of its state. *)
PaidAsStated ==
    \A s \in Sagas : overtaken[s] = 0 =>
        /\ state[s] \in {"refunded", "rolled_back"} => Net(ledger[s]) = 0
        /\ state[s] = "charged" => -Net(ledger[s]) \in Floor[s] .. Amount[s]
        /\ state[s] = "completed" => Net(ledger[s]) = Amount[s]

(* The books say what is paid. *)
LEMMA PaidInState == TypeOK /\ Books => PaidAsStated
<1> SUFFICES ASSUME TypeOK, Books, NEW s \in Sagas, overtaken[s] = 0
             PROVE  /\ state[s] \in {"refunded", "rolled_back"} => Net(ledger[s]) = 0
                    /\ state[s] = "charged" => -Net(ledger[s]) \in Floor[s] .. Amount[s]
                    /\ state[s] = "completed" => Net(ledger[s]) = Amount[s]
  BY DEF PaidAsStated
<1>1. /\ Amount[s] \in Nat \ {0} /\ Floor[s] \in Nat /\ Floor[s] <= Amount[s]
      /\ \A k \in Kinds : ledger[s][k] \in Int
  BY AmountAssumption, PriceAssumption DEF Floor, TypeOK
<1>2. BookOf(s)
  BY DEF Books
<1>3. ASSUME state[s] = "refunded" PROVE Net(ledger[s]) = 0
  <2>1. /\ ledger[s]["charge"] = 0 /\ ledger[s]["topup"] = 0
        /\ ledger[s]["refund_partial"] = 0
        /\ ledger[s]["refund"] = Amount[s] /\ ledger[s]["refund_reversal"] = -Amount[s]
    BY <1>2, <1>3 DEF BookOf
  <2> QED
    BY <1>1, <2>1 DEF Net, UsageTotal
<1>4. ASSUME state[s] = "rolled_back" PROVE Net(ledger[s]) = 0
  <2>1. /\ ledger[s]["charge"] = -Amount[s] /\ ledger[s]["topup"] = 0
        /\ ledger[s]["refund"] = Amount[s]
        /\ ledger[s]["refund_reversal"] = -ledger[s]["refund_partial"]
        /\ ledger[s]["refund_partial"] \in Int
    BY <1>1, <1>2, <1>4 DEF BookOf, Kinds
  <2> QED
    BY <1>1, <2>1 DEF Net, UsageTotal
<1>5. ASSUME state[s] = "charged" PROVE -Net(ledger[s]) \in Floor[s] .. Amount[s]
  <2>1. Net(ledger[s]) = ledger[s]["refund_partial"] - Amount[s]
    BY <1>1, <1>5 DEF Books, BookOf, Net, UsageTotal, Kinds
  <2>2. /\ 0 <= ledger[s]["refund_partial"] /\ ledger[s]["refund_partial"] <= Amount[s] - Floor[s]
        /\ ledger[s]["refund_partial"] \in Int
    BY <1>1, <1>5 DEF Books, BookOf, Kinds
  <2> QED
    BY <1>1, <2>1, <2>2
<1>6. ASSUME state[s] = "completed" PROVE Net(ledger[s]) = Amount[s]
  BY <1>1, <1>6 DEF Books, BookOf, Net, UsageTotal, Kinds
<1> QED
  BY <1>3, <1>4, <1>5, <1>6

(* The same after a step. *)
LEMMA PaidAfterStep == TypeOK' /\ Books' => PaidAsStated'
BY PaidInState, PTL

(* Every step of a handler is a step of the contract, or none. *)
LEMMA ContractStep ==
    ASSUME TypeOK, TypeOK', Reads, Books', [Next]_vars
    PROVE  [Contract!Next]_(Contract!contractVars)
<1> DEFINE Goal == [Contract!Next]_(Contract!contractVars)
<1>0. state \in [Sagas -> State \cup {"absent"}] /\ overtaken \in [Sagas -> Nat]
  BY DEF TypeOK
<1>a. PaidAsStated'
  BY PaidAfterStep
<1>1. CASE LeavesMoney
  <2>1. CASE state' = state /\ overtaken' = overtaken
    <3>1. ContractPhase' = ContractPhase /\ ContractPaid' = ContractPaid
      BY <1>1, <2>1 DEF LeavesMoney, ContractPhase, ContractPaid
    <3> QED
      BY <3>1 DEF Contract!contractVars
  <2>2. ASSUME NEW s \in Sagas, state[s] = "absent", overtaken' = overtaken,
               state' = [state EXCEPT ![s] = "pending"]
        PROVE  Goal
    <3>1. ContractPaid' = ContractPaid
      BY <1>1, <2>2 DEF LeavesMoney, ContractPaid
    <3>2. CASE overtaken[s] = 0
      <4>1. \A r \in Sagas :
                ContractPhase'[r] = IF r = s THEN "open" ELSE ContractPhase[r]
        BY <1>0, <2>2, <3>2, Phases DEF ContractPhase
      <4>2. ContractPhase' = [ContractPhase EXCEPT ![s] = "open"]
        BY <4>1 DEF ContractPhase
      <4>3. Contract!Open(s)
        BY <2>2, <3>1, <3>2, <4>2, Phases DEF Contract!Open, ContractPhase
      <4> QED
        BY <4>3 DEF Contract!Next
    <3>3. CASE overtaken[s] # 0
      <4>1. \A r \in Sagas : state'[r] = IF r = s THEN "pending" ELSE state[r]
        BY <1>0, <2>2
      <4>2. ContractPhase' = ContractPhase
        BY <2>2, <3>3, <4>1 DEF ContractPhase
      <4> QED
        BY <3>1, <4>2 DEF Contract!contractVars
    <3> QED
      BY <3>2, <3>3
  <2>3. ASSUME NEW s \in Sagas, Moves(s, {"pending"}, "reserved"), overtaken'[s] = 0
        PROVE  Goal
    <3>1. \A r \in Sagas : r # s => ledger'[r] = ledger[r]
      BY <1>1 DEF LeavesMoney
    <3>2. /\ state[s] = "pending" /\ ContractPhase[s] = PhaseOf(state[s])
          /\ ContractPhase' = [ContractPhase EXCEPT ![s] = PhaseOf("reserved")]
      BY <2>3, <3>1, UndisputedMove
    <3>3. ContractPhase' = ContractPhase
      BY <3>2, Phases DEF ContractPhase
    <3>4. overtaken' = overtaken
      BY <1>0, <2>3 DEF Moves, Overtakes
    <3>5. ContractPaid' = ContractPaid
      BY <1>1, <3>4 DEF LeavesMoney, ContractPaid
    <3> QED
      BY <3>3, <3>5 DEF Contract!contractVars
  <2>4. ASSUME NEW s \in Sagas, Moves(s, {"pending"}, "reserved"), overtaken'[s] # 0
        PROVE  Goal
    BY <1>1, <2>4, DisputeStep DEF LeavesMoney
  <2> QED
    BY <1>1, <2>1, <2>2, <2>3, <2>4 DEF LeavesMoney
<1>2. ASSUME NEW s \in Sagas, NEW p, NEW es, Settles(s, p, es) PROVE Goal
  <2>1. Moves(s, {"pending", "reserved"}, "charged")
        /\ \A r \in Sagas : r # s => ledger'[r] = ledger[r]
    BY <1>2, ChargePosted DEF Settles
  <2>2. CASE overtaken'[s] = 0
    <3>1. /\ state[s] \in {"pending", "reserved"} /\ state'[s] = "charged"
          /\ ContractPhase[s] = PhaseOf(state[s])
          /\ ContractPhase' = [ContractPhase EXCEPT ![s] = PhaseOf("charged")]
          /\ ContractPaid' = [ContractPaid EXCEPT ![s] = -Net(ledger'[s])]
      BY <2>1, <2>2, UndisputedMove
    <3>2. -Net(ledger'[s]) \in Floor[s] .. Amount[s]
      BY <1>a, <2>2, <3>1 DEF PaidAsStated
    <3>3. Contract!Settle(s)
      BY <3>1, <3>2, Phases DEF Contract!Settle
    <3> QED
      BY <3>3 DEF Contract!Next
  <2> QED
    BY <2>1, <2>2, DisputeStep
<1>3. ASSUME NEW s \in Sagas, NEW es, Releases(s, es) PROVE Goal
  <2>1. Moves(s, {"reserved"}, "refunded")
        /\ \A r \in Sagas : r # s => ledger'[r] = ledger[r]
    BY <1>3, ReservationPosted DEF Releases
  <2>2. CASE overtaken'[s] = 0
    <3>1. /\ state[s] = "reserved" /\ state'[s] = "refunded"
          /\ ContractPhase[s] = PhaseOf(state[s])
          /\ ContractPhase' = [ContractPhase EXCEPT ![s] = PhaseOf("refunded")]
          /\ ContractPaid' = [ContractPaid EXCEPT ![s] = -Net(ledger'[s])]
      BY <2>1, <2>2, UndisputedMove
    <3>2. -Net(ledger'[s]) = 0
      BY <1>a, <2>2, <3>1 DEF PaidAsStated
    <3>3. Contract!Release(s)
      BY <3>1, <3>2, Phases DEF Contract!Release
    <3> QED
      BY <3>3 DEF Contract!Next
  <2> QED
    BY <2>1, <2>2, DisputeStep
<1>4. ASSUME NEW s \in Sagas, NEW p, NEW es, RollsBack(s, p, es) PROVE Goal
  <2>1. Moves(s, {"charged"}, "rolled_back")
        /\ \A r \in Sagas : r # s => ledger'[r] = ledger[r]
    BY <1>4, RollbackPosted DEF RollsBack
  <2>2. CASE overtaken'[s] = 0
    <3>1. /\ state[s] = "charged" /\ state'[s] = "rolled_back"
          /\ ContractPhase[s] = PhaseOf(state[s])
          /\ ContractPhase' = [ContractPhase EXCEPT ![s] = PhaseOf("rolled_back")]
          /\ ContractPaid' = [ContractPaid EXCEPT ![s] = -Net(ledger'[s])]
      BY <2>1, <2>2, UndisputedMove
    <3>2. -Net(ledger'[s]) = 0
      BY <1>a, <2>2, <3>1 DEF PaidAsStated
    <3>3. Contract!Release(s)
      BY <3>1, <3>2, Phases DEF Contract!Release
    <3> QED
      BY <3>3 DEF Contract!Next
  <2> QED
    BY <2>1, <2>2, DisputeStep
<1>5. ASSUME NEW s \in Topups, confirm_topup(s) PROVE Goal
  <2>1. /\ Moves(s, {"pending"}, "completed") /\ s \in Sagas
        /\ \A r \in Sagas : r # s => ledger'[r] = ledger[r]
    BY <1>5, ConfirmMoves, TopupPosted
  <2>2. CASE overtaken'[s] = 0
    <3>1. /\ state[s] = "pending" /\ state'[s] = "completed"
          /\ ContractPhase[s] = PhaseOf(state[s])
          /\ ContractPhase' = [ContractPhase EXCEPT ![s] = PhaseOf("completed")]
          /\ ContractPaid' = [ContractPaid EXCEPT ![s] = -Net(ledger'[s])]
      BY <2>1, <2>2, UndisputedMove
    <3>2. -Net(ledger'[s]) = -Amount[s]
      BY <1>a, <2>1, <2>2, <3>1 DEF PaidAsStated
    <3>3. Contract!Credit(s)
      BY <3>1, <3>2, Phases DEF Contract!Credit
    <3> QED
      BY <2>1, <3>3 DEF Contract!Next
  <2> QED
    BY <2>1, <2>2, DisputeStep
<1> QED
  BY <1>1, <1>2, <1>3, <1>4, <1>5, StepKinds DEF MoneyStep

(* Whatever requests overlap, the handlers implement the contract           *)
(* (ImplementsContract): a charge is settled once, for no more than was     *)
(* reserved, and released at most once and to zero, until a commit on it is *)
(* overtaken, which disputes this saga and no other.                        *)
THEOREM ContractImplemented == Spec => ImplementsContract
<1>1. Init => Contract!Init
  <2> SUFFICES ASSUME Init PROVE Contract!Init
    OBVIOUS
  <2>1. ContractPhase = [s \in Sagas |-> "none"]
    BY Phases DEF Init, ContractPhase
  <2>2. ContractPaid = [s \in Sagas |-> 0]
    <3>1. \A s \in Sagas : -Net(ledger[s]) = 0
      <4> SUFFICES ASSUME NEW s \in Sagas PROVE -Net(ledger[s]) = 0
        OBVIOUS
      <4>1. \A k \in Kinds : ledger[s][k] = 0
        BY DEF Init
      <4> QED
        BY <4>1 DEF Net, UsageTotal, Kinds
    <3> QED
      BY <3>1 DEF ContractPaid
  <2> QED
    BY <2>1, <2>2 DEF Contract!Init
<1>2. TypeOK /\ TypeOK' /\ MoneyInv /\ MoneyInv' /\ [Next]_vars
        => [Contract!Next]_(Contract!contractVars)
  BY ContractStep DEF MoneyInv
<1> QED
  BY <1>1, <1>2, TypeCorrect, MoneyInvariant, PTL
     DEF Spec, ImplementsContract, Contract!Spec
-----------------------------------------------------------------------------
(* Sums over the sagas.  MapThenSumSet takes one element after another out  *)
(* of the set and adds what it maps to; the lemmas say that the recursion   *)
(* has a solution for a finite set and what a change of one term does.  The *)
(* provers have no induction: a least counterexample takes its place.       *)
Pick(T) == CHOOSE x \in T : TRUE

IsSum(f, u, D) ==
    f = [T \in D |-> IF T = {} THEN 0 ELSE u[Pick(T)] + f[T \ {Pick(T)}]]

(* A set of numbers has a least one. *)
LEMMA LeastNumber ==
    ASSUME NEW N \in SUBSET Nat, N # {}
    PROVE  \E n \in N : \A m \in N : n <= m
<1>1. PICK n \in N : \A m \in N : <<m, n>> \notin OpToRel(<, Nat)
  BY NatLessThanWellFounded, WFMin
<1>2. \A m \in N : ~(m < n)
  BY <1>1 DEF OpToRel
<1> QED
  BY <1>2

(* A family of finite sets has a smallest member: none is left when one     *)
(* element of it is taken out.                                              *)
LEMMA SmallestSet ==
    ASSUME NEW S, IsFiniteSet(S), NEW F \in SUBSET (SUBSET S), F # {}
    PROVE  \E T \in F : \A x \in T : T \ {x} \notin F
<1>0. \A T \in F : IsFiniteSet(T) /\ Cardinality(T) \in Nat
  BY FS_Subset, FS_CardinalityType
<1> DEFINE N == {Cardinality(T) : T \in F}
<1>1. N \in SUBSET Nat /\ N # {}
  BY <1>0
<1> HIDE DEF N
<1>2. PICK n \in N : \A m \in N : n <= m
  BY <1>1, LeastNumber
<1>3. PICK T \in F : n = Cardinality(T)
  BY <1>2 DEF N
<1>4. ASSUME NEW x \in T, T \ {x} \in F PROVE FALSE
  <2>1. Cardinality(T \ {x}) = Cardinality(T) - 1
    BY <1>0, FS_RemoveElement
  <2>2. n <= Cardinality(T \ {x})
    BY <1>2, <1>4 DEF N
  <2> QED
    BY <1>0, <1>3, <2>1, <2>2
<1> QED
  BY <1>4

(* A set that is not empty loses the element that is picked. *)
LEMMA Picked ==
    ASSUME NEW T, T # {}
    PROVE  Pick(T) \in T
BY DEF Pick

(* The recursion has a solution on the subsets of at most n elements, for   *)
(* every n: the first n without one would follow one that has one.          *)
LEMMA SumExists ==
    ASSUME NEW S, IsFiniteSet(S), NEW u
    PROVE  \E f : IsSum(f, u, SUBSET S)
<1> DEFINE D(n) == {T \in SUBSET S : Cardinality(T) <= n}
           Missing == {n \in Nat : ~ \E f : IsSum(f, u, D(n))}
<1>0. /\ \A T \in SUBSET S : IsFiniteSet(T) /\ Cardinality(T) \in Nat
      /\ \A T \in SUBSET S : Cardinality(T) = 0 <=> T = {}
  BY FS_Subset, FS_CardinalityType, FS_EmptySet
<1>1. \E f : IsSum(f, u, D(0))
  <2>1. \A T \in D(0) : T = {}
    BY <1>0
  <2>2. [T \in D(0) |-> 0] = [T \in D(0) |-> IF T = {} THEN 0
              ELSE u[Pick(T)] + [R \in D(0) |-> 0][T \ {Pick(T)}]]
    BY <2>1
  <2> QED
    BY <2>2 DEF IsSum
<1>2. ASSUME NEW n \in Nat, NEW f, IsSum(f, u, D(n))
      PROVE  \E g : IsSum(g, u, D(n + 1))
  <2> DEFINE g == [T \in D(n + 1) |-> IF T = {} THEN 0 ELSE u[Pick(T)] + f[T \ {Pick(T)}]]
  <2>1. \A R \in D(n) : R \in D(n + 1) /\ g[R] = f[R]
    <3>1. \A R \in D(n) : R \in D(n + 1)
      BY <1>0
    <3>2. \A R \in D(n) : f[R] = IF R = {} THEN 0 ELSE u[Pick(R)] + f[R \ {Pick(R)}]
      BY <1>2, Zenon DEF IsSum
    <3> QED
      BY <3>1, <3>2, Zenon
  <2>2. \A T \in D(n + 1) : T # {} => T \ {Pick(T)} \in D(n)
    <3> SUFFICES ASSUME NEW T \in D(n + 1), T # {} PROVE T \ {Pick(T)} \in D(n)
      OBVIOUS
    <3>1. Pick(T) \in T
      BY Picked
    <3>2. Cardinality(T \ {Pick(T)}) = Cardinality(T) - 1
      BY <1>0, <3>1, FS_RemoveElement
    <3> QED
      BY <1>0, <3>2
  <2> HIDE DEF D
  <2>3. \A T \in D(n + 1) : g[T] = IF T = {} THEN 0 ELSE u[Pick(T)] + g[T \ {Pick(T)}]
    <3> SUFFICES ASSUME NEW T \in D(n + 1), T # {}
                 PROVE  g[T] = u[Pick(T)] + g[T \ {Pick(T)}]
      BY Zenon
    <3>1. g[T \ {Pick(T)}] = f[T \ {Pick(T)}]
      BY <2>1, <2>2, Zenon
    <3>2. g[T] = IF T = {} THEN 0 ELSE u[Pick(T)] + f[T \ {Pick(T)}]
      BY Zenon
    <3> HIDE DEF g
    <3> QED
      BY <3>1, <3>2
  <2>4. g = [T \in D(n + 1) |-> IF T = {} THEN 0 ELSE u[Pick(T)] + g[T \ {Pick(T)}]]
    BY <2>3
  <2> HIDE DEF g
  <2> QED
    BY <2>4 DEF IsSum
<1> HIDE DEF D
<1>3. Missing = {}
  <2> SUFFICES ASSUME Missing # {} PROVE FALSE
    OBVIOUS
  <2>1. PICK n \in Missing : \A m \in Missing : n <= m
    BY LeastNumber
  <2>2. n # 0
    BY <1>1
  <2>3. n - 1 \in Nat /\ ~(n <= n - 1) /\ (n - 1) + 1 = n
    BY <2>2
  <2>4. PICK f : IsSum(f, u, D(n - 1))
    BY <2>1, <2>3
  <2> QED
    BY <1>2, <2>3, <2>4
<1>4. \E f : IsSum(f, u, D(Cardinality(S)))
  BY <1>3, FS_CardinalityType
<1>5. D(Cardinality(S)) = SUBSET S
  BY FS_Subset DEF D
<1> QED
  BY <1>4, <1>5

(* What a solution says of one set. *)
LEMMA SumOf ==
    ASSUME NEW f, NEW u, NEW S, IsSum(f, u, SUBSET S)
    PROVE  /\ f[{}] = 0
           /\ \A T \in SUBSET S : T # {} =>
                f[T] = u[Pick(T)] + f[T \ {Pick(T)}]
<1>1. \A T \in SUBSET S : f[T] = IF T = {} THEN 0 ELSE u[Pick(T)] + f[T \ {Pick(T)}]
  BY Zenon DEF IsSum
<1> QED
  BY <1>1

(* A sum of integers is one. *)
LEMMA SumType ==
    ASSUME NEW f, NEW S, IsFiniteSet(S), NEW u \in [S -> Int], IsSum(f, u, SUBSET S)
    PROVE  \A T \in SUBSET S : f[T] \in Int
<1>0. /\ f[{}] = 0
      /\ \A T \in SUBSET S : T # {} => f[T] = u[Pick(T)] + f[T \ {Pick(T)}]
  BY SumOf, Zenon
<1> DEFINE F == {T \in SUBSET S : f[T] \notin Int}
<1> SUFFICES ASSUME F # {} PROVE FALSE
  OBVIOUS
<1>1. PICK T \in F : \A x \in T : T \ {x} \notin F
  BY SmallestSet
<1>2. T \in SUBSET S /\ f[T] \notin Int
  BY <1>1
<1>3. T # {}
  <2>1. f[{}] \in Int
    BY <1>0
  <2> QED
    BY <1>2, <2>1, Zenon
<1>4. f[T] = u[Pick(T)] + f[T \ {Pick(T)}]
  BY <1>0, <1>2, <1>3, Zenon
<1>5. Pick(T) \in T /\ u[Pick(T)] \in Int
  BY <1>2, <1>3, Picked
<1>6. f[T \ {Pick(T)}] \in Int
  BY <1>1, <1>5
<1> QED
  BY <1>2, <1>4, <1>5, <1>6

(* Two sums whose terms agree but for one differ by what that term does. *)
LEMMA SumDiffers ==
    ASSUME NEW S, IsFiniteSet(S), NEW u \in [S -> Int], NEW v \in [S -> Int],
           NEW f, IsSum(f, u, SUBSET S), NEW g, IsSum(g, v, SUBSET S),
           NEW a \in S, \A x \in S : x # a => v[x] = u[x]
    PROVE  g[S] = f[S] + (v[a] - u[a])
<1>f. /\ f[{}] = 0
      /\ \A T \in SUBSET S : T # {} => f[T] = u[Pick(T)] + f[T \ {Pick(T)}]
  BY SumOf, ZenonT(30)
<1>g. /\ g[{}] = 0
      /\ \A T \in SUBSET S : T # {} => g[T] = v[Pick(T)] + g[T \ {Pick(T)}]
  BY SumOf, ZenonT(30)
<1> DEFINE Shift(T) == IF a \in T THEN v[a] - u[a] ELSE 0
           F == {T \in SUBSET S : g[T] # f[T] + Shift(T)}
<1>1. F = {}
  <2> SUFFICES ASSUME F # {} PROVE FALSE
    OBVIOUS
  <2>1. PICK T \in F : \A x \in T : T \ {x} \notin F
    BY SmallestSet
  <2>2. T \in SUBSET S /\ g[T] # f[T] + Shift(T)
    BY <2>1
  <2>3. T # {}
    <3> SUFFICES ASSUME T = {} PROVE FALSE
      OBVIOUS
    <3>1. g[T] = 0 /\ f[T] = 0
      BY <1>f, <1>g, Zenon
    <3>2. Shift(T) = 0
      OBVIOUS
    <3> QED
      BY <2>2, <3>1, <3>2
  <2> DEFINE p == Pick(T)
             R == T \ {Pick(T)}
  <2>4. p \in T /\ p \in S /\ R \in SUBSET S
    BY <2>2, <2>3, Picked
  <2>5. f[T] = u[p] + f[R] /\ g[T] = v[p] + g[R]
    BY <1>f, <1>g, <2>2, <2>3, Zenon
  <2>6. g[R] = f[R] + Shift(R)
    BY <2>1, <2>4
  <2>7. f[R] \in Int /\ g[R] \in Int /\ u[p] \in Int /\ v[p] \in Int
        /\ u[a] \in Int /\ v[a] \in Int
    BY <2>4, SumType
  <2>8. p = a => Shift(R) = 0 /\ Shift(T) = v[a] - u[a]
    BY <2>4
  <2>9. p # a => Shift(R) = Shift(T) /\ v[p] = u[p]
    BY <2>4
  <2>10. Shift(T) \in Int
    BY <2>7
  <2> HIDE DEF p, R, Shift
  <2> QED
    BY <2>2, <2>5, <2>6, <2>7, <2>8, <2>9, <2>10
<1> QED
  BY <1>1

(* A sum of zeros is zero. *)
LEMMA SumOfZeros ==
    ASSUME NEW S, IsFiniteSet(S), NEW u, \A x \in S : u[x] = 0,
           NEW f, IsSum(f, u, SUBSET S)
    PROVE  f[S] = 0
<1>0. /\ f[{}] = 0
      /\ \A T \in SUBSET S : T # {} => f[T] = u[Pick(T)] + f[T \ {Pick(T)}]
  BY SumOf, Zenon
<1> DEFINE F == {T \in SUBSET S : f[T] # 0}
<1> SUFFICES ASSUME F # {} PROVE FALSE
  OBVIOUS
<1>1. PICK T \in F : \A x \in T : T \ {x} \notin F
  BY SmallestSet
<1>2. T \in SUBSET S /\ f[T] # 0
  BY <1>1
<1>3. T # {}
  BY <1>0, <1>2, Zenon
<1>4. f[T] = u[Pick(T)] + f[T \ {Pick(T)}]
  BY <1>0, <1>2, <1>3, Zenon
<1>5. Pick(T) \in T /\ u[Pick(T)] = 0
  BY <1>2, <1>3, Picked
<1>6. f[T \ {Pick(T)}] = 0
  BY <1>1, <1>5
<1> QED
  BY <1>2, <1>4, <1>5, <1>6
-----------------------------------------------------------------------------
(* The month's spend. *)
Usage(book) == [s \in Sagas |-> UsageTotal(book[s])]

LEMMA UsageType ==
    ASSUME NEW book \in Book
    PROVE  Usage(book) \in [Sagas -> Int]
<1>1. ASSUME NEW s \in Sagas PROVE UsageTotal(book[s]) \in Int
  <2>1. \A k \in Kinds : book[s][k] \in Int
    BY DEF Book
  <2> QED
    BY <2>1 DEF UsageTotal, Kinds
<1> QED
  BY <1>1 DEF Usage

(* It is a sum over the sagas of what their rows add up to. *)
LEMMA SpendIsSum ==
    ASSUME NEW book \in Book
    PROVE  \E f : /\ IsSum(f, Usage(book), SUBSET Sagas)
                  /\ f[Sagas] \in Int
                  /\ monthly_actual_spend(book) = IF f[Sagas] < 0 THEN -f[Sagas] ELSE 0
<1> DEFINE Recursion(f) ==
             f = [T \in SUBSET Sagas |-> IF T = {} THEN 0
                    ELSE UsageTotal(book[CHOOSE x \in T : TRUE])
                         + f[T \ {CHOOSE x \in T : TRUE}]]
           chosen == CHOOSE f : Recursion(f)
<1>1. ASSUME NEW f PROVE IsSum(f, Usage(book), SUBSET Sagas) <=> Recursion(f)
  <2>1. \A T \in SUBSET Sagas : T # {} => Pick(T) \in Sagas
    BY Picked
  <2>2. \A T \in SUBSET Sagas : T # {} => Usage(book)[Pick(T)] = UsageTotal(book[Pick(T)])
    BY <2>1 DEF Usage
  <2>3. [T \in SUBSET Sagas |-> IF T = {} THEN 0
                                ELSE Usage(book)[Pick(T)] + f[T \ {Pick(T)}]]
        = [T \in SUBSET Sagas |-> IF T = {} THEN 0
                                  ELSE UsageTotal(book[Pick(T)]) + f[T \ {Pick(T)}]]
    BY <2>2
  <2> QED
    BY <2>3, Zenon DEF IsSum, Pick
<1>2. \E f : Recursion(f)
  <2>1. PICK f : IsSum(f, Usage(book), SUBSET Sagas)
    BY SumExists, SagasAssumption
  <2> HIDE DEF Recursion
  <2> QED
    BY <1>1, <2>1
<1>3. Recursion(chosen)
  <2> HIDE DEF Recursion
  <2> QED
    BY <1>2, Zenon
<1>4. MapThenSumSet(LAMBDA s : UsageTotal(book[s]), Sagas) = chosen[Sagas]
  BY Zenon DEF MapThenSumSet, MapThenFoldSet
<1> HIDE DEF Recursion, chosen
<1>5. IsSum(chosen, Usage(book), SUBSET Sagas)
  BY <1>1, <1>3
<1>6. chosen[Sagas] \in Int
  BY <1>5, SumType, UsageType, SagasAssumption
<1>7. monthly_actual_spend(book)
        = IF chosen[Sagas] < 0 THEN -chosen[Sagas] ELSE 0
  BY <1>4, Zenon DEF monthly_actual_spend
<1> QED
  BY <1>5, <1>6, <1>7

LEMMA SpendType ==
    ASSUME NEW book \in Book
    PROVE  monthly_actual_spend(book) \in Nat
BY SpendIsSum

(* A handler that takes nothing more from one saga, and leaves the others   *)
(* alone, does not raise the spend.                                         *)
LEMMA SpendNotRaised ==
    ASSUME NEW book \in Book, NEW after \in Book, NEW s \in Sagas,
           UsageTotal(after[s]) >= UsageTotal(book[s]),
           \A r \in Sagas : r # s => after[r] = book[r]
    PROVE  monthly_actual_spend(after) <= monthly_actual_spend(book)
<1>1. PICK f : /\ IsSum(f, Usage(book), SUBSET Sagas)
               /\ f[Sagas] \in Int
               /\ monthly_actual_spend(book) = IF f[Sagas] < 0 THEN -f[Sagas] ELSE 0
  BY SpendIsSum
<1>2. PICK g : /\ IsSum(g, Usage(after), SUBSET Sagas)
               /\ g[Sagas] \in Int
               /\ monthly_actual_spend(after) = IF g[Sagas] < 0 THEN -g[Sagas] ELSE 0
  BY SpendIsSum
<1>3. Usage(book) \in [Sagas -> Int] /\ Usage(after) \in [Sagas -> Int]
  BY UsageType
<1>4. \A r \in Sagas : r # s => Usage(after)[r] = Usage(book)[r]
  BY DEF Usage
<1>5. Usage(after)[s] >= Usage(book)[s]
  BY DEF Usage
<1>6. g[Sagas] = f[Sagas] + (Usage(after)[s] - Usage(book)[s])
  BY <1>1, <1>2, <1>3, <1>4, SumDiffers, SagasAssumption
<1>7. Usage(after)[s] \in Int /\ Usage(book)[s] \in Int
  BY <1>3
<1> QED
  BY <1>1, <1>2, <1>5, <1>6, <1>7

(* The commits that do not evaluate the budget leave the spend or lower it: *)
(* what they give back was taken by the charge, which evaluated it.         *)
NotRaised == monthly_actual_spend(ledger') <= monthly_actual_spend(ledger)

LEMMA ReleaseNotRaised ==
    ASSUME TypeOK, NEW s \in Sagas, PostReleasedReservation(s)
    PROVE  NotRaised
<1>1. /\ ledger' \in Book /\ ledger \in Book
      /\ ledger'[s]["refund"] = ledger[s]["refund"] + Amount[s]
      /\ ledger'[s]["refund_reversal"] = ledger[s]["refund_reversal"] - Amount[s]
      /\ \A k \in Kinds \ {"refund", "refund_reversal"} : ledger'[s][k] = ledger[s][k]
      /\ \A r \in Sagas : r # s => ledger'[r] = ledger[r]
  BY ReservationPosted DEF TypeOK, Book
<1>2. /\ Amount[s] \in Int
      /\ \A k \in Kinds : ledger[s][k] \in Int
  BY <1>1, AmountAssumption DEF Book
<1>3. UsageTotal(ledger'[s]) >= UsageTotal(ledger[s])
  BY <1>1, <1>2 DEF UsageTotal, Kinds
<1> QED
  BY <1>1, <1>3, SpendNotRaised DEF NotRaised

LEMMA RollbackNotRaised ==
    ASSUME TypeOK, NEW s \in Sagas, NEW p \in Int, p <= Amount[s],
           PostRolledBackCharge(s, p)
    PROVE  NotRaised
<1>1. /\ ledger' \in Book /\ ledger \in Book
      /\ ledger'[s]["refund"] = ledger[s]["refund"] + Amount[s]
      /\ ledger'[s]["refund_reversal"] = ledger[s]["refund_reversal"] - p
      /\ \A k \in Kinds \ {"refund", "refund_reversal"} : ledger'[s][k] = ledger[s][k]
      /\ \A r \in Sagas : r # s => ledger'[r] = ledger[r]
  BY RollbackPosted DEF TypeOK, Book
<1>2. /\ Amount[s] \in Int
      /\ \A k \in Kinds : ledger[s][k] \in Int
  BY <1>1, AmountAssumption DEF Book
<1>3. UsageTotal(ledger'[s]) >= UsageTotal(ledger[s])
  BY <1>1, <1>2 DEF UsageTotal, Kinds
<1> QED
  BY <1>1, <1>3, SpendNotRaised DEF NotRaised

LEMMA TopupNotRaised ==
    ASSUME TypeOK, NEW s \in Topups, confirm_topup(s)
    PROVE  NotRaised
<1>1. /\ ledger' \in Book /\ ledger \in Book /\ s \in Sagas
      /\ \A k \in Kinds \ {"topup"} : ledger'[s][k] = ledger[s][k]
      /\ \A r \in Sagas : r # s => ledger'[r] = ledger[r]
  BY TopupPosted DEF TypeOK, Book, Sagas
<1>2. \A k \in Kinds : ledger[s][k] \in Int
  BY <1>1 DEF Book
<1>3. UsageTotal(ledger'[s]) >= UsageTotal(ledger[s])
  BY <1>1, <1>2 DEF UsageTotal, Kinds
<1> QED
  BY <1>1, <1>3, SpendNotRaised DEF NotRaised

(* A debit comes with one partial refund, which leaves the floor; as long   *)
(* as a saga was debited once, that is all there is to leave out of its     *)
(* full refund.  What a request read of it, the ledger still has.           *)
PartialsWithin ==
    /\ \A s \in Sagas :
          /\ ledger[s]["refund_partial"] >= 0
          /\ outbox[s]["service_success"] = 0 => ledger[s]["refund_partial"] = 0
          /\ outbox[s]["service_success"] <= 1 => ledger[s]["refund_partial"] <= Amount[s]
    /\ \A w \in Workers : req[w] # Idle /\ req[w].phase = "read" =>
          req[w].partial <= ledger[req[w].saga]["refund_partial"]

(* Debits and partial refunds only grow. *)
LEMMA RowsGrow ==
    ASSUME TypeOK, [Next]_vars, NEW r \in Sagas
    PROVE  /\ ledger'[r]["charge"] <= ledger[r]["charge"]
           /\ ledger'[r]["refund_partial"] >= ledger[r]["refund_partial"]
           /\ \/ /\ ledger'[r]["refund_partial"] = ledger[r]["refund_partial"]
                 /\ outbox'[r]["service_success"] = outbox[r]["service_success"]
              \/ \E p \in Nat :
                    /\ p <= Amount[r]
                    /\ ledger'[r]["refund_partial"] = ledger[r]["refund_partial"] + p
                    /\ outbox'[r]["service_success"] = outbox[r]["service_success"] + 1
<1> DEFINE Same == /\ ledger'[r]["charge"] = ledger[r]["charge"]
                   /\ ledger'[r]["refund_partial"] = ledger[r]["refund_partial"]
                   /\ outbox'[r]["service_success"] = outbox[r]["service_success"]
           Debited == \E p \in Nat :
                        /\ p <= Amount[r]
                        /\ ledger'[r]["charge"] = ledger[r]["charge"] - Amount[r]
                        /\ ledger'[r]["refund_partial"] = ledger[r]["refund_partial"] + p
                        /\ outbox'[r]["service_success"] = outbox[r]["service_success"] + 1
<1>0. /\ \A k \in Kinds : ledger[r][k] \in Int
      /\ "charge" \in Kinds /\ "refund_partial" \in Kinds
      /\ "service_success" \in Events /\ "service_success" # "reserve"
      /\ Amount[r] \in Nat /\ Floor[r] \in Nat
  BY AmountAssumption, PriceAssumption DEF TypeOK, Kinds, Events, Floor
<1>1. ASSUME LeavesMoney PROVE Same
  BY <1>0, <1>1 DEF LeavesMoney
<1>2. ASSUME NEW s \in Sagas, NEW p, NEW es, Settles(s, p, es) PROVE Same \/ Debited
  <2>1. CASE r # s
    BY <1>2, <2>1, ChargePosted, Announced DEF Settles
  <2>2. CASE r = s
    <3>1. /\ ledger'[r]["charge"] = ledger[r]["charge"] - Amount[r]
          /\ ledger'[r]["refund_partial"] = ledger[r]["refund_partial"] + p
      BY <1>2, <2>2, ChargePosted DEF Settles
    <3>2. outbox'[r]["service_success"] = outbox[r]["service_success"] + 1
      BY <1>0, <1>2, <2>2, Announced DEF Settles
    <3>3. p \in Nat /\ p <= Amount[r]
      BY <1>0, <1>2, <2>2 DEF Settles
    <3> QED
      BY <3>1, <3>2, <3>3
  <2> QED
    BY <2>1, <2>2
<1>3. ASSUME NEW s \in Sagas, NEW es, Releases(s, es) PROVE Same
  BY <1>0, <1>3, ReservationPosted, Announced DEF Releases, Kinds
<1>4. ASSUME NEW s \in Sagas, NEW p, NEW es, RollsBack(s, p, es) PROVE Same
  BY <1>0, <1>4, RollbackPosted, Announced DEF RollsBack, Kinds
<1>5. ASSUME NEW s \in Topups, confirm_topup(s) PROVE Same
  <2>1. s \in Sagas /\ Announce(s, {"topup_confirmed"})
    BY <1>5 DEF confirm_topup, Sagas
  <2>2. outbox'[r]["service_success"] = outbox[r]["service_success"]
    BY <1>0, <2>1, Announced
  <2>3. /\ \A k \in Kinds \ {"topup"} : ledger'[s][k] = ledger[s][k]
        /\ \A q \in Sagas : q # s => ledger'[q] = ledger[q]
    BY <1>5, TopupPosted
  <2>4. \A k \in Kinds \ {"topup"} : ledger'[r][k] = ledger[r][k]
    BY <2>3
  <2>5. "charge" \in Kinds \ {"topup"} /\ "refund_partial" \in Kinds \ {"topup"}
    BY DEF Kinds
  <2> QED
    BY <2>2, <2>4, <2>5
<1> HIDE DEF Same, Debited
<1>6. Same \/ Debited
  BY <1>1, <1>2, <1>3, <1>4, <1>5, StepKinds DEF MoneyStep
<1>7. CASE Same
  BY <1>0, <1>7 DEF Same
<1>8. CASE Debited
  BY <1>0, <1>8 DEF Debited
<1> QED
  BY <1>6, <1>7, <1>8

LEMMA PartialsStep ==
    ASSUME TypeOK, TypeOK', PartialsWithin, [Next]_vars
    PROVE  PartialsWithin'
<1>0. \A r \in Sagas : /\ ledger[r]["refund_partial"] \in Int
                       /\ ledger'[r]["refund_partial"] \in Int
                       /\ outbox[r]["service_success"] \in Nat /\ Amount[r] \in Nat
  BY AmountAssumption DEF TypeOK, Kinds, Events
<1>1. ASSUME NEW r \in Sagas
      PROVE  /\ ledger'[r]["refund_partial"] >= 0
             /\ outbox'[r]["service_success"] = 0 => ledger'[r]["refund_partial"] = 0
             /\ outbox'[r]["service_success"] <= 1 => ledger'[r]["refund_partial"] <= Amount[r]
  BY <1>0, RowsGrow DEF PartialsWithin
<1>2. ASSUME NEW v \in Workers, req'[v] # Idle, req'[v].phase = "read"
      PROVE  req'[v].partial <= ledger'[req'[v].saga]["refund_partial"]
  <2>1. req'[v] \in Requests
    BY <1>2 DEF TypeOK
  <2>2. CASE req'[v] = req[v]
    <3>1. req[v].saga \in Sagas /\ req[v].partial \in Int
      BY <2>1, <2>2 DEF Requests
    <3>2. req[v].partial <= ledger[req[v].saga]["refund_partial"]
      BY <1>2, <2>2 DEF PartialsWithin
    <3>3. ledger'[req[v].saga]["refund_partial"] >= ledger[req[v].saga]["refund_partial"]
      BY <3>1, RowsGrow
    <3> QED
      BY <1>0, <2>2, <3>1, <3>2, <3>3
  <2>3. CASE /\ ledger' = ledger /\ req'[v].saga = req[v].saga
             /\ req'[v].partial = ledger[req[v].saga]["refund_partial"]
    <3>1. req'[v].saga \in Sagas
      BY <2>1 DEF Requests
    <3> QED
      BY <1>0, <2>3, <3>1
  <2> QED
    BY <1>2, <2>2, <2>3, RequestMoves
<1> QED
  BY <1>1, <1>2 DEF PartialsWithin

LEMMA PartialsInvariant == Spec => []PartialsWithin
<1>1. Init => PartialsWithin
  <2> SUFFICES ASSUME Init PROVE PartialsWithin
    OBVIOUS
  <2>1. \A s \in Sagas : ledger[s]["refund_partial"] = 0 /\ Amount[s] \in Nat
    BY AmountAssumption DEF Init, Kinds
  <2> QED
    BY <2>1 DEF Init, PartialsWithin
<1>2. TypeOK /\ TypeOK' /\ PartialsWithin /\ [Next]_vars => PartialsWithin'
  BY PartialsStep
<1> QED
  BY <1>1, <1>2, TypeCorrect, PTL DEF Spec

(* What a rollback leaves out of the refund is at most what was debited, as *)
(* long as no saga was debited twice.                                       *)
LEMMA PartialWithinAmount ==
    ASSUME TypeOK, LedgerMatchesOutbox, PartialsWithin, NoDoubleCharge, NEW s \in Sagas
    PROVE  /\ ledger[s]["refund_partial"] \in Int
           /\ ledger[s]["refund_partial"] <= Amount[s]
<1> DEFINE n == outbox[s]["service_success"]
<1>1. ledger[s]["refund_partial"] \in Int /\ Amount[s] \in Nat \ {0} /\ n \in Nat
  BY AmountAssumption DEF TypeOK, Kinds, Events
<1>2. -(Amount[s] * n) >= -Amount[s]
  BY DEF LedgerMatchesOutbox, NoDoubleCharge
<1>3. n <= 1
  <2> HIDE DEF n
  <2> SUFFICES ASSUME ~(n <= 1) PROVE FALSE
    OBVIOUS
  <2>1. Amount[s] * 2 <= Amount[s] * n /\ Amount[s] * n \in Nat
    BY <1>1, Larger
  <2> QED
    BY <1>1, <1>2, <2>1
<1> QED
  BY <1>1, <1>3 DEF PartialsWithin

Controls == [limit : Limits, enabled : BOOLEAN, status : {"active", "paused"},
             events : SUBSET {"alerted", "paused"}]

(* A step evaluates the budget against the spend it leaves, or switches it  *)
(* off, or leaves the budget's row alone and does not raise the spend.      *)
Evaluates ==
    \E c \in Controls :
        control' = evaluate_budget_thresholds(c, monthly_actual_spend(ledger'))

BudgetStep ==
    \/ Evaluates
    \/ ~control'.enabled
    \/ control' = control /\ NotRaised

LEMMA BudgetSteps ==
    ASSUME TypeOK, TypeOK', LedgerMatchesOutbox, PartialsWithin, NoDoubleCharge, [Next]_vars
    PROVE  BudgetStep
<1>0. ledger \in Book /\ ledger' \in Book /\ control \in Controls
  BY DEF TypeOK, Book, Controls
<1>a. monthly_actual_spend(ledger) \in Nat
  BY <1>0, SpendType
<1>b. ledger' = ledger => NotRaised
  BY <1>a DEF NotRaised
<1>1. ASSUME NEW s \in Charges, create_charge(s) PROVE BudgetStep
  BY <1>1, <1>b DEF create_charge, BudgetStep
<1>2. ASSUME NEW s \in Charges, refund_user_cancel_charge(s) PROVE BudgetStep
  <2>1. s \in Sagas /\ control' = control
    BY <1>2 DEF Sagas, refund_user_cancel_charge
  <2>2. CASE PostReleasedReservation(s)
    BY <2>1, <2>2, ReleaseNotRaised DEF BudgetStep
  <2>3. CASE PostRolledBackCharge(s, ledger[s]["refund_partial"])
    BY <2>1, <2>3, PartialWithinAmount, RollbackNotRaised DEF BudgetStep
  <2> QED
    BY <1>2, <2>2, <2>3 DEF refund_user_cancel_charge
<1>3. ASSUME NEW s \in Topups, create_topup(s) PROVE BudgetStep
  BY <1>3, <1>b DEF create_topup, BudgetStep
<1>4. ASSUME NEW s \in Topups, confirm_topup(s) PROVE BudgetStep
  BY <1>4, TopupNotRaised DEF confirm_topup, BudgetStep
<1>5. ASSUME NEW w \in Workers, NEW op \in Operations, NEW s \in Sagas, Load(w, op, s)
      PROVE  BudgetStep
  BY <1>5, <1>b DEF Load, BudgetStep
<1>6. ASSUME NEW w \in Workers, ReadLedger(w) \/ Rollback(w) \/ reserve_charge(w)
      PROVE  BudgetStep
  BY <1>6, <1>b DEF ReadLedger, Rollback, reserve_charge, BudgetStep
<1>7. ASSUME NEW w \in Workers,
             finalize_success(w) \/ finalize_failure(w) \/ confirm_charge(w)
      PROVE  BudgetStep
  <2>1. control' = evaluate_budget_thresholds(control, monthly_actual_spend(ledger'))
    BY <1>7, Zenon DEF finalize_success, finalize_failure, confirm_charge
  <2> QED
    BY <1>0, <2>1 DEF BudgetStep, Evaluates
<1>8. ASSUME NEW w \in Workers, refund_auto_reserved(w) PROVE BudgetStep
  <2>1. req[w].saga \in Sagas
    BY <1>8, Completed DEF refund_auto_reserved
  <2> QED
    BY <1>8, <2>1, ReleaseNotRaised DEF refund_auto_reserved, BudgetStep
<1>9. ASSUME NEW w \in Workers, refund_auto_charged(w) PROVE BudgetStep
  <2>1. req[w] # Idle /\ req[w].saga \in Sagas
    BY <1>9, Completed DEF refund_auto_charged, Completes
  <2>2. req[w].partial \in Int /\ req[w].partial <= Amount[req[w].saga]
    <3>1. req[w].partial \in Int /\ Amount[req[w].saga] \in Int
      BY <1>9, <2>1, Completed, AmountAssumption DEF refund_auto_charged
    <3>2. req[w].partial <= ledger[req[w].saga]["refund_partial"]
      BY <1>9, <2>1 DEF PartialsWithin, refund_auto_charged
    <3> QED
      BY <2>1, <3>1, <3>2, PartialWithinAmount
  <2>3. PostRolledBackCharge(req[w].saga, req[w].partial) /\ control' = control
    BY <1>9 DEF refund_auto_charged
  <2> QED
    BY <2>1, <2>2, <2>3, RollbackNotRaised DEF BudgetStep
<1>10. CASE configure_budget
  <2>1. ASSUME NEW l \in Limits,
               control' = evaluate_budget_thresholds(
                            [control EXCEPT !.limit = l, !.enabled = TRUE, !.status = "active"],
                            monthly_actual_spend(ledger))
        PROVE  BudgetStep
    <3>1. [control EXCEPT !.limit = l, !.enabled = TRUE, !.status = "active"] \in Controls
      BY <1>0 DEF Controls
    <3>2. ledger' = ledger
      BY <1>10 DEF configure_budget
    <3> QED
      BY <2>1, <3>1, <3>2, Zenon DEF BudgetStep, Evaluates
  <2>2. CASE control' = [control EXCEPT !.enabled = FALSE, !.status = "active"]
    BY <1>0, <2>2 DEF BudgetStep, Controls
  <2> QED
    BY <1>10, <2>1, <2>2 DEF configure_budget
<1>11. CASE UNCHANGED vars
  BY <1>11, <1>b DEF vars, BudgetStep
<1> QED
  BY <1>1, <1>2, <1>3, <1>4, <1>5, <1>6, <1>7, <1>8, <1>9, <1>10, <1>11 DEF Next

(* Whatever requests overlap: whenever a budget is enabled and the month's  *)
(* spend has reached it, charging is paused (BudgetEnforced), as long as no *)
(* saga is debited twice.  Only the handlers that settle raise the spend,   *)
(* and they evaluate the budget in the same commit; no refund takes back    *)
(* more than it gives, because what was read of a partial refund never      *)
(* exceeds the one debit.                                                   *)
THEOREM BudgetAlwaysEnforced == Spec => []BudgetEnforced
<1>1. Init => BudgetEnforced
  <2> SUFFICES ASSUME Init PROVE BudgetEnforced
    OBVIOUS
  <2>1. ledger \in Book
    BY DEF Init, Book
  <2>2. PICK f : /\ IsSum(f, Usage(ledger), SUBSET Sagas)
                 /\ monthly_actual_spend(ledger) = IF f[Sagas] < 0 THEN -f[Sagas] ELSE 0
    BY <2>1, SpendIsSum
  <2>3. \A s \in Sagas : Usage(ledger)[s] = 0
    BY DEF Init, Usage, UsageTotal, Kinds
  <2>4. f[Sagas] = 0
    BY <2>2, <2>3, SumOfZeros, SagasAssumption
  <2>5. control.limit \in Nat \ {0}
    BY BudgetAssumption DEF Init
  <2> QED
    BY <2>2, <2>4, <2>5 DEF BudgetEnforced
<1>2. TypeOK /\ TypeOK' /\ LedgerMatchesOutbox /\ PartialsWithin /\ BudgetEnforced
        /\ [Next]_vars => BudgetEnforced'
  <2> SUFFICES ASSUME TypeOK, TypeOK', LedgerMatchesOutbox, PartialsWithin, BudgetEnforced,
                      [Next]_vars, NoDoubleCharge'
               PROVE  BudgetEnforced'
    BY DEF BudgetEnforced
  <2>0. /\ monthly_actual_spend(ledger) \in Nat /\ monthly_actual_spend(ledger') \in Nat
        /\ control \in Controls
    BY SpendType DEF TypeOK, Book, Controls
  <2>a. NoDoubleCharge
    <3> SUFFICES ASSUME NEW s \in Sagas PROVE ledger[s]["charge"] >= -Amount[s]
      BY DEF NoDoubleCharge
    <3>1. /\ ledger[s]["charge"] \in Int /\ ledger'[s]["charge"] \in Int
          /\ Amount[s] \in Int
      BY AmountAssumption DEF TypeOK, Kinds
    <3>2. ledger'[s]["charge"] <= ledger[s]["charge"] /\ ledger'[s]["charge"] >= -Amount[s]
      BY RowsGrow DEF NoDoubleCharge
    <3> QED
      BY <3>1, <3>2
  <2>1. CASE Evaluates
    <3>1. PICK c \in Controls :
              control' = evaluate_budget_thresholds(c, monthly_actual_spend(ledger'))
      BY <2>1 DEF Evaluates
    <3> QED
      BY <2>0, <3>1 DEF evaluate_budget_thresholds, Controls, BudgetEnforced
  <2>2. CASE ~control'.enabled
    BY <2>2 DEF BudgetEnforced
  <2>3. CASE control' = control /\ NotRaised
    <3>1. control.limit \in Nat
      BY <2>0, BudgetAssumption DEF Controls
    <3> QED
      BY <2>0, <2>a, <2>3, <3>1 DEF NotRaised, BudgetEnforced
  <2> QED
    BY <2>a, <2>1, <2>2, <2>3, BudgetSteps DEF BudgetStep
<1> QED
  BY <1>1, <1>2, TypeCorrect, DualWriteSafe, PartialsInvariant, PTL DEF Spec
=============================================================================
