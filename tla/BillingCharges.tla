--------------------------- MODULE BillingCharges ---------------------------
(***************************************************************************)
(* The money path of billing-service: the charge and top-up handlers of    *)
(* routes.py on top of SagaOrchestrator, for the sagas of one user.        *)
(*                                                                         *)
(* Every request has a database session of its own.  Two kinds of handler  *)
(* exist.  refund-user-cancel and topup confirm SELECT ... FOR UPDATE the  *)
(* saga row first and are atomic.  reserve, finalize, refund-auto and the  *)
(* deprecated confirm first read the saga with a plain session.get, decide *)
(* on it, and only then call SagaOrchestrator.apply.  apply locks the row, *)
(* but its SELECT does not ask for populate_existing: the session hands    *)
(* back the object it has already loaded, so the transition is chosen from *)
(* the state seen before the lock.  req[w].seen is that state.             *)
(*                                                                         *)
(* A commit writes the saga row, the ledger rows, the outbox rows, the     *)
(* cost attribution row and the budget control row in one transaction.     *)
(*                                                                         *)
(* Nothing keeps two requests for one saga apart: callers time out, repeat *)
(* and overlap, and a commit can be chosen from a state that another       *)
(* commit has changed since it was read.  overtaken is a history variable  *)
(* that counts those commits.                                              *)
(***************************************************************************)
EXTENDS SagaStateMachine, Integers, FiniteSetsExt

CONSTANTS
    Charges,    \* charge sagas the user may create
    Topups,     \* top-up sagas the user may create
    Workers,    \* sessions that can have a request in flight
    Amount,     \* saga.amount: what is reserved, or topped up
    MinCharge,  \* settings.charge_min_amount
    Quotes,     \* elapsed x rate x discount, quantised, as finalize computes it
    Seed,       \* the user's demo credits
    Limits      \* monthly budgets the user may configure

Sagas == Charges \cup Topups

ASSUME SagasAssumption == Charges \cap Topups = {} /\ IsFiniteSet(Sagas)
ASSUME AmountAssumption == Amount \in [Sagas -> Nat \ {0}]
ASSUME PriceAssumption == MinCharge \in Nat \ {0} /\ Quotes \subseteq Nat
ASSUME BudgetAssumption == Seed \in Nat /\ Limits \subseteq Nat \ {0}

VARIABLES
    state,       \* saga_instances.current_state, "absent" before INSERT
    ledger,      \* SUM(credit_transactions.amount) per saga and kind
    outbox,      \* number of outbox rows per saga and event
    attributed,  \* number of cost attribution rows per saga
    control,     \* the user's billing_budget_controls row
    req,         \* the request each session works on
    overtaken    \* history: commits on a saga chosen from a state it had left

vars == <<state, ledger, outbox, attributed, control, req, overtaken>>

-----------------------------------------------------------------------------
Kinds == {"charge", "refund", "refund_partial", "refund_reversal", "topup"}

Events == {"reserve", "service_success", "user_cancel",
           "downstream_reject_late", "refund_auto", "refund_user_cancel",
           "topup_confirmed"}

Operations == {"reserve", "finalize_success", "finalize_failure",
               "refund_auto", "confirm"}

Idle == [phase |-> "idle"]

Requests == [phase : {"loaded", "read"}, op : Operations, saga : Sagas,
             seen : State, partial : Int]

(* What the rows of a saga add up to: kinds in SPEND_KINDS, and all kinds. *)
UsageTotal(rows) ==
    rows["charge"] + rows["refund"] + rows["refund_partial"] + rows["refund_reversal"]

Net(rows) == UsageTotal(rows) + rows["topup"]

(* session.add(CreditTransaction(...)): one more row of a kind. *)
insert(book, s, kind, amount) == [book EXCEPT ![s][kind] = @ + amount]

monthly_actual_spend(book) ==
    LET total == MapThenSumSet(LAMBDA s : UsageTotal(book[s]), Sagas)
    IN  IF total < 0 THEN -total ELSE 0

Balance == Seed + MapThenSumSet(LAMBDA s : Net(ledger[s]), Sagas)

compute_charge_amount(quantised, reserved) ==
    IF quantised < MinCharge THEN MinCharge
    ELSE IF quantised > reserved THEN reserved
    ELSE quantised

(* What finalize hands back of the reserved amount. *)
refund_partial(quantised, reserved) ==
    LET actual == compute_charge_amount(quantised, reserved)
    IN  IF actual < reserved THEN reserved - actual ELSE 0

(* Mutant: the budget has to be exceeded, not reached. *)
evaluate_budget_exceeded(c, spend) ==
    IF ~c.enabled \/ spend <= c.limit THEN c
    ELSE [c EXCEPT !.status = "paused", !.events = {"alerted", "paused"}]

(* Alert at 80% of the budget and pause at 100%; each event once a period. *)
evaluate_budget_thresholds(c, spend) ==
    IF ~c.enabled THEN c
    ELSE [c EXCEPT
            !.status = IF spend >= c.limit THEN "paused" ELSE @,
            !.events = @ \cup (IF 5 * spend >= 4 * c.limit THEN {"alerted"} ELSE {})
                         \cup (IF spend >= c.limit THEN {"paused"} ELSE {})]

-----------------------------------------------------------------------------
Init ==
    /\ state = [s \in Sagas |-> "absent"]
    /\ ledger = [s \in Sagas |-> [k \in Kinds |-> 0]]
    /\ outbox = [s \in Sagas |-> [e \in Events |-> 0]]
    /\ attributed = [s \in Sagas |-> 0]
    /\ control \in [limit : Limits, enabled : BOOLEAN, status : {"active"}, events : {{}}]
    /\ req = [w \in Workers |-> Idle]
    /\ overtaken = [s \in Sagas |-> 0]

(* create_charge and create_topup: SagaOrchestrator.start inserts the saga. *)
create_charge(s) ==
    /\ state[s] = "absent"
    /\ ~(control.enabled /\ control.status = "paused")
    /\ Amount[s] <= Balance
    /\ state' = [state EXCEPT ![s] = "pending"]
    /\ UNCHANGED <<ledger, outbox, attributed, control, req, overtaken>>

create_topup(s) ==
    /\ state[s] = "absent"
    /\ state' = [state EXCEPT ![s] = "pending"]
    /\ UNCHANGED <<ledger, outbox, attributed, control, req, overtaken>>

(* The states from which a handler goes on to SagaOrchestrator.apply; from  *)
(* the others it answers from the ledger or with 409, and changes nothing.  *)
GoesOn(op, s, current) ==
    CASE op \in {"reserve", "confirm"} -> TRUE
      [] op \in {"finalize_success", "finalize_failure"} ->
            current \notin {"charged", "completed", "refunded", "rolled_back"}
      [] op = "refund_auto" -> s \in Charges /\ current \in {"reserved", "charged"}

(* The unlocked session.get at the top of a handler. *)
Load(w, op, s) ==
    /\ req[w] = Idle
    /\ state[s] # "absent"
    /\ GoesOn(op, s, state[s])
    /\ req' = [req EXCEPT ![w] = [phase |-> "loaded", op |-> op, saga |-> s,
                                  seen |-> state[s], partial |-> 0]]
    /\ UNCHANGED <<state, ledger, outbox, attributed, control, overtaken>>

(* refund-auto of a charged saga reads the ledger rows before the lock. *)
ReadLedger(w) ==
    /\ req[w] # Idle
    /\ req[w].phase = "loaded" /\ req[w].op = "refund_auto" /\ req[w].seen = "charged"
    /\ req' = [req EXCEPT ![w].phase = "read",
                          ![w].partial = ledger[req[w].saga]["refund_partial"]]
    /\ UNCHANGED <<state, ledger, outbox, attributed, control, overtaken>>

(* The session is closed without a commit: the transition is refused (409), *)
(* or the process, the connection or the database fails.                    *)
Rollback(w) ==
    /\ req[w] # Idle
    /\ req' = [req EXCEPT ![w] = Idle]
    /\ UNCHANGED <<state, ledger, outbox, attributed, control, overtaken>>

(* SagaOrchestrator.apply on the saga row: the lookup uses the state seen. *)
apply(s, seen, trigger) ==
    \E t \in find_transition(seen, trigger) : state' = [state EXCEPT ![s] = t.to_state]

(* Takes the request of w off its session, if it is one of op, and records  *)
(* whether another commit has moved the saga since the request read it.     *)
Completes(w, op) ==
    /\ req[w] # Idle
    /\ req[w].op = op
    /\ req' = [req EXCEPT ![w] = Idle]
    /\ overtaken' = [overtaken EXCEPT ![req[w].saga] =
                        IF req[w].seen = state[req[w].saga] THEN @ ELSE @ + 1]

(* The outbox rows of a commit, one per event. *)
Announce(s, events) ==
    outbox' = [outbox EXCEPT ![s] =
                  [e \in Events |-> IF e \in events THEN @[e] + 1 ELSE @[e]]]

(* service_success debits what was reserved; finalize returns the rest. *)
PostCharge(s, partial) ==
    ledger' = insert(insert(ledger, s, "charge", -Amount[s]), s, "refund_partial", partial)

(* Mutant: the refund of a reservation is not reversed. *)
PostReservationAsCredit(s) ==
    ledger' = insert(ledger, s, "refund", Amount[s])

(* reserve wrote no debit, so the refund of a reservation is reversed. *)
PostReleasedReservation(s) ==
    ledger' = insert(insert(ledger, s, "refund", Amount[s]), s, "refund_reversal", -Amount[s])

(* Mutants: the partial refund is forgotten; it is netted into the refund. *)
PostFullRefund(s, partial) ==
    ledger' = insert(ledger, s, "refund", Amount[s])

PostNettedRefund(s, partial) ==
    ledger' = insert(ledger, s, "refund", Amount[s] - partial)

(* A charge is refunded in full less what finalize returned already. *)
PostRolledBackCharge(s, partial) ==
    ledger' = insert(insert(ledger, s, "refund", Amount[s]), s, "refund_reversal", -partial)

reserve_charge(w) ==
    /\ Completes(w, "reserve")
    /\ apply(req[w].saga, req[w].seen, "reserve")
    /\ Announce(req[w].saga, {"reserve"})
    /\ UNCHANGED <<ledger, attributed, control>>

(* The cost attribution is written once and best effort, in a savepoint. *)
RecordCost(s) ==
    \/ attributed[s] = 0 /\ attributed' = [attributed EXCEPT ![s] = 1]
    \/ UNCHANGED attributed

finalize_success(w) ==
    LET s == req[w].saga IN
    /\ Completes(w, "finalize_success")
    /\ apply(s, req[w].seen, "service_success")
    /\ Announce(s, {"service_success"})
    /\ \E q \in Quotes : PostCharge(s, refund_partial(q, Amount[s]))
    /\ RecordCost(s)
    /\ control' = evaluate_budget_thresholds(control, monthly_actual_spend(ledger'))

finalize_failure(w) ==
    LET s == req[w].saga IN
    /\ Completes(w, "finalize_failure")
    /\ apply(s, req[w].seen, "user_cancel")
    /\ Announce(s, {"user_cancel"})
    /\ PostReleasedReservation(s)
    /\ control' = evaluate_budget_thresholds(control, monthly_actual_spend(ledger'))
    /\ UNCHANGED attributed

refund_auto_reserved(w) ==
    LET s == req[w].saga IN
    /\ Completes(w, "refund_auto")
    /\ req[w].seen = "reserved"
    /\ apply(s, req[w].seen, "user_cancel")
    /\ Announce(s, {"user_cancel", "refund_auto"})
    /\ PostReleasedReservation(s)
    /\ UNCHANGED <<attributed, control>>

refund_auto_charged(w) ==
    LET s == req[w].saga IN
    /\ Completes(w, "refund_auto")
    /\ req[w].seen = "charged" /\ req[w].phase = "read"
    /\ apply(s, req[w].seen, "downstream_reject_late")
    /\ Announce(s, {"downstream_reject_late", "refund_auto"})
    /\ PostRolledBackCharge(s, req[w].partial)
    /\ UNCHANGED <<attributed, control>>

(* Deprecated: reserve, or its replay, then service_success, in one commit. *)
confirm_charge(w) ==
    LET s == req[w].saga IN
    /\ Completes(w, "confirm")
    /\ \/ /\ find_transition(req[w].seen, "reserve") # {}
          /\ Announce(s, {"reserve", "service_success"})
       \/ /\ is_idempotent_replay(req[w].seen, "reserve")
          /\ Announce(s, {"service_success"})
    /\ apply(s, "reserved", "service_success")
    /\ PostCharge(s, 0)
    /\ control' = evaluate_budget_thresholds(control, monthly_actual_spend(ledger'))
    /\ UNCHANGED attributed

(* Locks the saga row before it looks at it: nothing can be stale. *)
refund_user_cancel_charge(s) ==
    /\ \/ /\ apply(s, state[s], "user_cancel")
          /\ Announce(s, {"user_cancel", "refund_user_cancel"})
          /\ PostReleasedReservation(s)
       \/ /\ apply(s, state[s], "downstream_reject_late")
          /\ Announce(s, {"downstream_reject_late", "refund_user_cancel"})
          /\ PostRolledBackCharge(s, ledger[s]["refund_partial"])
    /\ UNCHANGED <<attributed, control, req, overtaken>>

(* Mutant: only a completed top-up counts as confirmed. *)
confirm_topup_by_state(s) ==
    /\ state[s] \notin {"absent", "completed"}
    /\ state' = [state EXCEPT ![s] = "completed"]
    /\ ledger' = insert(ledger, s, "topup", Amount[s])
    /\ Announce(s, {"topup_confirmed"})
    /\ UNCHANGED <<attributed, control, req, overtaken>>

(* Locks the row, then trusts the ledger before the state. *)
confirm_topup(s) ==
    /\ ledger[s]["topup"] = 0
    /\ state[s] = "pending"
    /\ state' = [state EXCEPT ![s] = "completed"]
    /\ ledger' = insert(ledger, s, "topup", Amount[s])
    /\ Announce(s, {"topup_confirmed"})
    /\ UNCHANGED <<attributed, control, req, overtaken>>

(* PUT /budget: a new limit is evaluated at once; disabling clears a pause. *)
configure_budget ==
    /\ \/ \E l \in Limits :
            control' = evaluate_budget_thresholds(
                          [control EXCEPT !.limit = l, !.enabled = TRUE, !.status = "active"],
                          monthly_actual_spend(ledger))
       \/ control' = [control EXCEPT !.enabled = FALSE, !.status = "active"]
    /\ UNCHANGED <<state, ledger, outbox, attributed, req, overtaken>>

Next ==
    \/ \E s \in Charges : create_charge(s) \/ refund_user_cancel_charge(s)
    \/ \E s \in Topups : create_topup(s) \/ confirm_topup(s)
    \/ \E w \in Workers, op \in Operations, s \in Sagas : Load(w, op, s)
    \/ \E w \in Workers :
          \/ ReadLedger(w) \/ Rollback(w)
          \/ reserve_charge(w) \/ finalize_success(w) \/ finalize_failure(w)
          \/ refund_auto_reserved(w) \/ refund_auto_charged(w) \/ confirm_charge(w)
    \/ configure_budget

Spec == Init /\ [][Next]_vars
-----------------------------------------------------------------------------
(* Every variable keeps its type; the budget events are at most one alert  *)
(* and one pause per period (_write_budget_event_once), and a saga has at   *)
(* most one cost attribution (_record_billing_cost_attribution).            *)
TypeOK ==
    /\ state \in [Sagas -> State \cup {"absent"}]
    /\ ledger \in [Sagas -> [Kinds -> Int]]
    /\ outbox \in [Sagas -> [Events -> Nat]]
    /\ attributed \in [Sagas -> 0 .. 1]
    /\ control \in [limit : Limits, enabled : BOOLEAN, status : {"active", "paused"},
                    events : SUBSET {"alerted", "paused"}]
    /\ req \in [Workers -> Requests \cup {Idle}]
    /\ overtaken \in [Sagas -> Nat]

(* The least a settled saga costs: charge_min_amount, but never more than   *)
(* was reserved (service_success debits the reserved amount and no more).   *)
Floor == [s \in Sagas |-> IF MinCharge < Amount[s] THEN MinCharge ELSE Amount[s]]

(* What expected_bounds accepts as the sum of a saga's rows in a state; the *)
(* states the daily reconciliation does not look at must not have moved     *)
(* money, except charged.                                                   *)
expected_bounds(s, current) ==
    CASE current = "charged" -> (-Amount[s]) .. (-Floor[s])
      [] current = "completed" ->
            IF s \in Topups THEN {Amount[s]} ELSE (-Amount[s]) .. (-Floor[s])
      [] OTHER -> {0}

(* The daily reconciliation finds no drift (reconciler.py) on a saga none   *)
(* of whose commits was overtaken, whatever requests ran concurrently on it *)
(* and on others: the rows of the saga sum to what its state stands for, so *)
(* a refunded or rolled back charge is free and a charged one costs between *)
(* the floor and the reservation, whatever partial refund finalize wrote.   *)
LedgerMatchesState ==
    \A s \in Sagas : overtaken[s] = 0 => Net(ledger[s]) \in expected_bounds(s, state[s])

(* apply never debits a saga twice: "re-applying the same trigger ... is a  *)
(* no-op (no double-charge)" (saga_orchestrator.py, AC10).                  *)
NoDoubleCharge ==
    \A s \in Sagas : ledger[s]["charge"] >= -Amount[s]

(* A saga is debited once, and once more at most for each commit on it that *)
(* was overtaken: however many finalize, confirm and reserve requests       *)
(* overlap, time out or repeat, what bounds the damage is how often apply   *)
(* uses a stale object, and a saga on which it never does is debited once.  *)
DebitsBoundedByOvertaking ==
    \A s \in Sagas : ledger[s]["charge"] >= -(Amount[s] * (1 + overtaken[s]))

(* "Terminal states ... reject all further transitions" (ADR-0001, I3):     *)
(* only a commit that was overtaken leaves a terminal state, or moves money *)
(* of a saga that is in one.                                                *)
TerminalStickiness ==
    [][\A s \in Sagas :
          state[s] \in TERMINAL_STATES /\ overtaken'[s] = overtaken[s]
              => state'[s] = state[s] /\ ledger'[s] = ledger[s]]_vars

(* A payment is credited at most once and only to a top-up, whatever the    *)
(* charge endpoints do to the top-up's saga row meanwhile (confirm_topup).  *)
TopupCreditedOnce ==
    \A s \in Sagas : ledger[s]["topup"] \in (IF s \in Topups THEN {0, Amount[s]} ELSE {0})

(* The dual write (P33): the debits, refunds and credits in the ledger are  *)
(* the ones the outbox announces, event by event.                           *)
LedgerMatchesOutbox ==
    \A s \in Sagas :
        /\ ledger[s]["charge"] = -(Amount[s] * outbox[s]["service_success"])
        /\ ledger[s]["refund"] =
              Amount[s] * (outbox[s]["user_cancel"] + outbox[s]["downstream_reject_late"])
        /\ ledger[s]["topup"] = Amount[s] * outbox[s]["topup_confirmed"]

(* While a budget is enabled and the month's spend has reached it, charging *)
(* is paused, whatever requests overlap and whichever of them are overtaken,*)
(* as long as no saga is debited twice: every handler that can raise the    *)
(* spend re-evaluates the budget.  (Two debits leave two partial refunds,   *)
(* and a rollback that takes both back raises the spend unevaluated.)       *)
BudgetEnforced ==
    NoDoubleCharge /\ control.enabled /\ monthly_actual_spend(ledger) >= control.limit
        => control.status = "paused"

-----------------------------------------------------------------------------
(* The refinement mapping to ChargeContract.  A saga is disputed from the   *)
(* first commit on it that was overtaken.                                   *)
PhaseOf(current) ==
    CASE current = "absent" -> "none"
      [] current \in {"pending", "reserved"} -> "open"
      [] current = "charged" -> "settled"
      [] current \in {"refunded", "rolled_back", "failed"} -> "released"
      [] current = "completed" -> "credited"

ContractPhase ==
    [s \in Sagas |-> IF overtaken[s] = 0 THEN PhaseOf(state[s]) ELSE "disputed"]
ContractPaid ==
    [s \in Sagas |-> IF overtaken[s] = 0 THEN -Net(ledger[s]) ELSE 0]

Contract == INSTANCE ChargeContract WITH phase <- ContractPhase, paid <- ContractPaid

(* Whatever requests overlap, the handlers implement the contract: a saga   *)
(* is settled once, for no more than was reserved, and released at most     *)
(* once and to zero, until a commit on it is overtaken; and that disputes   *)
(* this saga and none of the others.                                        *)
ImplementsContract == Contract!Spec
=============================================================================
