---------------------------- MODULE SolverBilling ----------------------------
(***************************************************************************)
(* solver-orchestrator as a client of billing-service: the two-phase       *)
(* charge around POST and DELETE /optimizations, over calls that get one   *)
(* attempt and two seconds, and billing_reconciler, which repeats the      *)
(* calls that failed.                                                      *)
(*                                                                         *)
(* Each optimization o has a charge of its own, created before.  A call    *)
(* that times out may still reach billing-service later, or never.  The    *)
(* billing endpoints are taken as atomic here; BillingCharges has their    *)
(* interleavings.  A handler keeps its changes to the optimizations row in *)
(* its transaction until it returns.                                       *)
(***************************************************************************)
EXTENDS SagaStateMachine, Naturals, FiniteSets

CONSTANTS
    Sync,         \* optimizations posted for the result, numbered by created_at
    Async,        \* optimizations posted with mode=async
    MaxRetries,   \* max_retries of the reconciler
    BatchLimit,   \* batch_limit of the reconciler
    MaxCrashes    \* bound: process crashes and transactions lost

Opts == Sync \cup Async

ASSUME OptsAssumption == Opts \subseteq Nat /\ Sync \cap Async = {}
ASSUME LimitsAssumption ==
    MaxRetries \in Nat \ {0} /\ BatchLimit \in Nat \ {0} /\ MaxCrashes \in Nat

VARIABLES
    saga,      \* current_state of the charge of each optimization
    wire,      \* calls on their way to billing-service
    reply,     \* outcome of the call an optimization's caller waits for
    row,       \* the optimizations row, as committed
    handler,   \* where the request that works on an optimization is
    result,    \* what the solver returned to that request
    solved,    \* history: some solve of the optimization was billable
    cycle,     \* the reconciler's run
    crashes    \* crashes so far

vars == <<saga, wire, reply, row, handler, result, solved, cycle, crashes>>

Calls == {"reserve", "finalize_success", "finalize_failure", "refund_user_cancel"}

Results == {"optimal", "timeout", "infeasible", "error"}

Settled == {"charged", "completed", "refunded", "rolled_back"}

(* The billing fields of a row: retry is the call the reconciler repeats    *)
(* while failed is set.                                                     *)
NoRow ==
    [status |-> "none", failed |-> FALSE, retry |-> "none", count |-> 0,
     given_up |-> FALSE, succeeded |-> FALSE, refund_status |-> "none"]

(* The reconciler between two runs. *)
NoCycle == [open |-> FALSE, todo |-> {}, at |-> {}, draft |-> <<>>]

Init ==
    /\ saga = [o \in Opts |-> "pending"]
    /\ wire = {}
    /\ reply = [o \in Opts |-> "none"]
    /\ row = [o \in Opts |-> NoRow]
    /\ handler = [o \in Opts |-> "idle"]
    /\ result = [o \in Opts |-> "none"]
    /\ solved = {}
    /\ cycle = NoCycle
    /\ crashes = 0
-----------------------------------------------------------------------------
(* billing_client._call: send, and wait for reply[o]. *)
_call(o, op) ==
    /\ wire' = wire \cup {[opt |-> o, op |-> op, live |-> TRUE]}
    /\ reply' = [reply EXCEPT ![o] = "none"]

(* What an endpoint does to a charge; a replay changes nothing and is 2xx. *)
Trigger(op, current) ==
    CASE op = "reserve" -> "reserve"
      [] op = "finalize_success" -> "service_success"
      [] op = "finalize_failure" -> "user_cancel"
      [] op = "refund_user_cancel" ->
            IF current = "charged" THEN "downstream_reject_late" ELSE "user_cancel"

Replayed(op, current) ==
    CASE op = "reserve" -> current = "reserved"
      [] op \in {"finalize_success", "finalize_failure"} -> current \in Settled
      [] op = "refund_user_cancel" -> current \in {"refunded", "rolled_back"}

(* billing-service handles a call.  A caller that has given up waiting does *)
(* not see the answer.                                                      *)
Handle(call) ==
    LET o == call.opt
        answer(r) == reply' = IF call.live THEN [reply EXCEPT ![o] = r] ELSE reply
    IN
    /\ call \in wire
    /\ wire' = wire \ {call}
    /\ \/ /\ Replayed(call.op, saga[o])
          /\ answer("ok") /\ UNCHANGED saga
       \/ \E t \in find_transition(saga[o], Trigger(call.op, saga[o])) :
             /\ ~Replayed(call.op, saga[o])
             /\ saga' = [saga EXCEPT ![o] = t.to_state] /\ answer("ok")
       \/ /\ ~Replayed(call.op, saga[o])
          /\ find_transition(saga[o], Trigger(call.op, saga[o])) = {}
          /\ answer("error") /\ UNCHANGED saga
    /\ UNCHANGED <<row, handler, result, solved, cycle, crashes>>

(* Nobody waits for the call any more, but billing-service may get it yet.  *)
(* Two abandoned calls that are the same count as one: the second would be  *)
(* a replay or a 409.                                                       *)
Abandon(o) ==
    wire' = {IF c.opt = o THEN [c EXCEPT !.live = FALSE] ELSE c : c \in wire}

Timeout(o) ==
    /\ \E c \in wire : c.opt = o /\ c.live
    /\ Abandon(o)
    /\ reply' = [reply EXCEPT ![o] = "error"]
    /\ UNCHANGED <<saga, row, handler, result, solved, cycle, crashes>>

(* An abandoned call never arrives. *)
Lose(call) ==
    /\ call \in wire /\ ~call.live
    /\ wire' = wire \ {call}
    /\ UNCHANGED <<saga, reply, row, handler, result, solved, cycle, crashes>>
-----------------------------------------------------------------------------
(* post_optimization up to the reserve call.  A key or body seen before is  *)
(* answered from the row.                                                   *)
post_optimization(o) ==
    /\ handler[o] = "idle" /\ row[o].status = "none"
    /\ _call(o, "reserve")
    /\ handler' = [handler EXCEPT ![o] = "reserving"]
    /\ UNCHANGED <<saga, row, result, solved, cycle, crashes>>

(* The request ends; what it wrote to the row is new. *)
Return(o, new) ==
    /\ row' = [row EXCEPT ![o] = new]
    /\ handler' = [handler EXCEPT ![o] = "idle"]
    /\ reply' = [reply EXCEPT ![o] = "none"]
    /\ result' = [result EXCEPT ![o] = "none"]

(* 422: the charge may be reserved all the same if the call timed out. *)
reserve_failed(o) ==
    /\ handler[o] = "reserving" /\ reply[o] = "error"
    /\ Return(o, row[o])
    /\ UNCHANGED <<saga, wire, solved, cycle, crashes>>

accept_async(o) ==
    /\ o \in Async
    /\ handler[o] = "reserving" /\ reply[o] = "ok"
    /\ Return(o, [NoRow EXCEPT !.status = "queued"])
    /\ UNCHANGED <<saga, wire, solved, cycle, crashes>>

(* 501 for a task type without a solver: the row is stored as failed with    *)
(* the error "Not Implemented", and the charge stays reserved.              *)
not_implemented(o) ==
    /\ o \in Sync
    /\ handler[o] = "reserving" /\ reply[o] = "ok"
    /\ Return(o, [NoRow EXCEPT !.status = "not_implemented"])
    /\ UNCHANGED <<saga, wire, solved, cycle, crashes>>

(* What a solver's result is finalized as: a timeout has used the time. *)
finalize_status(r) ==
    IF r \in {"optimal", "timeout"} THEN "finalize_success" ELSE "finalize_failure"

(* Solve, then finalize. *)
solve(o) ==
    /\ o \in Sync
    /\ handler[o] = "reserving" /\ reply[o] = "ok"
    /\ \E r \in Results :
          /\ result' = [result EXCEPT ![o] = r]
          /\ solved' = IF r \in {"optimal", "timeout"} THEN solved \cup {o} ELSE solved
          /\ _call(o, finalize_status(r))
    /\ handler' = [handler EXCEPT ![o] = "finalizing"]
    /\ UNCHANGED <<saga, row, cycle, crashes>>

(* Mutant: every retry is stored as one of a success. *)
RetryContextDefault(new, op) ==
    [new EXCEPT !.failed = TRUE, !.retry = "finalize_success", !.count = 0]

(* Mutant: a failed call is only logged. *)
RetryContextDropped(new, op) == new

(* What is stored for the reconciler when a call fails. *)
RetryContext(new, op) ==
    [new EXCEPT !.failed = TRUE, !.retry = op, !.count = 0]

(* The result is stored and returned whatever became of the finalize call. *)
persist(o) ==
    LET new == [NoRow EXCEPT !.status =
                   CASE result[o] = "optimal" -> "completed"
                     [] result[o] = "timeout" -> "timeout"
                     [] OTHER -> "failed"]
    IN
    /\ handler[o] = "finalizing" /\ reply[o] # "none"
    /\ Return(o, IF reply[o] = "ok" THEN new
                 ELSE RetryContext(new, finalize_status(result[o])))
    /\ UNCHANGED <<saga, wire, solved, cycle, crashes>>

(* A queued job is cancelled under the lock of its row. *)
delete_optimization(o) ==
    /\ handler[o] = "idle" /\ row[o].status = "queued"
    /\ _call(o, "refund_user_cancel")
    /\ handler' = [handler EXCEPT ![o] = "cancelling"]
    /\ UNCHANGED <<saga, row, result, solved, cycle, crashes>>

(* Mutant: the user is told of a refund before there is one. *)
refunded_at_once(o) ==
    LET new == [row[o] EXCEPT !.status = "cancelled"] IN
    /\ handler[o] = "cancelling" /\ reply[o] # "none"
    /\ Return(o, [(IF reply[o] = "ok" THEN new ELSE RetryContext(new, "refund_user_cancel"))
                     EXCEPT !.refund_status = "refunded"])
    /\ UNCHANGED <<saga, wire, solved, cycle, crashes>>

_finalize_cancelled_billing(o) ==
    LET new == [row[o] EXCEPT !.status = "cancelled"] IN
    /\ handler[o] = "cancelling" /\ reply[o] # "none"
    /\ Return(o, IF reply[o] = "ok" THEN [new EXCEPT !.refund_status = "refunded"]
                 ELSE [RetryContext(new, "refund_user_cancel")
                          EXCEPT !.refund_status = "pending_reconciliation"])
    /\ UNCHANGED <<saga, wire, solved, cycle, crashes>>

(* The process dies, or the commit fails (an idempotency key stored by a    *)
(* concurrent request rolls everything back): the row is as it was.         *)
Crash(o) ==
    /\ crashes < MaxCrashes
    /\ crashes' = crashes + 1
    /\ handler[o] # "idle"
    /\ Abandon(o)
    /\ Return(o, row[o])
    /\ UNCHANGED <<saga, solved, cycle>>
-----------------------------------------------------------------------------
Pending == {o \in Opts : row[o].failed /\ row[o].count < MaxRetries /\ ~row[o].succeeded}

(* ORDER BY created_at LIMIT batch_limit; draft is the open transaction's   *)
(* version of the rows.                                                     *)
_fetch_pending ==
    /\ ~cycle.open
    /\ \E rows \in SUBSET Pending :
          /\ rows # {}
          /\ Cardinality(rows) <= BatchLimit
          /\ \A o \in rows, later \in Pending \ rows : o < later
          /\ Cardinality(rows) = BatchLimit \/ rows = Pending
          /\ cycle' = [open |-> TRUE, todo |-> rows, at |-> {},
                       draft |-> [o \in rows |-> row[o]]]
    /\ UNCHANGED <<saga, wire, reply, row, handler, result, solved, crashes>>

retry_finalize(o) ==
    /\ cycle.open /\ cycle.at = {}
    /\ o \in cycle.todo
    /\ \A other \in cycle.todo : o <= other
    /\ _call(o, row[o].retry)
    /\ cycle' = [cycle EXCEPT !.at = {o}]
    /\ UNCHANGED <<saga, row, handler, result, solved, crashes>>

(* The UPDATE of one row by the reconciler. *)
Mark(o, new) ==
    cycle' = [cycle EXCEPT !.at = {}, !.todo = @ \ {o}, !.draft[o] = new]

(* Clears the flag; a cancelled job learns that it is refunded. *)
_mark_succeeded(o) ==
    /\ o \in cycle.at /\ reply[o] = "ok"
    /\ Mark(o, [row[o] EXCEPT !.failed = FALSE, !.succeeded = TRUE, !.count = 0,
                   !.refund_status = IF row[o].retry = "refund_user_cancel"
                                     THEN "refunded" ELSE @])
    /\ UNCHANGED <<saga, wire, reply, row, handler, result, solved, crashes>>

(* Mutant: the attempt is not counted. *)
NoIncrement(r) == r

(* _mark_given_up tags the row and leaves billing_retry_count alone;        *)
(* _mark_failed_increment counts the attempt.                               *)
AfterFailure(r) ==
    IF r.count + 1 >= MaxRetries THEN [r EXCEPT !.given_up = TRUE]
    ELSE [r EXCEPT !.count = @ + 1]

_mark_failed(o) ==
    /\ o \in cycle.at /\ reply[o] = "error"
    /\ Mark(o, AfterFailure(row[o]))
    /\ UNCHANGED <<saga, wire, reply, row, handler, result, solved, crashes>>

(* One commit for the whole run. *)
commit_cycle ==
    /\ cycle.open /\ cycle.todo = {}
    /\ row' = [o \in Opts |-> IF o \in DOMAIN cycle.draft THEN cycle.draft[o] ELSE row[o]]
    /\ cycle' = NoCycle
    /\ UNCHANGED <<saga, wire, reply, handler, result, solved, crashes>>

crash_cycle ==
    /\ crashes < MaxCrashes
    /\ crashes' = crashes + 1
    /\ cycle.open
    /\ cycle' = NoCycle
    /\ wire' = {IF c.opt \in cycle.at THEN [c EXCEPT !.live = FALSE] ELSE c : c \in wire}
    /\ UNCHANGED <<saga, reply, row, handler, result, solved>>

retry_pending_finalizes ==
    \/ _fetch_pending \/ commit_cycle
    \/ \E o \in Opts : retry_finalize(o) \/ _mark_succeeded(o) \/ _mark_failed(o)

Next ==
    \/ \E call \in wire : Handle(call) \/ Lose(call)
    \/ \E o \in Opts :
          \/ Timeout(o) \/ Crash(o)
          \/ post_optimization(o) \/ reserve_failed(o) \/ accept_async(o)
          \/ not_implemented(o) \/ solve(o) \/ persist(o)
          \/ delete_optimization(o) \/ _finalize_cancelled_billing(o)
    \/ retry_pending_finalizes
    \/ crash_cycle

Spec == Init /\ [][Next]_vars

(* The reconciler is a cron job that runs again and again, and its calls    *)
(* end after two seconds at the latest.                                     *)
FairSpec ==
    /\ Spec
    /\ WF_vars(retry_pending_finalizes)
    /\ \A o \in Opts : WF_vars(Timeout(o))
-----------------------------------------------------------------------------
(* Only a job some solve of which was optimal or ran out of time is ever    *)
(* charged, however late, often or after which crash the calls arrive       *)
(* (finalize_status, the retry context and the reconciler's repetition).    *)
ChargedOnlyIfSolved ==
    \A o \in Opts : saga[o] \in {"charged", "rolled_back"} => o \in solved

(* A job that went to a solver or was cancelled never leaves a reservation  *)
(* behind that nobody will finalize: the row carries the call to repeat.    *)
(* (A job refused with 501 does leave one.)                                 *)
ReservationNotForgotten ==
    \A o \in Opts :
        row[o].status \in {"completed", "timeout", "failed", "cancelled"} /\ saga[o] = "reserved"
            => row[o].failed /\ row[o].retry # "none"

(* What the user and the operator read is true: refund_status "refunded"    *)
(* and billing_finalize_succeeded_at stand for a charge that is refunded,   *)
(* or settled, in billing-service.                                          *)
RecordedMeansSettled ==
    \A o \in Opts :
        /\ row[o].refund_status = "refunded" => saga[o] \in {"refunded", "rolled_back"}
        /\ row[o].succeeded => saga[o] \in Settled

(* "After max_retries, row gets billing_given_up_at.  Reconciler stops       *)
(* touching it" (m2-2c-billing-reconciler-job.md): no run fetches a row that *)
(* was given up before.                                                     *)
GivenUpIsLeftAlone ==
    \A o \in cycle.todo : ~row[o].given_up

(* billing_retry_count of a row that was given up stays below max_retries,  *)
(* so the row stays pending and is fetched again in created_at order.  A    *)
(* full batch of such rows leaves no place for the younger ones.            *)
Starved(o) ==
    Cardinality({p \in Pending : p < o /\ row[p].given_up}) >= BatchLimit

(* "Persistent failures after max_retries get tagged billing_given_up_at":  *)
(* a failed call is repeated until it succeeds or is given up, unless the   *)
(* older rows that were given up fill every batch from some time on.  Calls *)
(* of other rows that only fail or are late do not keep it from being       *)
(* decided, nor do given-up rows as long as they leave a place.             *)
EveryFailureDecided ==
    \A o \in Opts :
        row[o].failed ~> (row[o].succeeded \/ row[o].given_up \/ []Starved(o))
=============================================================================
