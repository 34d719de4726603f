-------------------------- MODULE FallbackExecution --------------------------
(***************************************************************************)
(* Routing and execution of one optimization: the catalog row a task type  *)
(* and solver resolve to, the audit gate for the platform's own            *)
(* algorithms, the plan of a primary attempt and up to three fallbacks,    *)
(* the loop that tries them within one time budget, and the history that   *)
(* is later shown to the user.                                             *)
(***************************************************************************)
EXTENDS Integers, Sequences, SequencesExt, FiniteSets, FiniteSetsExt

CONSTANTS
    Catalog,            \* sequence of [k, task, solvers, kind, audit]
    Tasks,              \* task types a request may name
    Solvers,            \* solver names a request may use
    Rules,              \* SELF_AUDIT_RULES
    MaxChain,           \* bound on the length of a fallback chain
    MaxSolveSeconds     \* max_solve_seconds, in units no attempt falls below

ASSUME FallbackAssumption ==
    /\ DOMAIN Catalog \subseteq Nat
    /\ MaxChain \in Nat /\ MaxSolveSeconds \in Nat \ {0} /\ "none" \notin Tasks

Default == "default"    \* a request that leaves the solver out

VARIABLES
    request,    \* the request: [task, solver, chain], or NoRequest
    attempts,   \* its plan: a sequence of [role, solver, k]
    tried,      \* what was executed: a sequence of
                \*     [attempt, role, k, status, seconds, remaining_budget]
    total_solve_seconds,
    exhausted,  \* the loop ended without a usable answer and nothing left to try
    job,        \* the stored job: its status and routing metadata
    history     \* the routing history a reader was last shown

routeVars == <<request, attempts, tried, total_solve_seconds, exhausted, job, history>>

NoRequest == [task |-> "none", solver |-> Default, chain |-> <<>>]
NoJob == [status |-> "none", primary |-> "none", executed |-> "none", execution |-> FALSE,
          terminal |-> 0, seconds |-> 0, attempts |-> <<>>, exhausted |-> FALSE]
NoHistory == [count |-> 0, fallback_used |-> FALSE, status |-> "none", terminal |-> 0,
              exhausted |-> FALSE, executed |-> "none", seconds |-> 0]

(***************************************************************************)
(* The catalog.                                                            *)
(***************************************************************************)
(* Rows of the platform's own algorithms need every rule passed; metadata  *)
(* that is absent, or names other rules, counts as nothing passed.         *)
self_audit_missing_rules(row) ==
    IF row.kind # "self" THEN {}
    ELSE IF DOMAIN row.audit # Rules THEN Rules
    ELSE {r \in Rules : ~row.audit[r]}

self_audit_passed(row) == self_audit_missing_rules(row) = {}

publishable_catalog_items == {row \in ToSet(Catalog) : self_audit_passed(row)}

(* The numbers of the rows with the task type. *)
Matches(task) == {i \in DOMAIN Catalog : Catalog[i].task = task}

supported_solvers(task) == UNION {ToSet(Catalog[i].solvers) : i \in Matches(task)}

(* The rows a request can mean; the first one is taken. *)
find_by_task_type_and_solver(task, solver) ==
    {i \in Matches(task) : solver = Default \/ solver \in ToSet(Catalog[i].solvers)}

select_provider_route(task, solver) ==
    LET rows == find_by_task_type_and_solver(task, solver)
        row == Catalog[Min(rows)]
    IN  IF Matches(task) = {} THEN [status |-> "unsupported_task_type"]
        ELSE IF rows = {} THEN [status |-> "unsupported_solver"]
        ELSE IF ~self_audit_passed(row) THEN [status |-> "unaudited_self_algorithm"]
        ELSE [status |-> "ok", k |-> row.k,
              selected |-> IF solver = Default THEN Head(row.solvers) ELSE solver]

(***************************************************************************)
(* The plan.                                                               *)
(***************************************************************************)
(* The candidates that are planned: the first three of the chain. *)
Candidates(chain) == SubSeq(chain, 1, Min({3, Len(chain)}))

Attempt(role, task, solver) ==
    LET route == select_provider_route(task, solver)
    IN  [role |-> role, solver |-> route.selected, k |-> route.k]

(* One bad candidate refuses the whole plan. *)
PlanAccepted(r) ==
    /\ select_provider_route(r.task, r.solver).status = "ok"
    /\ \A i \in DOMAIN r.chain : r.chain[i] \in supported_solvers(r.task)
    /\ \A i \in DOMAIN Candidates(r.chain) :
         select_provider_route(r.task, Candidates(r.chain)[i]).status = "ok"

build_fallback_attempts(r) ==
    <<Attempt("primary", r.task, r.solver)>>
        \o [i \in DOMAIN Candidates(r.chain) |-> Attempt("fallback", r.task, Candidates(r.chain)[i])]

(***************************************************************************)
(* The request.                                                            *)
(***************************************************************************)
RouteInit ==
    /\ request = NoRequest /\ attempts = <<>>
    /\ tried = <<>> /\ total_solve_seconds = 0 /\ exhausted = FALSE
    /\ job = NoJob /\ history = NoHistory

(* A request is routed before anything is charged or stored; a refused one *)
(* leaves nothing behind.  An async job and a task type without a solver   *)
(* are stored with the primary route and not executed here.                *)
post_optimization_route ==
    /\ request = NoRequest
    /\ \E task \in Tasks : \E solver \in Solvers \cup {Default} :
         \E n \in 0..MaxChain : \E chain \in [1..n -> Solvers] :
            LET r == [task |-> task, solver |-> solver, chain |-> chain]
            IN  /\ PlanAccepted(r)
                /\ request' = r
                /\ attempts' = build_fallback_attempts(r)
    /\ \E status \in {"queued", "in_progress", "failed"} :
         /\ status = "failed" <=> request'.task # "lp"
         /\ job' = [NoJob EXCEPT !.status = status, !.primary = attempts'[1].k]
    /\ UNCHANGED <<tried, total_solve_seconds, exhausted, history>>

(* The demo needs no account: the same routing and the same attempts, for a *)
(* linear program only, and nothing is charged or stored.                   *)
post_optimization_demo ==
    /\ request = NoRequest
    /\ \E solver \in Solvers \cup {Default} : \E n \in 0..MaxChain : \E chain \in [1..n -> Solvers] :
         LET r == [task |-> "lp", solver |-> solver, chain |-> chain]
         IN  /\ PlanAccepted(r)
             /\ request' = r
             /\ attempts' = build_fallback_attempts(r)
    /\ job' = [NoJob EXCEPT !.status = "demo"]
    /\ UNCHANGED <<tried, total_solve_seconds, exhausted, history>>

remaining_budget == Max({MaxSolveSeconds - total_solve_seconds, 0})

is_retryable_solver_result(status) == status \in {"timeout", "error"}

(* The loop goes on: time is left, an attempt is left, and the last one    *)
(* failed in a way another provider may not.                               *)
Running ==
    /\ job.status \in {"in_progress", "demo"} /\ ~exhausted
    /\ Len(tried) < Len(attempts)
    /\ remaining_budget > 0
    /\ tried # <<>> => is_retryable_solver_result(Last(tried).status)

(* The next attempt is executed with a budget.  A solver that stops late    *)
(* overshoots it by at most one unit.                                       *)
Execute(budget) ==
    /\ Running
    /\ LET a == attempts[Len(tried) + 1]
       IN  \E status \in {"optimal", "infeasible", "unbounded", "timeout", "error"} :
           \E seconds \in 0..(budget + 1) :
              /\ tried' = Append(tried, [attempt |-> Len(tried) + 1, role |-> a.role, k |-> a.k,
                                         status |-> status, seconds |-> seconds,
                                         remaining_budget |-> budget])
              /\ total_solve_seconds' = total_solve_seconds + seconds
              /\ exhausted' = ( /\ is_retryable_solver_result(status)
                                /\ \/ total_solve_seconds' >= MaxSolveSeconds
                                   \/ Len(tried) + 1 = Len(attempts))
    /\ UNCHANGED <<request, attempts, job, history>>

(* Mutant: every attempt gets the whole budget. *)
ExecuteAttemptFullBudget == Execute(MaxSolveSeconds)

ExecuteAttempt == Execute(remaining_budget)

(* The metadata of the execution, with the last attempt as its result.     *)
build_fallback_execution_metadata ==
    [job EXCEPT !.status = IF Last(tried).status = "optimal" THEN "completed" ELSE "failed",
                !.executed = Last(tried).k, !.execution = TRUE,
                !.terminal = Last(tried).attempt, !.seconds = total_solve_seconds,
                !.attempts = tried, !.exhausted = exhausted]

FinishExecution ==
    /\ job.status = "in_progress" /\ tried # <<>> /\ ~Running
    /\ job' = build_fallback_execution_metadata
    /\ UNCHANGED <<request, attempts, tried, total_solve_seconds, exhausted, history>>

(* The visitor of the demo is answered with the solution and what to cite  *)
(* for it, or with the error of the last attempt.                          *)
AnswerDemo ==
    /\ job.status = "demo" /\ tried # <<>> /\ ~Running
    /\ job' = [job EXCEPT !.status = "demo answered",
                          !.executed = IF Last(tried).status = "optimal" THEN Last(tried).k ELSE @]
    /\ UNCHANGED <<request, attempts, tried, total_solve_seconds, exhausted, history>>

(* What the history shows of a stored job. *)
_routing_history_metadata(j) ==
    IF j.execution
    THEN [count |-> Max({Len(j.attempts), j.terminal}),
          fallback_used |-> j.terminal > 1 \/ \E i \in DOMAIN j.attempts : j.attempts[i].role = "fallback",
          status |-> Last(j.attempts).status, terminal |-> j.terminal, exhausted |-> j.exhausted,
          executed |-> j.executed, seconds |-> j.seconds]
    ELSE IF j.status \in {"queued", "in_progress"} THEN NoHistory
    ELSE [NoHistory EXCEPT !.count = 1, !.status = j.status, !.terminal = 1]

ReadHistory ==
    /\ job.status \notin {"none", "demo", "demo answered"}
    /\ history' = _routing_history_metadata(job)
    /\ UNCHANGED <<request, attempts, tried, total_solve_seconds, exhausted, job>>

RouteNext ==
    \/ post_optimization_route \/ post_optimization_demo \/ ExecuteAttempt \/ FinishExecution
    \/ AnswerDemo \/ ReadHistory

-----------------------------------------------------------------------------
(* Only algorithms of the public catalog are executed, and of the          *)
(* platform's own only those that passed every audit rule: no combination  *)
(* of default solver, explicit solver and fallback chain gets past the     *)
(* gate, whatever the audit metadata lists.                                *)
OnlyPublishedExecuted ==
    \A i \in DOMAIN tried :
        \E row \in publishable_catalog_items :
            /\ row.k = tried[i].k
            /\ row.kind = "self" => \A r \in Rules : r \in DOMAIN row.audit /\ row.audit[r]

(* However many attempts fail, a request uses no more than its time budget *)
(* and the overshoot of its last attempt, and is tried four times at most: *)
(* what an attempt is given is what all attempts before it have left over, *)
(* and an attempt that has nothing left is not made.                       *)
OneBudget ==
    /\ total_solve_seconds <= MaxSolveSeconds + 1
    /\ Len(tried) <= 4
    /\ \A i \in DOMAIN tried :
         LET left == tried[i].remaining_budget - tried[i].seconds
         IN  /\ tried[i].remaining_budget > 0
             /\ i = 1 => tried[i].remaining_budget = MaxSolveSeconds
             /\ IF i = Len(tried) THEN total_solve_seconds = MaxSolveSeconds - left
                ELSE tried[i + 1].remaining_budget = left

(* Once a job was executed, what its owner is shown explains the result:   *)
(* it is exhausted exactly when the last attempt could have been retried,  *)
(* every attempt before the last one could, a fallback is reported exactly *)
(* when one ran, and the executed provider is the one of the last attempt. *)
HistoryExplainsResult ==
    job.execution =>
        LET h == _routing_history_metadata(job)
        IN  /\ h.exhausted <=> is_retryable_solver_result(h.status)
            /\ \A i \in 1..(Len(tried) - 1) : is_retryable_solver_result(tried[i].status)
            /\ h.count = Len(tried) /\ h.terminal = Len(tried)
            /\ h.fallback_used <=> Len(tried) > 1
            /\ h.executed = attempts[Len(tried)].k
            /\ h.executed # job.primary => h.fallback_used
=============================================================================
