--------------------------- MODULE BudgetControl ----------------------------
(***************************************************************************)
(* A user's monthly budget beside charges that settle, over the change of  *)
(* the month.  configure_budget locks the user's row and                   *)
(* evaluate_budget_thresholds only the budget's row, so while that row     *)
(* does not exist the two do not see each other.  A transaction reads what *)
(* is committed, and the clock, when it begins; its row lock is held until *)
(* it commits, which may be in the next month.                             *)
(***************************************************************************)
EXTENDS Integers, FiniteSets

CONSTANTS
    Settlers,       \* sessions that settle charges or configure the budget
    Budgets,        \* monthly_budget_amount the user may choose
    Cost,           \* what one charge costs
    MaxSpend,       \* bound: a month's spend
    MaxMonth        \* bound: the last month

ASSUME BudgetAssumption ==
    Budgets \subseteq Nat \ {0} /\ Cost \in Nat /\ MaxMonth \in Nat

Months == 0 .. MaxMonth
NotPaused == -1     \* pause_period_start of an active row

VARIABLES
    month,          \* the current period
    spend,          \* the committed spend of each month
    budget,         \* the committed billing_budget_controls row
    settler,        \* what each session holds until it commits
    missed          \* history: a charge settled unseen while the row was being created

budgetVars == <<month, spend, budget, settler, missed>>

NoBudget == [exists |-> FALSE, limit |-> 0, enabled |-> FALSE, paused |-> NotPaused]
NoSettler == [doing |-> "idle", row |-> NoBudget, seen |-> 0, month |-> 0]

BudgetInit ==
    /\ month = 0 /\ spend = [p \in Months |-> 0] /\ budget = NoBudget /\ missed = FALSE
    /\ settler = [s \in Settlers |-> NoSettler]

(* A pause of an earlier month is kept. *)
evaluate_thresholdsOnce(row, spent) ==
    IF ~row.enabled THEN row
    ELSE [row EXCEPT !.paused = IF @ = NotPaused /\ spent >= row.limit THEN month ELSE @]

(* A pause of an earlier month is lifted; reaching the budget pauses. *)
evaluate_thresholds(row, spent) ==
    IF ~row.enabled THEN row
    ELSE [row EXCEPT !.paused = IF spent >= row.limit THEN month
                                ELSE IF @ # month THEN NotPaused ELSE @]

(* Who waits: for the row while another session holds it, and for the user *)
(* while another session configures.                                       *)
RowHeld == budget.exists /\ \E s \in Settlers : settler[s].row.exists
UserHeld == \E s \in Settlers : settler[s].doing = "configure"

configure_budget_begin(s) ==
    /\ settler[s] = NoSettler
    /\ ~RowHeld /\ ~UserHeld
    /\ \E limit \in Budgets, enabled \in BOOLEAN :
         settler' = [settler EXCEPT ![s] =
             [doing |-> "configure", seen |-> spend[month], month |-> month,
              row |-> evaluate_thresholds(
                        [exists |-> TRUE, enabled |-> enabled, paused |-> NotPaused,
                         limit |-> IF enabled THEN limit
                                   ELSE IF budget.exists THEN budget.limit ELSE limit],
                        spend[month])]]
    /\ UNCHANGED <<month, spend, budget, missed>>

(* The debit is written, and the thresholds are evaluated with it. *)
finalize_begin(s) ==
    /\ settler[s] = NoSettler
    /\ ~RowHeld
    /\ settler' = [settler EXCEPT ![s] =
           [doing |-> "settle", seen |-> spend[month], month |-> month,
            row |-> IF budget.exists THEN evaluate_thresholds(budget, spend[month] + Cost)
                    ELSE NoBudget]]
    /\ UNCHANGED <<month, spend, budget, missed>>

(* The session saw all that is committed in the current month. *)
SawAll(s) == settler[s].month = month /\ settler[s].seen = spend[month]

configure_budget_commit(s) ==
    /\ settler[s].doing = "configure"
    /\ budget' = settler[s].row
    /\ missed' = (missed /\ ~SawAll(s))
    /\ settler' = [settler EXCEPT ![s] = NoSettler]
    /\ UNCHANGED <<month, spend>>

finalize_commit(s) ==
    /\ settler[s].doing = "settle"
    /\ LET p == settler[s].month
       IN  /\ spend[p] + Cost <= MaxSpend
           /\ spend' = [spend EXCEPT ![p] = @ + Cost]
    /\ budget' = IF settler[s].row.exists THEN settler[s].row ELSE budget
    /\ missed' = IF settler[s].row.exists THEN missed /\ ~SawAll(s)
                 ELSE UserHeld \/ budget.exists
    /\ settler' = [settler EXCEPT ![s] = NoSettler]
    /\ UNCHANGED month

NextMonth ==
    /\ month < MaxMonth
    /\ month' = month + 1
    /\ missed' = FALSE
    /\ UNCHANGED <<spend, budget, settler>>

BudgetNext ==
    \/ \E s \in Settlers :
          \/ configure_budget_begin(s) \/ configure_budget_commit(s)
          \/ finalize_begin(s) \/ finalize_commit(s)
    \/ NextMonth

(* current_budget_is_paused *)
Paused == budget.enabled /\ budget.paused = month

(* An enabled budget that the month's spend has reached pauses charging,   *)
(* in every month anew, unless a charge that began before the budget's row *)
(* existed settled unseen; the next request that evaluates the budget      *)
(* after it makes up for it.                                               *)
BudgetPausesAtNextEvaluation ==
    budget.enabled /\ spend[month] >= budget.limit => Paused \/ missed
=============================================================================
