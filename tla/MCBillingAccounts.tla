------------------------- MODULE MCBillingAccounts -------------------------
(***************************************************************************)
(* What billing-service does for a user's account besides settling one     *)
(* charge: plans and refills, the admission of charges, the keys of its    *)
(* other endpoints, and the creation of a budget.  They write different    *)
(* rows, so a behaviour follows one of them.                               *)
(***************************************************************************)
EXTENDS Subscriptions, ChargeAdmission, BillingKeys, BudgetControl

VARIABLE story

accountVars == <<story, vars, admissionVars, keyVars, budgetVars>>

AccountInit ==
    /\ Init /\ AdmissionInit /\ KeysInit /\ BudgetInit
    /\ story \in {"plans", "admission", "keys", "budget"}
    /\ story # "plans" => sub = NoSubscription /\ ~user.edu_tier

PlanStep(A) == story = "plans" /\ A /\ UNCHANGED <<story, admissionVars, keyVars, budgetVars>>

AccountNext ==
    \/ PlanStep(Next)
    \/ /\ story = "admission" /\ AdmissionNext
       /\ UNCHANGED <<story, vars, keyVars, budgetVars>>
    \/ /\ story = "keys" /\ KeysNext
       /\ UNCHANGED <<story, vars, admissionVars, budgetVars>>
    \/ /\ story = "budget" /\ BudgetNext
       /\ UNCHANGED <<story, vars, admissionVars, keyVars>>

(* Time passes, and the scheduler calls refill-due again and again. *)
AccountSpec ==
    /\ AccountInit /\ [][AccountNext]_accountVars
    /\ WF_accountVars(PlanStep(Tick)) /\ WF_accountVars(PlanStep(refill_due(now)))

(* Odd amounts, so that prorating has something to round. *)
SmallCredits ==
    [p \in Plans |-> CASE p = "free" -> 0 [] p = "starter" -> 2 [] p = "pro" -> 7
                       [] p = "team" -> 9 [] p = "enterprise" -> 11]

(* A body the demo credits pay for without a warning, and one that is       *)
(* warned about and too dear once the other is settled.                     *)
SmallPrices == [b \in {"small", "large"} |-> IF b = "small" THEN 2 ELSE 4]

(* However requests repeat and overlap, create_charge gives a request its   *)
(* own charge and a user the demo credits once, and a legal inquiry is      *)
(* submitted once.                                                          *)
AdmissionSound == AnsweredWithOwnCharge /\ DemoCreditsOnce /\ InquirySubmittedOnce
=============================================================================
