--------------------------- MODULE Subscriptions ---------------------------
(***************************************************************************)
(* Plans of billing-service: the subscription of one user, its monthly     *)
(* refills, the prorated upgrade and the education entitlements.           *)
(*                                                                         *)
(* Every handler locks the user or the subscription row before it decides, *)
(* and reads neither before that, so each is one step.  What it looks up   *)
(* earlier is the idempotency record, which can only end the request with  *)
(* a stored answer; here any number of requests go on.  A transaction that *)
(* fails leaves no trace.                                                  *)
(*                                                                         *)
(* Time is counted in ticks, Day of them a day.  A month has a fixed       *)
(* length; add_one_calendar_month follows the calendar.                    *)
(***************************************************************************)
EXTENDS Integers, Sequences, SequencesExt

CONSTANTS
    Day,      \* ticks of a day
    Month,    \* ticks of a month
    Trial,    \* ticks of the education Pro trial
    Credits,  \* monthly_credits of each plan
    Skew,     \* how far the scheduler's as_of is ahead of a handler's clock
    MaxTime   \* bound: the last tick

Plans == {"free", "starter", "pro", "team", "enterprise"}

ASSUME TimeAssumption ==
    /\ Day \in Nat \ {0} /\ Month \in Nat \ {0} /\ Trial \in Nat \ {0}
    /\ Skew \in Nat /\ MaxTime \in Nat
ASSUME CreditsAssumption ==
    /\ Credits \in [Plans -> Nat]
    /\ Credits["free"] = 0 /\ \A p \in Plans \ {"free"} : Credits[p] > 0
    /\ Credits["starter"] < Credits["pro"]

VARIABLES
    now,     \* datetime.now(UTC)
    user,    \* users.edu_tier, and whether the signup seed was credited
    sub,     \* the active billing_subscriptions row
    ledger,  \* credit_transactions of kinds monthly_refill and subscription_proration
    outbox,  \* the subscription's outbox events
    periods  \* history: the billing periods since the last activation

vars == <<now, user, sub, ledger, outbox, periods>>

-----------------------------------------------------------------------------
Never == -1

NoSubscription ==
    [plan |-> "none", start |-> Never, end |-> Never, last |-> Never,
     entitlement |-> "none", trial_used |-> FALSE]

Entitlements == {"none", "starter_free", "pro_30d_trial"}

is_edu_starter(s) == s.plan = "starter" /\ s.entitlement = "starter_free"
is_edu_pro_trial(s) == s.plan = "pro" /\ s.entitlement = "pro_30d_trial"
has_education_metadata(s) == s.entitlement # "none" \/ s.trial_used

refill_bucket(s) == IF s.entitlement = "none" THEN "monthly" ELSE "edu"

add_one_month(t) == t + Month

(* Whole days, a day that has begun included. *)
_ceil_days(ticks) == IF ticks <= 0 THEN 0 ELSE (ticks + Day - 1) \div Day

(* A subscription whose period begins at t. *)
Begin(s, plan, t, length) ==
    [s EXCEPT !.plan = plan, !.start = t, !.end = t + length, !.last = Never]

Period(s) == [start |-> s.start, end |-> s.end, plan |-> s.plan]

(* The rows _apply_monthly_refill_once writes for s: none if the period has *)
(* been refilled, or if the plan is free.                                   *)
RefillRows(s) ==
    IF s.last = s.start \/ Credits[s.plan] = 0 THEN <<>>
    ELSE << [kind |-> "monthly_refill", start |-> s.start, plan |-> s.plan,
             amount |-> Credits[s.plan], bucket |-> refill_bucket(s)] >>

RefillEvents(rows) == [i \in DOMAIN rows |-> "refilled"]

(* The new row of the subscription, the events that announce it, its refill *)
(* and the commit.                                                          *)
_apply_monthly_refill_once(s, events) ==
    /\ sub' = [s EXCEPT !.last = s.start]
    /\ ledger' = ledger \o RefillRows(s)
    /\ outbox' = outbox \o events \o RefillEvents(RefillRows(s))

(* A user without a subscription, or one with a Starter subscription from   *)
(* before education plans existed.                                          *)
Init ==
    /\ now = 0
    /\ user \in {u \in [edu_tier : BOOLEAN, seeded : BOOLEAN] : u.seeded => u.edu_tier}
    /\ \/ /\ sub = NoSubscription
          /\ ledger = <<>> /\ outbox = <<>> /\ periods = {}
       \/ LET old == Begin(NoSubscription, "starter", 0, Month) IN
          /\ sub = [old EXCEPT !.last = 0]
          /\ ledger = RefillRows(old)
          /\ outbox = <<"activated", "refilled">>
          /\ periods = {Period(old)}

-----------------------------------------------------------------------------
(* The first subscription of a user who is not on the education path. *)
create_subscription(plan) ==
    LET new == Begin(NoSubscription, plan, now, Month) IN
    /\ sub = NoSubscription
    /\ ~(plan = "starter" /\ user.edu_tier)
    /\ _apply_monthly_refill_once(new, <<"activated">>)
    /\ periods' = {Period(new)}
    /\ UNCHANGED <<now, user>>

(* x / y, rounded half up. *)
Quantize(x, y) == (2 * x + y) \div (2 * y)

(* The part of the difference that the remaining days of the period earn. *)
proration_amount(s, t) ==
    Quantize((Credits["pro"] - Credits["starter"]) * _ceil_days(s.end - t),
             _ceil_days(s.end - s.start))

_upgrade_starter_to_pro_with_proration ==
    /\ sub.plan = "starter"
    /\ ~has_education_metadata(sub) /\ ~user.edu_tier
    /\ sub.end > now
    /\ proration_amount(sub, now) > 0
    /\ sub' = [sub EXCEPT !.plan = "pro"]
    /\ ledger' = Append(ledger, [kind |-> "subscription_proration", start |-> sub.start,
                                 plan |-> "pro", amount |-> proration_amount(sub, now),
                                 bucket |-> "monthly"])
    /\ outbox' = Append(outbox, "plan_changed")
    /\ UNCHANGED <<now, user, periods>>

(* Education Starter: a Starter subscription is relabelled; a Free one, or  *)
(* none, begins a period, which the signup seed has paid for already.       *)
_activate_or_return_edu_starter ==
    /\ user.edu_tier
    /\ \/ /\ sub.plan = "starter" /\ ~is_edu_starter(sub)
          /\ sub' = [sub EXCEPT !.entitlement = "starter_free"]
          /\ outbox' = Append(outbox, "edu_starter.activated")
          /\ UNCHANGED <<ledger, periods>>
       \/ LET new == [Begin(sub, "starter", now, Month) EXCEPT
                         !.last = IF user.seeded THEN now ELSE Never,
                         !.entitlement = "starter_free"]
          IN
          /\ sub = NoSubscription \/ sub.plan = "free"
          /\ _apply_monthly_refill_once(new, <<"edu_starter.activated">>)
          /\ periods' = {Period(new)}
    /\ UNCHANGED <<now, user>>

(* The 30-day Pro trial, once. *)
_activate_or_return_edu_pro_trial ==
    LET new == [Begin(sub, "pro", now, Trial) EXCEPT
                   !.entitlement = "pro_30d_trial", !.trial_used = TRUE]
    IN
    /\ user.edu_tier
    /\ ~sub.trial_used
    /\ sub.plan \notin {"pro", "team", "enterprise"}
    /\ _apply_monthly_refill_once(new, <<"edu_pro_trial.activated">>)
    /\ periods' = {Period(new)}
    /\ UNCHANGED <<now, user>>

-----------------------------------------------------------------------------
(* Mutants: the fallback forgets the trial, or is only announced. *)
fallback_forgets(s) ==
    [Begin(s, "starter", s.end, Month) EXCEPT
        !.entitlement = "starter_free", !.trial_used = FALSE]

fallback_still_pro(s) ==
    [Begin(s, "pro", s.end, Month) EXCEPT !.entitlement = "pro_30d_trial"]

(* The Starter period that follows a trial begins where the trial ended. *)
_fallback_edu_pro_trial_to_starter(s) ==
    [Begin(s, "starter", s.end, Month) EXCEPT !.entitlement = "starter_free"]

(* Mutant: one period, which begins when the scheduler runs. *)
ElapsedFromAsOf(s, as_of) ==
    IF s.end > as_of THEN <<>> ELSE <<[s EXCEPT !.start = as_of, !.end = add_one_month(as_of)]>>

(* The while loop of refill_due: s in each of the periods that have begun   *)
(* by as_of, each refilled before the next one begins.                      *)
Elapsed(s, as_of) ==
    LET n == IF s.end > as_of THEN 0 ELSE (as_of - s.end) \div Month + 1
        begin(i) == s.end + (i - 1) * Month
    IN  [i \in 1..n |-> [s EXCEPT !.start = begin(i), !.end = add_one_month(begin(i)),
                                  !.last = IF i = 1 THEN s.last ELSE begin(i - 1)]]

(* refill_due_subscriptions: first the end of a trial, then the periods     *)
(* that have elapsed, in one transaction.                                   *)
refill_due(as_of) ==
    LET ended == is_edu_pro_trial(sub)
        first == IF ended THEN _fallback_edu_pro_trial_to_starter(sub) ELSE sub
        settled == IF ended THEN [first EXCEPT !.last = first.start] ELSE first
        later == Elapsed(settled, as_of)
        all == (IF ended THEN <<first>> ELSE <<>>) \o later
        rows == FlattenSeq([i \in DOMAIN all |-> RefillRows(all[i])])
    IN
    /\ sub # NoSubscription /\ sub.end <= as_of
    /\ sub' = [Last(all) EXCEPT !.last = Last(all).start]
    /\ ledger' = ledger \o rows
    /\ outbox' = outbox
                 \o (IF ended THEN <<"edu_pro_trial.ended", "edu_starter.activated">> ELSE <<>>)
                 \o RefillEvents(rows)
    /\ periods' = periods \cup {Period(all[i]) : i \in DOMAIN all}
    /\ UNCHANGED <<now, user>>

Tick ==
    /\ now < MaxTime
    /\ now' = now + 1
    /\ UNCHANGED <<user, sub, ledger, outbox, periods>>

Next ==
    \/ \E plan \in Plans : create_subscription(plan)
    \/ _upgrade_starter_to_pro_with_proration
    \/ _activate_or_return_edu_starter
    \/ _activate_or_return_edu_pro_trial
    \/ \E as_of \in 0 .. (now + Skew) : refill_due(as_of)
    \/ Tick

Spec == Init /\ [][Next]_vars

(* Time passes, and the scheduler calls refill-due again and again. *)
FairSpec == Spec /\ WF_vars(Tick) /\ WF_vars(refill_due(now))

-----------------------------------------------------------------------------
(* Row i of the ledger is the refill of this period. *)
Refills(i, start, plan) ==
    ledger[i].kind = "monthly_refill" /\ ledger[i].start = start /\ ledger[i].plan = plan

(* "refilled ... exactly once per billing period" (story 5.B.1): the paid   *)
(* periods since the last activation have one refill row each, the first    *)
(* one none if the signup seed paid for it, and no period ever has two,     *)
(* however late or often the scheduler runs.                                *)
RefilledOncePerPeriod ==
    /\ \A i, j \in DOMAIN ledger :
          ledger[i].kind = "monthly_refill" /\ Refills(j, ledger[i].start, ledger[i].plan) => i = j
    /\ \A p \in periods :
          \/ \E i \in DOMAIN ledger : Refills(i, p.start, p.plan)
          \/ p.plan = "free"
          \/ user.seeded /\ p.plan = "starter" /\ \A q \in periods : p.start <= q.start

(* No time is skipped or billed twice: since the user last activated a plan *)
(* the periods follow one another without a gap up to the current one, the  *)
(* Starter period after a trial included (refill_due_subscriptions).        *)
PeriodsTile ==
    \A p \in periods :
        /\ p.start < p.end
        /\ p.end = sub.end \/ \E q \in periods : q.start = p.end
        /\ \A q \in periods : q = p \/ q.end <= p.start \/ p.end <= q.start

(* "education Pro trial can only be activated once", whatever plan the user *)
(* falls back to or the scheduler renews afterwards.                        *)
TrialOnce ==
    /\ \A i, j \in DOMAIN outbox :
          outbox[i] = "edu_pro_trial.activated" /\ outbox[j] = "edu_pro_trial.activated" => i = j
    /\ is_edu_pro_trial(sub) => sub.trial_used

(* A Starter period that is upgraded brings no more credits than a Pro one: *)
(* the remaining days never outnumber the days of the period.               *)
UpgradeWithinPro ==
    \A i, j \in DOMAIN ledger :
        /\ ledger[i].kind = "monthly_refill" /\ ledger[j].kind = "subscription_proration"
        /\ ledger[i].start = ledger[j].start
        => ledger[i].amount + ledger[j].amount <= Credits["pro"]

(* A trial ends: the scheduler moves the user back to Starter.              *)
TrialEnds ==
    (is_edu_pro_trial(sub) /\ sub.end <= MaxTime) ~> (sub.plan = "starter")

(* Whatever a user and the scheduler do, every period is refilled exactly   *)
(* once and the periods follow each other without gap or overlap.           *)
EveryPeriodRefilledOnce == RefilledOncePerPeriod /\ PeriodsTile

(* A user gets one trial in a lifetime, and no upgrade is worth more than a *)
(* month of Pro.                                                            *)
EntitlementsBounded == TrialOnce /\ UpgradeWithinPro
=============================================================================
