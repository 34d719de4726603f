----------------------- MODULE BillingAccountsProofs ------------------------
(***************************************************************************)
(* Proofs about the composed accounts model of billing-service, for any    *)
(* number of users, keys and sessions, any lengths of months and trials,   *)
(* any prices and any number of refills.                                   *)
(*                                                                         *)
(* First the plans.  refill_due writes the rows of all periods that have   *)
(* elapsed with one FlattenSeq.  The provers have no induction, but the    *)
(* library's theorem that the numbers are well founded has no operator     *)
(* parameter: a least counterexample takes the place of the induction.     *)
(***************************************************************************)
EXTENDS MCBillingAccounts, TLAPS, SequenceTheorems, WellFoundedInduction

(* Two sequences built by the same recursion agree: a least place at which  *)
(* they differ would have to follow one at which they do too.               *)
LEMMA LeastFailure ==
  ASSUME NEW n \in Nat, NEW S \in SUBSET (1..n), S # {}
  PROVE  \E i \in S : \A j \in S : i <= j
<1>1. IsWellFoundedOn(OpToRel(<, Nat), Nat)
  BY NatLessThanWellFounded
<1>2. S \subseteq Nat
  OBVIOUS
<1>3. PICK i \in S : \A j \in Nat : <<j, i>> \in OpToRel(<, Nat) => j \notin S
  BY <1>1, <1>2, WFMin
<1>4. \A j \in S : ~(j < i)
  BY <1>2, <1>3 DEF OpToRel
<1> QED
  BY <1>2, <1>4

(* A function that satisfies FlattenSeq's recursion gives its value. *)
LEMMA FlattenByRecursion ==
  ASSUME NEW T, NEW seqs \in Seq(T), Len(seqs) # 0, NEW g,
         g = [i \in 1..Len(seqs) |-> IF i = 1 THEN seqs[i] ELSE g[i - 1] \o seqs[i]]
  PROVE  FlattenSeq(seqs) = g[Len(seqs)]
<1> DEFINE n == Len(seqs)
           F(f) == [i \in 1..n |-> IF i = 1 THEN seqs[i] ELSE f[i - 1] \o seqs[i]]
<1>1. n \in Nat /\ n > 0
  OBVIOUS
<1>2. ASSUME NEW f, f = F(f) PROVE f = g
  <2>1. DOMAIN f = 1..n /\ DOMAIN g = 1..n
    BY <1>2, Zenon
  <2>2. \A i \in 1..n : /\ f[i] = IF i = 1 THEN seqs[i] ELSE f[i - 1] \o seqs[i]
                        /\ g[i] = IF i = 1 THEN seqs[i] ELSE g[i - 1] \o seqs[i]
    BY <1>2, Zenon
  <2>3. ASSUME NEW i \in 1..n, f[i] # g[i],
               \A j \in 1..n : f[j] # g[j] => i <= j
        PROVE  FALSE
    <3>1. i # 1
      BY <2>2, <2>3
    <3>2. i - 1 \in 1..n /\ ~(i <= i - 1)
      BY <1>1, <3>1
    <3>3. f[i - 1] = g[i - 1]
      BY <2>3, <3>2
    <3> QED
      BY <2>2, <2>3, <3>1, <3>3, ZenonT(30)
  <2>4. {i \in 1..n : f[i] # g[i]} = {}
    <3> DEFINE S == {i \in 1..n : f[i] # g[i]}
    <3>1. S \in SUBSET (1..n)
      OBVIOUS
    <3>2. S # {} => \E i \in S : \A j \in S : i <= j
      BY <1>1, <3>1, LeastFailure
    <3> QED
      BY <2>3, <3>2
  <2>5. \A i \in 1..n : f[i] = g[i]
    BY <2>4
  <2>6. f = [i \in 1..n |-> f[i]] /\ g = [i \in 1..n |-> g[i]]
    BY <1>2, <2>1, Zenon
  <2> QED
    BY <2>5, <2>6, Zenon
<1>3. g = F(g)
  OBVIOUS
<1> HIDE DEF F
<1>4. (CHOOSE f : f = F(f)) = g
  BY <1>2, <1>3, Zenon
<1>5. FlattenSeq(seqs) = (CHOOSE f : f = F(f))[n]
  BY <1>1, Zenon DEF FlattenSeq, F
<1> QED
  BY <1>4, <1>5

(* One row from each place gives the rows in order, none from any gives none. *)
LEMMA FlattenSingles ==
  ASSUME NEW T, NEW n \in Nat \ {0}, NEW r \in [1..n -> T]
  PROVE  FlattenSeq([i \in 1..n |-> <<r[i]>>]) = r
<1> DEFINE seqs == [i \in 1..n |-> <<r[i]>>]
           g == [i \in 1..n |-> [j \in 1..i |-> r[j]]]
<1>1. seqs \in Seq(Seq(T)) /\ Len(seqs) = n
  OBVIOUS
<1>2. ASSUME NEW i \in 1..n
      PROVE  g[i] = IF i = 1 THEN seqs[i] ELSE g[i - 1] \o seqs[i]
  <2>1. CASE i = 1
    <3>1. [j \in 1..1 |-> r[j]] = <<r[1]>>
      OBVIOUS
    <3> QED
      BY <2>1, <3>1
  <2>2. CASE i # 1
    <3>1. i - 1 \in 1..n /\ i - 1 \in Nat
      BY <2>2
    <3>2. g[i - 1] = [j \in 1..(i - 1) |-> r[j]] /\ g[i - 1] \in Seq(T) /\ Len(g[i - 1]) = i - 1
      BY <3>1
    <3>3. g[i] = [j \in 1..i |-> r[j]] /\ g[i] \in Seq(T) /\ Len(g[i]) = i
      OBVIOUS
    <3>4. seqs[i] = <<r[i]>> /\ seqs[i] \in Seq(T) /\ Len(seqs[i]) = 1
      OBVIOUS
    <3> HIDE DEF g, seqs
    <3>5. /\ g[i - 1] \o seqs[i] \in Seq(T) /\ Len(g[i - 1] \o seqs[i]) = i
          /\ \A j \in 1..i : (g[i - 1] \o seqs[i])[j] =
                             IF j <= i - 1 THEN g[i - 1][j] ELSE seqs[i][j - (i - 1)]
      BY <3>1, <3>2, <3>4
    <3>6. \A j \in 1..i : (g[i - 1] \o seqs[i])[j] = r[j]
      <4> TAKE j \in 1..i
      <4>1. CASE j <= i - 1
        BY <3>1, <3>2, <3>5, <4>1
      <4>2. CASE ~(j <= i - 1)
        <5>1. j = i /\ j - (i - 1) = 1
          BY <4>2
        <5> QED
          BY <3>4, <3>5, <4>2, <5>1
      <4> QED
        BY <4>1, <4>2
    <3>7. \A j \in 1..i : g[i][j] = r[j]
      BY <3>3
    <3>8. PICK whole \in Seq(T) : whole = g[i - 1] \o seqs[i]
      BY <3>5
    <3>9. Len(whole) = i /\ \A j \in 1..i : whole[j] = g[i][j]
      BY <3>5, <3>6, <3>7, <3>8
    <3>10. g[i] = g[i - 1] \o seqs[i]
      BY <3>3, <3>8, <3>9, SeqEqual
    <3> QED
      BY <2>2, <3>10
  <2> QED
    BY <2>1, <2>2
<1>3. g = [i \in 1..n |-> IF i = 1 THEN seqs[i] ELSE g[i - 1] \o seqs[i]]
  BY <1>2, Zenon
<1>4. g[n] = r
  OBVIOUS
<1> HIDE DEF seqs, g
<1>5. FlattenSeq(seqs) = g[Len(seqs)]
  BY <1>1, <1>3, FlattenByRecursion
<1> QED
  BY <1>1, <1>4, <1>5 DEF seqs

(* FlattenSeq of empty sequences is empty: a free plan has no rows.         *)
LEMMA FlattenNothing ==
  ASSUME NEW n \in Nat \ {0}
  PROVE  FlattenSeq([i \in 1..n |-> <<>>]) = <<>>
<1> DEFINE seqs == [i \in 1..n |-> <<>>]
           g == [i \in 1..n |-> <<>>]
<1>1. seqs \in Seq(Seq(Nat)) /\ Len(seqs) = n
  OBVIOUS
<1>2. <<>> \o <<>> = <<>>
  OBVIOUS
<1>3. \A i \in 1..n : i # 1 => i - 1 \in 1..n
  OBVIOUS
<1>4. g = [i \in 1..n |-> IF i = 1 THEN seqs[i] ELSE g[i - 1] \o seqs[i]]
  BY <1>2, <1>3, Zenon
<1>5. g[n] = <<>>
  OBVIOUS
<1> HIDE DEF seqs, g
<1>6. FlattenSeq(seqs) = g[Len(seqs)]
  BY <1>1, <1>4, FlattenByRecursion
<1> QED
  BY <1>1, <1>5, <1>6 DEF seqs

(* Whole months: n of them end before the next begins, and as many as fit   *)
(* into x ticks take no more than x.                                        *)
LEMMA MonthsFollow ==
  ASSUME NEW m \in Nat \ {0}, NEW i \in Nat, NEW j \in Nat, i < j
  PROVE  i * m \in Nat /\ i * m + m <= j * m /\ (i + 1) * m = i * m + m
<1>1. i * m \in Nat /\ j * m \in Nat /\ (i + 1) * m = i * m + m
  OBVIOUS
<1>2. PICK d \in Nat : j = i + 1 + d
  <2>1. j - (i + 1) \in Nat /\ j = i + 1 + (j - (i + 1))
    OBVIOUS
  <2> QED
    BY <2>1
<1>3. j * m = i * m + m + d * m /\ d * m \in Nat
  BY <1>2
<1> QED
  BY <1>1, <1>3

(* The last of the months counted by Elapsed has begun by as_of.            *)
LEMMA MonthsFit ==
  ASSUME NEW m \in Nat \ {0}, NEW x \in Nat
  PROVE  x \div m \in Nat /\ (x \div m) * m <= x
OBVIOUS

(***************************************************************************)
(* The inductive invariant.                                                *)
(***************************************************************************)
Subscribed ==
    [plan : Plans, start : Nat, end : Nat, last : Int, entitlement : Entitlements,
     trial_used : BOOLEAN]

LedgerRows ==
    [kind : {"monthly_refill", "subscription_proration"}, start : Nat, plan : Plans,
     amount : Int, bucket : {"monthly", "edu"}]

PlanEvents ==
    {"activated", "refilled", "plan_changed", "edu_starter.activated", "edu_pro_trial.activated",
     "edu_pro_trial.ended"}

PlansTypeOK ==
    /\ now \in Nat /\ user \in [edu_tier : BOOLEAN, seeded : BOOLEAN]
    /\ sub \in Subscribed \cup {NoSubscription}
    /\ ledger \in Seq(LedgerRows) /\ outbox \in Seq(PlanEvents)
    /\ periods \subseteq [start : Nat, end : Nat, plan : Plans]

IsRefill(i) == ledger[i].kind = "monthly_refill"

(* Nothing is credited before the first paid plan. *)
UnpaidSoFar ==
    /\ sub.plan \in {"none", "free"} => ledger = <<>>
    /\ sub = NoSubscription => periods = {} /\ outbox = <<>>

(* The current period has been refilled, has begun by the scheduler's clock *)
(* and is the last of the periods.                                          *)
CurrentPeriodIsLast ==
    /\ sub # NoSubscription =>
          /\ sub.last = sub.start /\ sub.start < sub.end /\ sub.start <= now + Skew
          /\ \E p \in periods : p.start = sub.start /\ p.end = sub.end
    /\ \A p \in periods : p.start <= sub.start /\ p.end <= sub.end

(* No row belongs to a period that is still to come. *)
RowsBehind == \A i \in DOMAIN ledger : ledger[i].start < sub.end /\ ledger[i].start <= now + Skew

(* Whoever may still ask for the trial has never had a month of Pro. *)
TrialIsNew ==
    ~sub.trial_used =>
       /\ sub.plan \in {"none", "free", "starter"} =>
             \A i \in DOMAIN ledger : IsRefill(i) => ledger[i].plan # "pro"
       /\ sub.entitlement # "pro_30d_trial"
       /\ \A i \in DOMAIN outbox : outbox[i] # "edu_pro_trial.activated"

PlansInvariant ==
    /\ PlansTypeOK /\ UnpaidSoFar /\ CurrentPeriodIsLast /\ RowsBehind /\ TrialIsNew
    /\ RefilledOncePerPeriod /\ PeriodsTile /\ TrialOnce

(* What an upgrade adds to a period: refills are worth their plan's price,  *)
(* a user who can upgrade has Starter refills only, and a user on the       *)
(* education path never upgrades.                                           *)
RefillsAsPriced == \A i \in DOMAIN ledger : IsRefill(i) => ledger[i].amount = Credits[ledger[i].plan]

UpgradesOnce ==
    /\ ~user.edu_tier /\ sub.plan # "pro" =>
          \A i \in DOMAIN ledger : IsRefill(i) /\ ledger[i].plan = sub.plan
    /\ user.edu_tier => \A i \in DOMAIN ledger : IsRefill(i)
    /\ ~user.edu_tier => sub.entitlement = "none"

UpgradeInvariant == RefillsAsPriced /\ UpgradesOnce /\ UpgradeWithinPro

(***************************************************************************)
(* What refill_due does, in closed form: the plan and the entitlement that *)
(* the due periods have, and the i-th of them.                             *)
(***************************************************************************)
DuePlan == IF is_edu_pro_trial(sub) THEN "starter" ELSE sub.plan
DueEntitlement == IF is_edu_pro_trial(sub) THEN "starter_free" ELSE sub.entitlement
DueStart(i) == sub.end + (i - 1) * Month
DuePeriod(i) == [start |-> DueStart(i), end |-> DueStart(i) + Month, plan |-> DuePlan]
Subscription(p, t, u, last, e, used) ==
    [plan |-> p, start |-> t, end |-> u, last |-> last, entitlement |-> e, trial_used |-> used]
Moved(s, t, u, last) == [s EXCEPT !.start = t, !.end = u, !.last = last]
Due(i, last) ==
    Subscription(DuePlan, DueStart(i), DueStart(i) + Month, last, DueEntitlement, sub.trial_used)
DuesFrom(k, n, last) == [i \in 1..n |-> Due(k + i, IF i = 1 THEN last ELSE DueStart(k + i - 1))]
DueRow(i) ==
    [kind |-> "monthly_refill", start |-> DueStart(i), plan |-> DuePlan,
     amount |-> Credits[DuePlan], bucket |-> IF DueEntitlement = "none" THEN "monthly" ELSE "edu"]
DueLast(i) ==
    IF i # 1 THEN DueStart(i - 1) ELSE IF is_edu_pro_trial(sub) THEN Never ELSE sub.last

(* The due periods begin where the current one ends and follow each other. *)
LEMMA DueStarts ==
  ASSUME sub.end \in Nat
  PROVE  /\ DueStart(1) = sub.end
         /\ \A i \in Nat \ {0} :
               DueStart(i) \in Nat /\ DueStart(i) >= sub.end /\ DueStart(i + 1) = DueStart(i) + Month
         /\ \A i, j \in Nat \ {0} : i < j => DueStart(i) + Month <= DueStart(j)
<1> USE TimeAssumption
<1>1. DueStart(1) = sub.end
  BY DEF DueStart
<1>2. ASSUME NEW i \in Nat \ {0}
      PROVE  DueStart(i) \in Nat /\ DueStart(i) >= sub.end /\ DueStart(i + 1) = DueStart(i) + Month
  <2>1. i - 1 \in Nat /\ i - 1 < i /\ (i - 1) + 1 = i /\ (i + 1) - 1 = i
    OBVIOUS
  <2>2. (i - 1) * Month \in Nat /\ i * Month = (i - 1) * Month + Month
    BY <2>1, MonthsFollow
  <2> QED
    BY <2>1, <2>2 DEF DueStart
<1>3. ASSUME NEW i \in Nat \ {0}, NEW j \in Nat \ {0}, i < j
      PROVE  DueStart(i) + Month <= DueStart(j)
  <2>1. i - 1 \in Nat /\ j - 1 \in Nat /\ i - 1 < j - 1
    BY <1>3
  <2>2. (i - 1) * Month \in Nat /\ (i - 1) * Month + Month <= (j - 1) * Month
    BY <2>1, MonthsFollow
  <2>3. (j - 1) * Month \in Int
    BY <2>1
  <2> QED
    BY <2>2, <2>3 DEF DueStart
<1> QED
  BY <1>1, <1>2, <1>3

(* A subscription moved to another period, field by field.                  *)
LEMMA MovedSubscription ==
  ASSUME NEW p, NEW a, NEW b, NEW c, NEW e, NEW used, NEW t, NEW u, NEW last
  PROVE  Moved(Subscription(p, a, b, c, e, used), t, u, last) = Subscription(p, t, u, last, e, used)
<1> DEFINE Only == [plan : {p}, start : {t}, end : {u}, last : {last}, entitlement : {e},
                    trial_used : {used}]
<1>1. Moved(Subscription(p, a, b, c, e, used), t, u, last) \in Only
  BY DEF Moved, Subscription
<1>2. \A r \in Only : r = Subscription(p, t, u, last, e, used)
  BY DEF Subscription
<1> QED
  BY <1>1, <1>2

(* The periods of Elapsed, for a subscription s whose period ends where the *)
(* k-th due period does.                                                    *)
LEMMA ElapsedIsDue ==
  ASSUME sub.end \in Nat, NEW k \in Nat, NEW s, NEW as_of \in Nat, NEW from, NEW last,
         s = Subscription(DuePlan, from, DueStart(k + 1), last, DueEntitlement, sub.trial_used)
  PROVE  \E n \in Nat :
            /\ Elapsed(s, as_of) = DuesFrom(k, n, last)
            /\ DueStart(k + 1) <= as_of => n > 0
            /\ n > 0 => DueStart(k + n) <= as_of
<1> DEFINE n == IF s.end > as_of THEN 0 ELSE (as_of - s.end) \div Month + 1
           begin(i) == s.end + (i - 1) * Month
<1>1. k + 1 \in Nat \ {0} /\ DueStart(k + 1) \in Nat
  BY DueStarts
<1>2. s.end = DueStart(k + 1) /\ s.last = last
  BY DEF Subscription
<1>3. n \in Nat /\ (DueStart(k + 1) <= as_of => n > 0)
  <2>1. CASE s.end > as_of
    BY <1>1, <1>2, <2>1
  <2>2. CASE ~(s.end > as_of)
    <3>1. as_of - s.end \in Nat
      BY <1>1, <1>2, <2>2
    <3>2. (as_of - s.end) \div Month \in Nat
      BY <3>1, TimeAssumption, MonthsFit
    <3> QED
      BY <2>2, <3>2
  <2> QED
    BY <2>1, <2>2
<1>4. \A i \in Nat \ {0} : begin(i) = DueStart(k + i) /\ begin(i) + Month = DueStart(k + i) + Month
  <2> TAKE i \in Nat \ {0}
  <2>1. ((k + 1) - 1) * Month + (i - 1) * Month = ((k + i) - 1) * Month
    BY TimeAssumption
  <2>2. ((k + 1) - 1) * Month \in Int /\ (i - 1) * Month \in Int
    BY TimeAssumption
  <2> QED
    BY <1>2, <2>1, <2>2 DEF DueStart
<1>5. n > 0 => DueStart(k + n) <= as_of
  <2> SUFFICES ASSUME n > 0 PROVE DueStart(k + n) <= as_of
    OBVIOUS
  <2>1. ~(s.end > as_of) /\ as_of - s.end \in Nat
    BY <1>1, <1>2
  <2>2. n - 1 = (as_of - s.end) \div Month /\ (as_of - s.end) \div Month \in Nat
    BY <2>1, TimeAssumption, MonthsFit
  <2>3. ((as_of - s.end) \div Month) * Month <= as_of - s.end
    BY <2>1, TimeAssumption, MonthsFit
  <2>4. (n - 1) * Month <= as_of - s.end /\ (n - 1) * Month \in Int
    BY <2>2, <2>3, TimeAssumption
  <2>5. begin(n) = DueStart(k + n)
    BY <1>3, <1>4
  <2> HIDE DEF n
  <2>6. begin(n) <= as_of
    BY <1>1, <1>2, <2>4
  <2> QED
    BY <2>5, <2>6
<1>6. \A i \in 1..n :
        Moved(s, begin(i), add_one_month(begin(i)), IF i = 1 THEN s.last ELSE begin(i - 1))
        = Due(k + i, IF i = 1 THEN last ELSE DueStart(k + i - 1))
  <2> HIDE DEF n
  <2> TAKE i \in 1..n
  <2>1. i \in Nat \ {0}
    BY <1>3
  <2>2. begin(i) = DueStart(k + i) /\ add_one_month(begin(i)) = DueStart(k + i) + Month
    BY <1>4, <2>1 DEF add_one_month
  <2>3. i # 1 => begin(i - 1) = DueStart(k + i - 1)
    <3> SUFFICES ASSUME i # 1 PROVE begin(i - 1) = DueStart(k + i - 1)
      OBVIOUS
    <3>1. i - 1 \in Nat \ {0} /\ k + (i - 1) = k + i - 1
      BY <2>1
    <3>2. begin(i - 1) = DueStart(k + (i - 1))
      BY <1>4, <3>1
    <3> QED
      BY <3>1, <3>2
  <2> HIDE DEF begin
  <2>4. (IF i = 1 THEN s.last ELSE begin(i - 1)) = IF i = 1 THEN last ELSE DueStart(k + i - 1)
    BY <1>2, <2>3
  <2> DEFINE last1 == IF i = 1 THEN last ELSE DueStart(k + i - 1)
  <2>5. Moved(s, begin(i), add_one_month(begin(i)), IF i = 1 THEN s.last ELSE begin(i - 1))
        = Moved(s, DueStart(k + i), DueStart(k + i) + Month, last1)
    BY <2>2, <2>4
  <2> HIDE DEF last1
  <2>6. Moved(s, DueStart(k + i), DueStart(k + i) + Month, last1) = Due(k + i, last1)
    BY MovedSubscription DEF Due
  <2> QED
    BY <2>5, <2>6 DEF last1
<1>7. Elapsed(s, as_of) = [i \in 1..n |-> Due(k + i, IF i = 1 THEN last ELSE DueStart(k + i - 1))]
  <2>1. Elapsed(s, as_of) =
          [i \in 1..n |-> Moved(s, begin(i), add_one_month(begin(i)),
                                IF i = 1 THEN s.last ELSE begin(i - 1))]
    BY Zenon DEF Elapsed, Moved
  <2> HIDE DEF n, begin
  <2> QED
    BY <1>6, <2>1, Zenon
<1>8. Elapsed(s, as_of) = DuesFrom(k, n, last)
  BY <1>7, Zenon DEF DuesFrom
<1> HIDE DEF n
<1> QED
  BY <1>3, <1>5, <1>8
(* The subscription in the periods refill_due goes through, as its code     *)
(* computes them.                                                           *)
FirstDue == IF is_edu_pro_trial(sub) THEN _fallback_edu_pro_trial_to_starter(sub) ELSE sub
SettledDue ==
    IF is_edu_pro_trial(sub) THEN [FirstDue EXCEPT !.last = FirstDue.start] ELSE FirstDue
AllDue(as_of) ==
    (IF is_edu_pro_trial(sub) THEN <<FirstDue>> ELSE <<>>) \o Elapsed(SettledDue, as_of)

(* What refill_due starts from: the subscription, or the Starter period after a trial. *)
LEMMA SettledIsDue ==
  ASSUME sub \in Subscribed
  PROVE  /\ is_edu_pro_trial(sub) =>
              /\ FirstDue = Due(1, Never)
              /\ SettledDue = Subscription(DuePlan, sub.end, DueStart(2), DueStart(1),
                                           DueEntitlement, sub.trial_used)
         /\ ~is_edu_pro_trial(sub) =>
              SettledDue = Subscription(DuePlan, sub.start, DueStart(1), sub.last,
                                        DueEntitlement, sub.trial_used)
<1>1. /\ sub.end \in Nat /\ DueStart(1) = sub.end /\ DueStart(2) = sub.end + Month
      /\ DueStart(1) + Month = sub.end + Month
  <2>1. sub.end \in Nat
    BY DEF Subscribed
  <2>2. 1 \in Nat \ {0} /\ 1 + 1 = 2
    OBVIOUS
  <2> QED
    BY <2>1, <2>2, DueStarts
<1>2. CASE is_edu_pro_trial(sub)
  <2>1. DuePlan = "starter" /\ DueEntitlement = "starter_free"
    BY <1>2 DEF DuePlan, DueEntitlement
  <2> DEFINE Only(last) == [plan : {"starter"}, start : {sub.end}, end : {sub.end + Month},
                            last : {last}, entitlement : {"starter_free"},
                            trial_used : {sub.trial_used}]
  <2>2. \A last : \A r \in Only(last) : r = Subscription("starter", sub.end, sub.end + Month, last,
                                                       "starter_free", sub.trial_used)
    BY DEF Subscription
  <2>3. FirstDue \in Only(Never)
    BY <1>2 DEF FirstDue, _fallback_edu_pro_trial_to_starter, Begin, Subscribed
  <2>4. SettledDue \in Only(sub.end)
    <3>1. SettledDue = [FirstDue EXCEPT !.last = FirstDue.start]
      BY <1>2 DEF SettledDue
    <3>2. FirstDue.start = sub.end
      BY <2>3
    <3> QED
      BY <2>3, <3>1, <3>2
  <2> HIDE DEF Only
  <2>5. FirstDue = Subscription("starter", sub.end, sub.end + Month, Never, "starter_free",
                                sub.trial_used)
    BY <2>2, <2>3
  <2>6. SettledDue = Subscription("starter", sub.end, sub.end + Month, sub.end, "starter_free",
                                  sub.trial_used)
    BY <2>2, <2>4
  <2> QED
    BY <1>1, <1>2, <2>1, <2>5, <2>6 DEF Due
<1>3. CASE ~is_edu_pro_trial(sub)
  <2>1. DuePlan = sub.plan /\ DueEntitlement = sub.entitlement /\ SettledDue = sub
    BY <1>3 DEF DuePlan, DueEntitlement, SettledDue, FirstDue
  <2>2. sub = Subscription(sub.plan, sub.start, sub.end, sub.last, sub.entitlement, sub.trial_used)
    BY DEF Subscribed, Subscription
  <2> QED
    BY <1>1, <1>3, <2>1, <2>2
<1> QED
  BY <1>2, <1>3

(* The periods refill_due writes are the due ones, in order.                *)
LEMMA AllAreDue ==
  ASSUME sub \in Subscribed, NEW as_of \in Nat, sub.end <= as_of
  PROVE  \E n \in Nat \ {0} :
            AllDue(as_of) = [i \in 1..n |-> Due(i, DueLast(i))] /\ DueStart(n) <= as_of
<1>1. sub.end \in Nat /\ DueStart(1) = sub.end
  BY DueStarts DEF Subscribed
<1>2. CASE ~is_edu_pro_trial(sub)
  <2>1. 0 \in Nat /\ 0 + 1 = 1
    OBVIOUS
  <2>2. PICK n \in Nat :
          /\ Elapsed(SettledDue, as_of) = DuesFrom(0, n, sub.last)
          /\ DueStart(0 + 1) <= as_of => n > 0
          /\ n > 0 => DueStart(0 + n) <= as_of
    BY <1>1, <1>2, <2>1, SettledIsDue, ElapsedIsDue
  <2>3. n > 0 /\ DueStart(n) <= as_of
    BY <1>1, <2>1, <2>2
  <2>4. \A i \in 1..n : Due(0 + i, IF i = 1 THEN sub.last ELSE DueStart(0 + i - 1)) = Due(i, DueLast(i))
    BY <1>2 DEF DueLast
  <2>5. Elapsed(SettledDue, as_of) = [i \in 1..n |-> Due(i, DueLast(i))]
    BY <2>2, <2>4, Zenon DEF DuesFrom
  <2>6. AllDue(as_of) = <<>> \o Elapsed(SettledDue, as_of)
    BY <1>2 DEF AllDue
  <2>7. AllDue(as_of) = [i \in 1..n |-> Due(i, DueLast(i))]
    <3>1. PICK s : s = [i \in 1..n |-> Due(i, DueLast(i))]
      BY Zenon
    <3>2. s \in Seq({Due(i, DueLast(i)) : i \in 1..n})
      BY <3>1
    <3>3. <<>> \o s = s
      BY <3>2
    <3> QED
      BY <2>5, <2>6, <3>1, <3>3
  <2> QED
    BY <2>3, <2>7
<1>3. CASE is_edu_pro_trial(sub)
  <2>1. PICK k, s, from, last :
          k = 1 /\ s = SettledDue /\ from = sub.end /\ last = DueStart(1)
    BY Zenon
  <2>2. PICK n \in Nat :
          /\ s = SettledDue /\ k = 1
          /\ Elapsed(s, as_of) = DuesFrom(k, n, last)
          /\ DueStart(k + 1) <= as_of => n > 0
          /\ n > 0 => DueStart(k + n) <= as_of
    <3>1. k \in Nat /\ k + 1 = 2
      BY <2>1
    <3>2. s = Subscription(DuePlan, from, DueStart(k + 1), last, DueEntitlement, sub.trial_used)
      BY <1>3, <2>1, <3>1, SettledIsDue
    <3>3. \E n \in Nat :
            /\ Elapsed(s, as_of) = DuesFrom(k, n, last)
            /\ DueStart(k + 1) <= as_of => n > 0
            /\ n > 0 => DueStart(k + n) <= as_of
      BY <1>1, <3>1, <3>2, ElapsedIsDue
    <3> QED
      BY <2>1, <3>3
  <2>3. n + 1 \in Nat \ {0} /\ DueStart(n + 1) <= as_of
    <3>1. CASE n = 0
      BY <1>1, <3>1
    <3>2. CASE n # 0
      <4>1. n > 0 /\ k + n = n + 1
        BY <2>2, <3>2
      <4> QED
        BY <2>2, <4>1
    <3> QED
      BY <3>1, <3>2
  <2>4. PICK later : later = Elapsed(SettledDue, as_of)
    BY Zenon
  <2>5. DOMAIN later = 1..n /\ \A i \in 1..n : later[i] = Due(k + i, DueLast(k + i))
    <3>1. later = [i \in 1..n |-> Due(k + i, IF i = 1 THEN DueStart(1) ELSE DueStart(k + i - 1))]
      BY <2>1, <2>2, <2>4, Zenon DEF DuesFrom
    <3>2. \A i \in 1..n : (IF i = 1 THEN DueStart(1) ELSE DueStart(k + i - 1)) = DueLast(k + i)
      BY <2>1 DEF DueLast
    <3>3. DOMAIN later = 1..n /\ \A i \in 1..n :
            later[i] = Due(k + i, IF i = 1 THEN DueStart(1) ELSE DueStart(k + i - 1))
      BY <3>1, Zenon
    <3> QED
      BY <3>2, <3>3, Zenon
  <2>6. FirstDue = Due(1, DueLast(1)) /\ AllDue(as_of) = <<FirstDue>> \o later
    BY <1>3, <2>4, SettledIsDue DEF AllDue, DueLast
  <2>7. AllDue(as_of) = [i \in 1..(n + 1) |-> Due(i, DueLast(i))]
    <3> DEFINE t == [i \in 1..(n + 1) |-> Due(i, DueLast(i))]
               T == {Due(i, DueLast(i)) : i \in 1..(n + 1)}
    <3>0. later = [i \in 1..n |-> later[i]]
      BY <2>2, <2>4, Zenon DEF DuesFrom
    <3>1. later \in Seq(T) /\ Len(later) = n
      <4>1. \A i \in 1..n : later[i] \in T
        BY <2>1, <2>5
      <4> QED
        BY <3>0, <4>1
    <3>2. t \in Seq(T) /\ Len(t) = n + 1 /\ \A i \in 1..(n + 1) : t[i] = Due(i, DueLast(i))
      OBVIOUS
    <3>3. <<FirstDue>> \in Seq(T) /\ Len(<<FirstDue>>) = 1 /\ <<FirstDue>>[1] = FirstDue
      BY <2>6
    <3> HIDE DEF T, t
    <3>4. PICK u : u = <<FirstDue>> \o later
      BY Zenon
    <3>5. PICK f : f = <<FirstDue>>
      BY Zenon
    <3>6. /\ u \in Seq(T) /\ Len(u) = n + 1
          /\ \A i \in 1..(n + 1) : u[i] = IF i <= 1 THEN f[i] ELSE later[i - 1]
      BY <3>1, <3>3, <3>4, <3>5, ConcatProperties
    <3>7. \A i \in 1..(n + 1) : u[i] = t[i]
      <4> TAKE i \in 1..(n + 1)
      <4>1. CASE i = 1
        BY <2>6, <3>2, <3>3, <3>5, <3>6, <4>1
      <4>2. CASE i # 1
        <5>1. i - 1 \in 1..n /\ k + (i - 1) = i /\ ~(i <= 1)
          BY <2>1, <4>2
        <5>2. u[i] = later[i - 1] /\ later[i - 1] = Due(i, DueLast(i))
          BY <2>5, <3>6, <5>1
        <5> QED
          BY <3>2, <5>2
      <4> QED
        BY <4>1, <4>2
    <3>8. u = t
      BY <3>2, <3>6, <3>7, SeqEqual
    <3> QED
      BY <2>6, <3>4, <3>8 DEF t
  <2> QED
    BY <2>3, <2>7
<1> QED
  BY <1>2, <1>3
DueRows(n) == IF DuePlan = "free" THEN <<>> ELSE [i \in 1..n |-> DueRow(i)]
DueEvents ==
    IF is_edu_pro_trial(sub) THEN <<"edu_pro_trial.ended", "edu_starter.activated">> ELSE <<>>

(* The whole step: n periods, each refilled once, the last of them current. *)
LEMMA RefillDueEffect ==
  ASSUME PlansTypeOK, CurrentPeriodIsLast, NEW as_of \in Nat, refill_due(as_of)
  PROVE  \E n \in Nat \ {0} :
            /\ DueStart(n) <= as_of
            /\ sub' = Due(n, DueStart(n))
            /\ ledger' = ledger \o DueRows(n)
            /\ outbox' = outbox \o DueEvents \o RefillEvents(DueRows(n))
            /\ periods' = periods \cup {DuePeriod(i) : i \in 1..n}
<1>1. sub \in Subscribed /\ sub # NoSubscription /\ sub.end <= as_of
  BY DEF refill_due, PlansTypeOK
<1>2. /\ sub' = [Last(AllDue(as_of)) EXCEPT !.last = Last(AllDue(as_of)).start]
      /\ ledger' = ledger \o FlattenSeq([i \in DOMAIN AllDue(as_of) |-> RefillRows(AllDue(as_of)[i])])
      /\ outbox' = outbox \o DueEvents \o
           RefillEvents(FlattenSeq([i \in DOMAIN AllDue(as_of) |-> RefillRows(AllDue(as_of)[i])]))
      /\ periods' = periods \cup {Period(AllDue(as_of)[i]) : i \in DOMAIN AllDue(as_of)}
  BY Zenon DEF refill_due, AllDue, SettledDue, FirstDue, DueEvents
<1>3. PICK n \in Nat \ {0} :
        AllDue(as_of) = [i \in 1..n |-> Due(i, DueLast(i))] /\ DueStart(n) <= as_of
  BY <1>1, AllAreDue
<1>4. PICK all : all = AllDue(as_of)
  BY Zenon
<1>5. DOMAIN all = 1..n /\ \A i \in 1..n : all[i] = Due(i, DueLast(i))
  BY <1>3, <1>4, Zenon
<1>6. Last(all) = Due(n, DueLast(n))
  <2>1. all = [i \in 1..n |-> all[i]]
    BY <1>3, <1>4, Zenon
  <2>2. Len(all) = n
    BY <2>1
  <2> QED
    BY <1>5, <2>2 DEF Last
<1>7. sub.end \in Nat /\ sub.last = sub.start /\ sub.start < sub.end /\ sub.start \in Nat
  BY <1>1 DEF CurrentPeriodIsLast, Subscribed
<1>8. \A i \in Nat \ {0} : DueLast(i) # DueStart(i)
  <2> TAKE i \in Nat \ {0}
  <2>1. CASE i = 1
    <3>1. DueStart(1) = sub.end /\ Never # sub.end /\ sub.last # sub.end
      BY <1>7, DueStarts DEF Never
    <3> QED
      BY <2>1, <3>1 DEF DueLast
  <2>2. CASE i # 1
    <3>1. i - 1 \in Nat \ {0} /\ i - 1 < i
      BY <2>2
    <3>2. DueStart(i - 1) + Month <= DueStart(i) /\ DueStart(i - 1) \in Nat /\ DueStart(i) \in Nat
      BY <1>7, <3>1, DueStarts
    <3> QED
      BY <2>2, <3>2, TimeAssumption DEF DueLast
  <2> QED
    BY <2>1, <2>2
<1>9. sub' = Due(n, DueStart(n))
  <2>1. Due(n, DueLast(n)).start = DueStart(n)
    BY DEF Due, Subscription
  <2> DEFINE d == Due(n, DueLast(n))
             Only == [plan : {DuePlan}, start : {DueStart(n)}, end : {DueStart(n) + Month},
                      last : {DueStart(n)}, entitlement : {DueEntitlement},
                      trial_used : {sub.trial_used}]
  <2>2. [d EXCEPT !.last = DueStart(n)] \in Only
    BY DEF Due, Subscription
  <2>3. \A r \in Only : r = Due(n, DueStart(n))
    BY DEF Due, Subscription
  <2>4. sub' = [d EXCEPT !.last = d.start]
    BY <1>2, <1>4, <1>6, Zenon
  <2> HIDE DEF Only, d
  <2> QED
    BY <2>1, <2>2, <2>3, <2>4 DEF d
<1>10. DuePlan \in Plans
  BY <1>1 DEF DuePlan, Subscribed, Plans
<1>11. \A i \in 1..n : RefillRows(all[i]) = IF DuePlan = "free" THEN <<>> ELSE <<DueRow(i)>>
  <2> TAKE i \in 1..n
  <2>1. all[i] = Due(i, DueLast(i)) /\ DueLast(i) # DueStart(i)
    BY <1>5, <1>8
  <2>2. /\ all[i].last = DueLast(i) /\ all[i].start = DueStart(i) /\ all[i].plan = DuePlan
        /\ all[i].entitlement = DueEntitlement
    BY <2>1 DEF Due, Subscription
  <2>3. Credits[DuePlan] = 0 <=> DuePlan = "free"
    BY <1>10, CreditsAssumption
  <2>4. RefillRows(all[i]) = IF DuePlan = "free" THEN <<>> ELSE
          << [kind |-> "monthly_refill", start |-> all[i].start, plan |-> all[i].plan,
              amount |-> Credits[all[i].plan], bucket |-> refill_bucket(all[i])] >>
    BY <2>1, <2>2, <2>3 DEF RefillRows
  <2>5. refill_bucket(all[i]) = IF DueEntitlement = "none" THEN "monthly" ELSE "edu"
    BY <2>2 DEF refill_bucket
  <2> QED
    BY <2>2, <2>4, <2>5 DEF DueRow
<1>12. FlattenSeq([i \in DOMAIN all |-> RefillRows(all[i])]) = DueRows(n)
  <2>1. CASE DuePlan = "free"
    <3>1. [i \in DOMAIN all |-> RefillRows(all[i])] = [i \in 1..n |-> <<>>]
      BY <1>5, <1>11, <2>1
    <3> QED
      BY <2>1, <3>1, FlattenNothing DEF DueRows
  <2>2. CASE DuePlan # "free"
    <3>1. [i \in DOMAIN all |-> RefillRows(all[i])] = [i \in 1..n |-> <<DueRow(i)>>]
      BY <1>5, <1>11, <2>2
    <3>2. PICK r : r = [i \in 1..n |-> DueRow(i)]
      BY Zenon
    <3>3. r \in [1..n -> {DueRow(i) : i \in 1..n}] /\ \A i \in 1..n : r[i] = DueRow(i)
      BY <3>2
    <3>4. FlattenSeq([i \in 1..n |-> <<r[i]>>]) = r
      BY <3>3, FlattenSingles
    <3>5. [i \in 1..n |-> <<r[i]>>] = [i \in 1..n |-> <<DueRow(i)>>]
      BY <3>3
    <3>6. FlattenSeq([i \in DOMAIN all |-> RefillRows(all[i])]) = r
      BY <3>1, <3>4, <3>5
    <3> QED
      BY <2>2, <3>2, <3>6 DEF DueRows
  <2> QED
    BY <2>1, <2>2
<1>13. {Period(all[i]) : i \in DOMAIN all} = {DuePeriod(i) : i \in 1..n}
  <2>1. \A i \in 1..n : Period(all[i]) = DuePeriod(i)
    BY <1>5 DEF Period, DuePeriod, Due, Subscription
  <2> QED
    BY <1>5, <2>1, Zenon
<1>14. /\ ledger' = ledger \o DueRows(n)
       /\ outbox' = outbox \o DueEvents \o RefillEvents(DueRows(n))
  <2>1. FlattenSeq([i \in DOMAIN AllDue(as_of) |-> RefillRows(AllDue(as_of)[i])]) = DueRows(n)
    BY <1>4, <1>12, Zenon
  <2> QED
    BY <1>2, <2>1, Zenon
<1>15. periods' = periods \cup {DuePeriod(i) : i \in 1..n}
  BY <1>2, <1>4, <1>13, Zenon
<1> QED
  BY <1>3, <1>9, <1>14, <1>15, Zenon
(* u is s with t appended, place by place. *)
IsConcat(s, t, u) ==
    /\ \A i \in DOMAIN s : i \in DOMAIN u /\ u[i] = s[i]
    /\ \A j \in DOMAIN t : /\ Len(s) + j \in DOMAIN u /\ Len(s) + j \notin DOMAIN s
                          /\ u[Len(s) + j] = t[j]
    /\ \A i \in DOMAIN u : i \in DOMAIN s \/ \E j \in DOMAIN t : i = Len(s) + j

(* Concatenation, place by place.                                           *)
LEMMA Appended ==
  ASSUME NEW T, NEW s \in Seq(T), NEW t \in Seq(T), NEW u, u = s \o t
  PROVE  u \in Seq(T) /\ IsConcat(s, t, u)
<1>1. /\ u \in Seq(T) /\ Len(u) = Len(s) + Len(t)
      /\ \A i \in 1..(Len(s) + Len(t)) : u[i] = IF i <= Len(s) THEN s[i] ELSE t[i - Len(s)]
  BY ConcatProperties
<1>2. /\ DOMAIN s = 1..Len(s) /\ DOMAIN t = 1..Len(t) /\ DOMAIN u = 1..(Len(s) + Len(t))
      /\ Len(s) \in Nat /\ Len(t) \in Nat
  BY <1>1
<1>3. ASSUME NEW i \in DOMAIN s PROVE i \in DOMAIN u /\ u[i] = s[i]
  BY <1>1, <1>2
<1>4. ASSUME NEW j \in DOMAIN t
      PROVE  /\ Len(s) + j \in DOMAIN u /\ Len(s) + j \notin DOMAIN s
             /\ u[Len(s) + j] = t[j]
  <2>1. Len(s) + j \in 1..(Len(s) + Len(t)) /\ ~(Len(s) + j <= Len(s)) /\ Len(s) + j - Len(s) = j
    BY <1>2
  <2> QED
    BY <1>1, <1>2, <2>1
<1>5. ASSUME NEW i \in DOMAIN u, i \notin DOMAIN s PROVE \E j \in DOMAIN t : i = Len(s) + j
  <2>1. i - Len(s) \in 1..Len(t) /\ i = Len(s) + (i - Len(s))
    BY <1>2, <1>5
  <2> QED
    BY <1>2, <2>1
<1> QED
  BY <1>1, <1>3, <1>4, <1>5 DEF IsConcat

(* A sequence over a set is one over a larger set.                          *)
LEMMA Elements ==
  ASSUME NEW S, NEW T, S \subseteq T, NEW s \in Seq(S)
  PROVE  s \in Seq(T) /\ \A i \in DOMAIN s : s[i] \in S
OBVIOUS

(* Events other than the trial's activation keep it single. *)
LEMMA EventsAdded ==
  ASSUME PlansTypeOK, NEW events \in Seq(PlanEvents), outbox' = outbox \o events
  PROVE  /\ outbox' \in Seq(PlanEvents)
         /\ (\A j \in DOMAIN events : events[j] # "edu_pro_trial.activated") =>
              \A i \in DOMAIN outbox' : outbox'[i] = "edu_pro_trial.activated" =>
                 i \in DOMAIN outbox /\ outbox[i] = "edu_pro_trial.activated"
<1>1. PICK t : t = outbox'
  BY Zenon
<1>2. outbox \in Seq(PlanEvents)
  BY DEF PlansTypeOK
<1>3. PICK s : s = outbox
  BY Zenon
<1>4. t \in Seq(PlanEvents) /\ IsConcat(s, events, t)
  BY <1>1, <1>2, <1>3, Appended
<1> QED
  BY <1>1, <1>3, <1>4 DEF IsConcat

(* The rows of the due periods, one for each unless the plan is free.       *)
LEMMA DueRowsTyped ==
  ASSUME sub \in Subscribed, NEW n \in Nat \ {0}
  PROVE  /\ DueRows(n) \in Seq(LedgerRows) /\ RefillEvents(DueRows(n)) \in Seq({"refilled"})
         /\ DuePlan = "free" => DueRows(n) = <<>>
         /\ DuePlan # "free" => DOMAIN DueRows(n) = 1..n
         /\ \A j \in DOMAIN DueRows(n) : j \in 1..n /\ DueRows(n)[j] = DueRow(j)
<1>1. DuePlan \in Plans /\ sub.end \in Nat
  BY DEF DuePlan, Subscribed, Plans
<1>2. \A i \in 1..n : DueRow(i) \in LedgerRows
  <2> TAKE i \in 1..n
  <2>1. DueStart(i) \in Nat
    BY <1>1, DueStarts
  <2>2. Credits[DuePlan] \in Int
    BY <1>1, CreditsAssumption
  <2> QED
    BY <1>1, <2>1, <2>2 DEF DueRow, LedgerRows
<1>3. CASE DuePlan = "free"
  <2>1. DueRows(n) = <<>>
    BY <1>3 DEF DueRows
  <2>2. RefillEvents(<<>>) \in Seq({"refilled"})
    BY DEF RefillEvents
  <2> QED
    BY <1>3, <2>1, <2>2
<1>4. CASE DuePlan # "free"
  <2>1. DueRows(n) = [i \in 1..n |-> DueRow(i)]
    BY <1>4 DEF DueRows
  <2>2. DueRows(n) \in Seq(LedgerRows) /\ DOMAIN DueRows(n) = 1..n
    BY <1>2, <2>1
  <2>3. \A j \in 1..n : DueRows(n)[j] = DueRow(j)
    BY <2>1, Zenon
  <2>4. RefillEvents(DueRows(n)) = [i \in 1..n |-> "refilled"]
    BY <2>2, Zenon DEF RefillEvents
  <2>5. RefillEvents(DueRows(n)) \in Seq({"refilled"})
    BY <2>4
  <2> QED
    BY <1>4, <2>2, <2>3, <2>5
<1> QED
  BY <1>3, <1>4

(* refill_due: every new period follows the last one and has its own row.   *)
LEMMA RefillDuePreserves ==
  ASSUME PlansInvariant, NEW as_of \in 0..(now + Skew), refill_due(as_of)
  PROVE  PlansInvariant'
<1>1. sub \in Subscribed /\ sub # NoSubscription /\ UNCHANGED <<now, user>>
  BY DEF refill_due, PlansInvariant, PlansTypeOK
<1>2. now \in Nat /\ as_of \in Nat /\ as_of <= now + Skew
  BY TimeAssumption DEF PlansInvariant, PlansTypeOK
<1>3. PICK n \in Nat \ {0} :
        /\ DueStart(n) <= as_of
        /\ sub' = Due(n, DueStart(n))
        /\ ledger' = ledger \o DueRows(n)
        /\ outbox' = outbox \o DueEvents \o RefillEvents(DueRows(n))
        /\ periods' = periods \cup {DuePeriod(i) : i \in 1..n}
  BY <1>2, RefillDueEffect DEF PlansInvariant
<1>4. /\ sub.end \in Nat /\ sub.start \in Nat /\ sub.start < sub.end /\ sub.plan \in Plans
      /\ sub.entitlement \in Entitlements /\ sub.trial_used \in BOOLEAN
      /\ Month \in Nat /\ Month > 0
  BY <1>1, TimeAssumption DEF PlansInvariant, CurrentPeriodIsLast, Subscribed
<1>5. /\ DuePlan \in Plans /\ DueEntitlement \in Entitlements /\ DuePlan # "none"
      /\ DuePlan = "free" => sub.plan = "free"
  BY <1>4 DEF DuePlan, DueEntitlement, Plans, Entitlements
<1>6. /\ \A i \in 1..n : DueStart(i) \in Nat /\ DueStart(i) >= sub.end
      /\ \A i, j \in 1..n : i < j => DueStart(i) + Month <= DueStart(j)
      /\ \A i \in 1..n : i # n => i + 1 \in 1..n /\ DueStart(i + 1) = DueStart(i) + Month
      /\ n \in 1..n /\ 1 \in 1..n /\ DueStart(1) = sub.end
  BY <1>4, DueStarts
<1>7. /\ sub'.plan = DuePlan /\ sub'.start = DueStart(n) /\ sub'.end = DueStart(n) + Month
      /\ sub'.last = DueStart(n) /\ sub'.entitlement = DueEntitlement
      /\ sub'.trial_used = sub.trial_used
  BY <1>3 DEF Due, Subscription
<1>8. sub' \in Subscribed
  BY <1>3, <1>4, <1>5, <1>6 DEF Due, Subscription, Subscribed
<1>9. sub' # NoSubscription
  BY <1>5, <1>7 DEF NoSubscription
<1>10. \A i \in 1..n : DueStart(i) <= DueStart(n) /\ DueStart(i) + Month <= DueStart(n) + Month
  BY <1>4, <1>6
<1> DEFINE rows == DueRows(n)
<1>11. /\ rows \in Seq(LedgerRows) /\ RefillEvents(rows) \in Seq({"refilled"})
       /\ DuePlan = "free" => rows = <<>>
       /\ DuePlan # "free" => DOMAIN rows = 1..n
       /\ \A j \in DOMAIN rows : j \in 1..n /\ rows[j] = DueRow(j)
  BY <1>1, DueRowsTyped
<1>12. ledger \in Seq(LedgerRows) /\ ledger' = ledger \o rows
  BY <1>3 DEF PlansInvariant, PlansTypeOK
<1> HIDE DEF rows
<1>13. PICK old, all : old = ledger /\ all = ledger'
  BY Zenon
<1>14. /\ all \in Seq(LedgerRows)
       /\ \A i \in DOMAIN old : i \in DOMAIN all /\ all[i] = old[i]
       /\ \A j \in DOMAIN rows : /\ Len(old) + j \in DOMAIN all /\ Len(old) + j \notin DOMAIN old
                                /\ all[Len(old) + j] = rows[j]
       /\ \A i \in DOMAIN all : i \in DOMAIN old \/ \E j \in DOMAIN rows : i = Len(old) + j
  <2>1. old \in Seq(LedgerRows) /\ rows \in Seq(LedgerRows) /\ all = old \o rows
    BY <1>11, <1>12, <1>13
  <2>2. all \in Seq(LedgerRows) /\ IsConcat(old, rows, all)
    BY <2>1, Appended
  <2> QED
    BY <2>2 DEF IsConcat
<1>15. \A j \in DOMAIN rows : /\ all[Len(old) + j].kind = "monthly_refill"
                              /\ all[Len(old) + j].start = DueStart(j)
                              /\ all[Len(old) + j].plan = DuePlan
  BY <1>11, <1>14 DEF DueRow
<1>16. \A i \in DOMAIN old : old[i].start \in Nat /\ old[i].start < sub.end /\ old[i].start <= now + Skew
  <2>1. \A i \in DOMAIN old : old[i] \in LedgerRows
    BY <1>12, <1>13
  <2>2. \A i \in DOMAIN old : old[i].start < sub.end /\ old[i].start <= now + Skew
    BY <1>13 DEF PlansInvariant, RowsBehind
  <2> QED
    BY <2>1, <2>2 DEF LedgerRows
<1>17. \A p \in periods : /\ p.start \in Nat /\ p.end \in Nat /\ p.start < p.end
                          /\ p.start <= sub.start /\ p.end <= sub.end
  BY DEF PlansInvariant, PlansTypeOK, CurrentPeriodIsLast, PeriodsTile
<1>18. \A p \in periods' : p \in periods \/ \E i \in 1..n : p = DuePeriod(i)
  BY <1>3
<1>19. \A i \in 1..n : /\ DuePeriod(i) \in periods' /\ DuePeriod(i).start = DueStart(i)
                       /\ DuePeriod(i).end = DueStart(i) + Month /\ DuePeriod(i).plan = DuePlan
  BY <1>3 DEF DuePeriod
<1>20. periods \subseteq periods'
  BY <1>3
<1>21. UnpaidSoFar'
  <2>1. sub'.plan \in {"none", "free"} => ledger' = <<>>
    <3> SUFFICES ASSUME sub'.plan \in {"none", "free"} PROVE ledger' = <<>>
      OBVIOUS
    <3>1. DuePlan = "free" /\ sub.plan = "free"
      BY <1>5, <1>7
    <3>2. ledger = <<>> /\ rows = <<>>
      BY <1>11, <3>1 DEF PlansInvariant, UnpaidSoFar
    <3> QED
      BY <1>12, <3>2
  <2> QED
    BY <1>9, <2>1 DEF UnpaidSoFar
<1>22. CurrentPeriodIsLast'
  <2>1. \E p \in periods' : p.start = sub'.start /\ p.end = sub'.end
    BY <1>6, <1>7, <1>19
  <2>2. \A p \in periods' : p.start <= sub'.start /\ p.end <= sub'.end
    <3> TAKE p \in periods'
    <3>1. CASE p \in periods
      BY <1>4, <1>6, <1>7, <1>17, <3>1
    <3>2. ASSUME NEW i \in 1..n, p = DuePeriod(i) PROVE p.start <= sub'.start /\ p.end <= sub'.end
      BY <1>7, <1>10, <1>19, <3>2
    <3> QED
      BY <1>18, <3>1, <3>2
  <2>3. sub'.last = sub'.start /\ sub'.start < sub'.end /\ sub'.start <= now' + Skew
    BY <1>1, <1>2, <1>3, <1>4, <1>6, <1>7, TimeAssumption
  <2> QED
    BY <2>1, <2>2, <2>3 DEF CurrentPeriodIsLast
<1>23. RowsBehind'
  <2> SUFFICES ASSUME NEW i \in DOMAIN all
               PROVE  all[i].start < sub'.end /\ all[i].start <= now + Skew
    BY <1>1, <1>13 DEF RowsBehind
  <2>1. CASE i \in DOMAIN old
    BY <1>4, <1>6, <1>7, <1>14, <1>16, <2>1
  <2>2. ASSUME NEW j \in DOMAIN rows, i = Len(old) + j
        PROVE  all[i].start < sub'.end /\ all[i].start <= now + Skew
    <3>1. all[i].start = DueStart(j) /\ j \in 1..n
      BY <1>11, <1>15, <2>2
    <3> QED
      BY <1>2, <1>3, <1>4, <1>6, <1>7, <1>10, <3>1, TimeAssumption
  <2> QED
    BY <1>14, <2>1, <2>2
<1>24. /\ outbox' \in Seq(PlanEvents)
       /\ \A i \in DOMAIN outbox' : outbox'[i] = "edu_pro_trial.activated" =>
             i \in DOMAIN outbox /\ outbox[i] = "edu_pro_trial.activated"
  <2> DEFINE events == DueEvents \o RefillEvents(rows)
  <2>1. DueEvents \in Seq({"edu_pro_trial.ended", "edu_starter.activated"})
    <3>1. /\ <<"edu_pro_trial.ended", "edu_starter.activated">> \in
               Seq({"edu_pro_trial.ended", "edu_starter.activated"})
          /\ <<>> \in Seq({"edu_pro_trial.ended", "edu_starter.activated"})
      OBVIOUS
    <3> QED
      BY <3>1, Zenon DEF DueEvents
  <2>2. events \in Seq({"edu_pro_trial.ended", "edu_starter.activated", "refilled"})
    <3>1. PICK a, b : a = DueEvents /\ b = RefillEvents(rows)
      BY Zenon
    <3> QED
      BY <1>11, <2>1, <3>1
  <2>3. events \in Seq(PlanEvents)
    <3>1. PICK e : e = events
      BY Zenon
    <3> QED
      BY <2>2, <3>1 DEF PlanEvents
  <2>4. \A j \in DOMAIN events : events[j] # "edu_pro_trial.activated"
    <3>1. PICK e \in Seq({"edu_pro_trial.ended", "edu_starter.activated", "refilled"}) : e = events
      BY <2>2
    <3>2. \A j \in DOMAIN e : e[j] \in {"edu_pro_trial.ended", "edu_starter.activated", "refilled"}
      BY Elements
    <3>3. \A j \in DOMAIN e : e[j] # "edu_pro_trial.activated"
      BY <3>2
    <3> QED
      BY <3>1, <3>3
  <2>5. outbox' = outbox \o events
    <3>1. PICK a, b, c : a = outbox /\ b = DueEvents /\ c = RefillEvents(rows)
      BY Zenon
    <3>2. a \in Seq(PlanEvents) /\ b \in Seq(PlanEvents) /\ c \in Seq(PlanEvents)
      <4>1. {"refilled"} \subseteq PlanEvents
        BY DEF PlanEvents
      <4>2. {"edu_pro_trial.ended", "edu_starter.activated"} \subseteq PlanEvents
        BY DEF PlanEvents
      <4>3. a \in Seq(PlanEvents)
        BY <3>1 DEF PlansInvariant, PlansTypeOK
      <4>4. b \in Seq(PlanEvents)
        BY <2>1, <3>1, <4>2, Elements
      <4>5. c \in Seq(PlanEvents)
        BY <1>11, <3>1, <4>1, Elements
      <4> QED
        BY <4>3, <4>4, <4>5
    <3>3. (a \o b) \o c = a \o (b \o c)
      BY <3>2, ConcatAssociative
    <3> QED
      BY <1>3, <3>1, <3>3 DEF rows
  <2> HIDE DEF events
  <2> QED
    BY <2>3, <2>4, <2>5, EventsAdded DEF PlansInvariant
<1>25. PlansTypeOK'
  <2>1. \A i \in 1..n : DuePeriod(i) \in [start : Nat, end : Nat, plan : Plans]
    BY <1>4, <1>5, <1>6 DEF DuePeriod
  <2>2. periods' \subseteq [start : Nat, end : Nat, plan : Plans]
    BY <1>18, <2>1 DEF PlansInvariant, PlansTypeOK
  <2> QED
    BY <1>1, <1>8, <1>13, <1>14, <1>24, <2>2 DEF PlansInvariant, PlansTypeOK
<1>26. TrialIsNew'
  <2> SUFFICES ASSUME ~sub.trial_used
               PROVE  /\ sub'.plan \in {"none", "free", "starter"} =>
                            \A i \in DOMAIN all : all[i].kind = "monthly_refill" => all[i].plan # "pro"
                      /\ sub'.entitlement # "pro_30d_trial"
                      /\ \A i \in DOMAIN outbox' : outbox'[i] # "edu_pro_trial.activated"
    BY <1>7, <1>13 DEF TrialIsNew, IsRefill
  <2>1. ~is_edu_pro_trial(sub) /\ sub.entitlement # "pro_30d_trial"
    BY DEF PlansInvariant, TrialIsNew, is_edu_pro_trial
  <2>2. DuePlan = sub.plan /\ DueEntitlement = sub.entitlement
    BY <2>1 DEF DuePlan, DueEntitlement
  <2>3. sub.plan \in {"none", "free", "starter"} =>
          \A i \in DOMAIN old : old[i].kind = "monthly_refill" => old[i].plan # "pro"
    BY <1>13 DEF PlansInvariant, TrialIsNew, IsRefill
  <2>4. sub'.plan \in {"none", "free", "starter"} =>
          \A i \in DOMAIN all : all[i].kind = "monthly_refill" => all[i].plan # "pro"
    BY <1>7, <1>14, <1>15, <2>2, <2>3
  <2>5. \A i \in DOMAIN outbox : outbox[i] # "edu_pro_trial.activated"
    BY DEF PlansInvariant, TrialIsNew
  <2> QED
    BY <1>7, <1>24, <2>1, <2>2, <2>4, <2>5
<1>27. TrialOnce'
  <2>1. is_edu_pro_trial(sub)' => sub'.trial_used
    BY <1>7 DEF PlansInvariant, TrialOnce, is_edu_pro_trial, DuePlan, DueEntitlement
  <2> QED
    BY <1>24, <2>1 DEF PlansInvariant, TrialOnce
<1>28. RefilledOncePerPeriod'
  <2>1. ASSUME NEW i \in DOMAIN all, NEW j \in DOMAIN all, all[i].kind = "monthly_refill",
               all[j].kind = "monthly_refill", all[j].start = all[i].start, all[j].plan = all[i].plan
        PROVE  i = j
    <3>1. CASE i \in DOMAIN old /\ j \in DOMAIN old
      BY <1>13, <1>14, <2>1, <3>1 DEF PlansInvariant, RefilledOncePerPeriod, Refills
    <3>2. ASSUME NEW x \in DOMAIN old, NEW y \in DOMAIN rows
          PROVE  all[x].start # all[Len(old) + y].start
      <4>1. all[x].start \in Nat /\ all[x].start < sub.end
        BY <1>14, <1>16, <3>2
      <4>2. all[Len(old) + y].start = DueStart(y) /\ y \in 1..n
        BY <1>11, <1>15, <3>2
      <4> QED
        BY <1>4, <1>6, <4>1, <4>2
    <3>3. ASSUME NEW x \in DOMAIN rows, NEW y \in DOMAIN rows, DueStart(x) = DueStart(y)
          PROVE  x = y
      <4>1. x \in 1..n /\ y \in 1..n
        BY <1>11, <3>3
      <4>2. ~(x < y) /\ ~(y < x)
        BY <1>4, <1>6, <3>3, <4>1
      <4> QED
        BY <4>1, <4>2
    <3>4. CASE i \notin DOMAIN old /\ j \notin DOMAIN old
      <4>1. PICK x \in DOMAIN rows, y \in DOMAIN rows : i = Len(old) + x /\ j = Len(old) + y
        BY <1>14, <3>4
      <4>2. x = y
        BY <1>15, <2>1, <3>3, <4>1
      <4> QED
        BY <4>1, <4>2
    <3> QED
      BY <1>14, <2>1, <3>1, <3>2, <3>4
  <2>2. ASSUME NEW p \in periods'
        PROVE  \/ \E i \in DOMAIN all : /\ all[i].kind = "monthly_refill"
                                         /\ all[i].start = p.start /\ all[i].plan = p.plan
               \/ p.plan = "free"
               \/ user.seeded /\ p.plan = "starter" /\ \A q \in periods' : p.start <= q.start
    <3>1. CASE p \in periods
      <4>1. \/ \E i \in DOMAIN old : /\ old[i].kind = "monthly_refill"
                                      /\ old[i].start = p.start /\ old[i].plan = p.plan
            \/ p.plan = "free"
            \/ user.seeded /\ p.plan = "starter" /\ \A q \in periods : p.start <= q.start
        BY <1>13, <3>1 DEF PlansInvariant, RefilledOncePerPeriod, Refills
      <4>2. \A i \in 1..n : p.start <= DuePeriod(i).start
        BY <1>4, <1>6, <1>17, <1>19, <3>1
      <4>3. (\A q \in periods : p.start <= q.start) => \A q \in periods' : p.start <= q.start
        BY <1>18, <4>2
      <4>4. (\E i \in DOMAIN old : /\ old[i].kind = "monthly_refill"
                                   /\ old[i].start = p.start /\ old[i].plan = p.plan)
            => \E i \in DOMAIN all : /\ all[i].kind = "monthly_refill"
                                    /\ all[i].start = p.start /\ all[i].plan = p.plan
        BY <1>14
      <4> QED
        BY <4>1, <4>3, <4>4
    <3>2. ASSUME NEW i \in 1..n, p = DuePeriod(i), DuePlan # "free"
          PROVE  \E x \in DOMAIN all : /\ all[x].kind = "monthly_refill"
                                       /\ all[x].start = p.start /\ all[x].plan = p.plan
      <4>1. i \in DOMAIN rows
        BY <1>11, <3>2
      <4> QED
        BY <1>14, <1>15, <1>19, <3>2, <4>1
    <3> QED
      BY <1>18, <1>19, <3>1, <3>2
  <2> QED
    BY <1>1, <1>13, <2>1, <2>2 DEF RefilledOncePerPeriod, Refills
<1>29. PeriodsTile'
  <2> SUFFICES ASSUME NEW p \in periods'
               PROVE  /\ p.start < p.end
                      /\ p.end = sub'.end \/ \E q \in periods' : q.start = p.end
                      /\ \A q \in periods' : q = p \/ q.end <= p.start \/ p.end <= q.start
    BY DEF PeriodsTile
  <2>1. CASE p \in periods
    <3>1. /\ p.end = sub.end \/ \E q \in periods : q.start = p.end
          /\ \A q \in periods : q = p \/ q.end <= p.start \/ p.end <= q.start
      BY <2>1 DEF PlansInvariant, PeriodsTile
    <3>2. \E q \in periods' : q.start = p.end
      BY <1>6, <1>19, <1>20, <3>1
    <3>3. \A i \in 1..n : p.end <= DuePeriod(i).start
      BY <1>4, <1>6, <1>17, <1>19, <2>1
    <3>4. \A q \in periods' : q = p \/ q.end <= p.start \/ p.end <= q.start
      BY <1>18, <3>1, <3>3
    <3> QED
      BY <1>17, <2>1, <3>2, <3>4
  <2>2. ASSUME NEW i \in 1..n, p = DuePeriod(i)
        PROVE  /\ p.start < p.end
               /\ p.end = sub'.end \/ \E q \in periods' : q.start = p.end
               /\ \A q \in periods' : q = p \/ q.end <= p.start \/ p.end <= q.start
    <3>1. p.start = DueStart(i) /\ p.end = DueStart(i) + Month
      BY <1>19, <2>2
    <3>2. p.end = sub'.end \/ \E q \in periods' : q.start = p.end
      BY <1>6, <1>7, <1>19, <3>1
    <3>3. \A q \in periods : q.end <= p.start
      BY <1>4, <1>6, <1>17, <3>1
    <3>4. \A j \in 1..n : \/ DuePeriod(j) = p \/ DuePeriod(j).end <= p.start
                          \/ p.end <= DuePeriod(j).start
      <4> TAKE j \in 1..n
      <4>1. i = j \/ i < j \/ j < i
        OBVIOUS
      <4> QED
        BY <1>6, <1>19, <2>2, <3>1, <4>1
    <3>5. \A q \in periods' : q = p \/ q.end <= p.start \/ p.end <= q.start
      BY <1>18, <3>3, <3>4
    <3> QED
      BY <1>4, <1>6, <3>1, <3>2, <3>5
  <2> QED
    BY <1>18, <2>1, <2>2
<1> QED
  BY <1>21, <1>22, <1>23, <1>25, <1>26, <1>27, <1>28, <1>29 DEF PlansInvariant

(* The row of one refill, if any.                                           *)
LEMMA RefillRowsTyped ==
  ASSUME NEW s \in Subscribed
  PROVE  /\ RefillRows(s) \in Seq(LedgerRows) /\ RefillEvents(RefillRows(s)) \in Seq({"refilled"})
         /\ s.last = s.start \/ s.plan = "free" => RefillRows(s) = <<>>
         /\ s.last # s.start /\ s.plan # "free" => DOMAIN RefillRows(s) = {1}
         /\ \A j \in DOMAIN RefillRows(s) :
               /\ j = 1 /\ RefillRows(s)[j].kind = "monthly_refill"
               /\ RefillRows(s)[j].start = s.start /\ RefillRows(s)[j].plan = s.plan
               /\ RefillRows(s)[j].amount = Credits[s.plan]
<1>1. /\ s.plan \in Plans /\ s.start \in Nat /\ Credits[s.plan] \in Int
      /\ Credits[s.plan] = 0 <=> s.plan = "free"
  BY CreditsAssumption DEF Subscribed
<1> DEFINE row == [kind |-> "monthly_refill", start |-> s.start, plan |-> s.plan,
                   amount |-> Credits[s.plan], bucket |-> refill_bucket(s)]
<1>2. row \in LedgerRows
  <2>1. refill_bucket(s) \in {"monthly", "edu"}
    BY DEF refill_bucket
  <2> QED
    BY <1>1, <2>1 DEF LedgerRows
<1>3. CASE s.last = s.start \/ s.plan = "free"
  <2>1. RefillRows(s) = <<>>
    BY <1>1, <1>3 DEF RefillRows
  <2>2. RefillEvents(<<>>) \in Seq({"refilled"})
    BY DEF RefillEvents
  <2> QED
    BY <1>3, <2>1, <2>2
<1>4. CASE s.last # s.start /\ s.plan # "free"
  <2>1. RefillRows(s) = <<row>>
    BY <1>1, <1>4 DEF RefillRows
  <2> HIDE DEF row
  <2>2. <<row>> \in Seq(LedgerRows) /\ DOMAIN <<row>> = {1} /\ <<row>>[1] = row
    BY <1>2
  <2>3. RefillEvents(RefillRows(s)) = [i \in {1} |-> "refilled"]
    BY <2>1, <2>2, Zenon DEF RefillEvents
  <2>4. [i \in {1} |-> "refilled"] \in Seq({"refilled"})
    <3>1. [i \in 1..1 |-> "refilled"] \in Seq({"refilled"}) /\ 1..1 = {1}
      OBVIOUS
    <3> QED
      BY <3>1, Zenon
  <2>5. /\ row.kind = "monthly_refill" /\ row.start = s.start /\ row.plan = s.plan
        /\ row.amount = Credits[s.plan]
    BY DEF row
  <2> QED
    BY <1>4, <2>1, <2>2, <2>3, <2>4, <2>5
<1> QED
  BY <1>3, <1>4

(* A plan that begins now: the first paid one, or the trial. *)
LEMMA ActivationPreserves ==
  ASSUME PlansInvariant, NEW new \in Subscribed, NEW event \in PlanEvents,
         _apply_monthly_refill_once(new, <<event>>), periods' = {Period(new)},
         UNCHANGED <<now, user>>,
         new.start = now, new.end > now,
         new.last = now => user.seeded /\ new.plan = "starter",
         \A i \in DOMAIN ledger : ledger[i].start < new.end /\ (IsRefill(i) => ledger[i].plan # new.plan),
         new.plan = "free" \/ ~new.trial_used => ledger = <<>>,
         new.entitlement = "pro_30d_trial" => new.trial_used,
         event = "edu_pro_trial.activated" => ~sub.trial_used /\ new.trial_used,
         sub.trial_used => new.trial_used
  PROVE  PlansInvariant'
<1>1. /\ sub' = [new EXCEPT !.last = new.start]
      /\ ledger' = ledger \o RefillRows(new)
      /\ outbox' = outbox \o <<event>> \o RefillEvents(RefillRows(new))
  BY DEF _apply_monthly_refill_once
<1>2. /\ new.start \in Nat /\ new.end \in Nat /\ new.plan \in Plans /\ new.trial_used \in BOOLEAN
      /\ new.entitlement \in Entitlements /\ now \in Nat /\ Skew \in Nat
  BY TimeAssumption DEF Subscribed, PlansInvariant, PlansTypeOK
<1>3. /\ sub'.plan = new.plan /\ sub'.start = now /\ sub'.end = new.end /\ sub'.last = now
      /\ sub'.entitlement = new.entitlement /\ sub'.trial_used = new.trial_used
      /\ sub' \in Subscribed
  <2>1. new \in [plan : Plans, start : Nat, end : Nat, last : Int, entitlement : Entitlements,
                 trial_used : BOOLEAN]
    BY DEF Subscribed
  <2>2. new.start \in Int
    BY <1>2
  <2>3. sub' \in Subscribed
    BY <1>1, <2>1, <2>2 DEF Subscribed
  <2> QED
    BY <1>1, <2>1, <2>3
<1>4. sub' # NoSubscription /\ new.plan # "none"
  BY <1>2, <1>3 DEF NoSubscription, Plans
<1> DEFINE rows == RefillRows(new)
<1>5. /\ rows \in Seq(LedgerRows) /\ RefillEvents(rows) \in Seq({"refilled"})
      /\ new.last = now \/ new.plan = "free" => rows = <<>>
      /\ new.last # now /\ new.plan # "free" => DOMAIN rows = {1}
      /\ \A j \in DOMAIN rows : /\ j = 1 /\ rows[j].kind = "monthly_refill"
                               /\ rows[j].start = now /\ rows[j].plan = new.plan
  BY RefillRowsTyped
<1> HIDE DEF rows
<1>6. PICK old, all : old = ledger /\ all = ledger'
  BY Zenon
<1>7. /\ all \in Seq(LedgerRows)
      /\ \A i \in DOMAIN old : i \in DOMAIN all /\ all[i] = old[i]
      /\ \A j \in DOMAIN rows : /\ Len(old) + j \in DOMAIN all /\ Len(old) + j \notin DOMAIN old
                               /\ all[Len(old) + j] = rows[j]
      /\ \A i \in DOMAIN all : i \in DOMAIN old \/ \E j \in DOMAIN rows : i = Len(old) + j
  <2>1. old \in Seq(LedgerRows) /\ rows \in Seq(LedgerRows) /\ all = old \o rows
    BY <1>1, <1>5, <1>6 DEF PlansInvariant, PlansTypeOK, rows
  <2>2. all \in Seq(LedgerRows) /\ IsConcat(old, rows, all)
    BY <2>1, Appended
  <2> QED
    BY <2>2 DEF IsConcat
<1>8. \A i \in DOMAIN old : /\ old[i].start < new.end /\ old[i].start <= now + Skew
                            /\ old[i].kind = "monthly_refill" => old[i].plan # new.plan
  BY <1>6 DEF PlansInvariant, RowsBehind, IsRefill
<1>9. \A i \in DOMAIN all : i \in DOMAIN old
                            \/ /\ 1 \in DOMAIN rows /\ i = Len(old) + 1
                               /\ all[i].kind = "monthly_refill" /\ all[i].start = now
                               /\ all[i].plan = new.plan
  BY <1>5, <1>7
<1>10. /\ Period(new) = [start |-> now, end |-> new.end, plan |-> new.plan]
       /\ periods' = {Period(new)}
  BY DEF Period
<1>11. PlansTypeOK' /\ (\A i \in DOMAIN outbox' : outbox'[i] = "edu_pro_trial.activated" =>
          \/ event = "edu_pro_trial.activated" /\ i = Len(outbox) + 1
          \/ i \in DOMAIN outbox /\ outbox[i] = "edu_pro_trial.activated")
  <2>1. PICK a, b, c : a = outbox /\ b = <<event>> /\ c = RefillEvents(rows)
    BY Zenon
  <2>2. /\ a \in Seq(PlanEvents) /\ b \in Seq(PlanEvents) /\ c \in Seq(PlanEvents)
        /\ \A i \in DOMAIN c : c[i] = "refilled"
        /\ DOMAIN b = {1} /\ b[1] = event
    <3>1. {"refilled"} \subseteq PlanEvents
      BY DEF PlanEvents
    <3>2. c \in Seq(PlanEvents) /\ \A i \in DOMAIN c : c[i] = "refilled"
      BY <1>5, <2>1, <3>1, Elements
    <3>3. a \in Seq(PlanEvents)
      BY <2>1 DEF PlansInvariant, PlansTypeOK
    <3> QED
      BY <2>1, <3>2, <3>3
  <2>3. PICK m : m = a \o b
    BY Zenon
  <2>4. m \in Seq(PlanEvents) /\ IsConcat(a, b, m)
    BY <2>2, <2>3, Appended
  <2>5. PICK o : o = outbox'
    BY Zenon
  <2>6. o = m \o c
    BY <1>1, <2>1, <2>3, <2>5 DEF rows
  <2>7. o \in Seq(PlanEvents) /\ IsConcat(m, c, o)
    BY <2>2, <2>4, <2>6, Appended
  <2>8. \A i \in DOMAIN o : o[i] = "edu_pro_trial.activated" => i \in DOMAIN m /\ o[i] = m[i]
    BY <2>2, <2>7 DEF IsConcat
  <2>9. \A i \in DOMAIN m : (i \in DOMAIN a /\ m[i] = a[i]) \/ (i = Len(a) + 1 /\ m[i] = event)
    <3> TAKE i \in DOMAIN m
    <3>1. CASE i \in DOMAIN a
      <4>1. m[i] = a[i]
        BY <2>4, <3>1, Zenon DEF IsConcat
      <4> QED
        BY <3>1, <4>1
    <3>2. ASSUME NEW j \in DOMAIN b, i = Len(a) + j PROVE i = Len(a) + 1 /\ m[i] = event
      <4>1. j = 1
        BY <2>2, <3>2
      <4>2. m[Len(a) + j] = b[j]
        BY <2>4 DEF IsConcat
      <4> QED
        BY <2>2, <3>2, <4>1, <4>2
    <3>3. i \in DOMAIN a \/ \E j \in DOMAIN b : i = Len(a) + j
      BY <2>4 DEF IsConcat
    <3> QED
      BY <3>1, <3>2, <3>3
  <2>10. [start |-> now, end |-> new.end, plan |-> new.plan] \in [start : Nat, end : Nat, plan : Plans]
    BY <1>2
  <2>11. PlansTypeOK'
    BY <1>3, <1>6, <1>7, <1>10, <2>5, <2>7, <2>10 DEF PlansInvariant, PlansTypeOK
  <2> QED
    BY <2>1, <2>5, <2>8, <2>9, <2>11
<1>12. UnpaidSoFar'
  <2>1. new.plan = "free" => ledger' = <<>>
    <3> SUFFICES ASSUME new.plan = "free" PROVE ledger' = <<>>
      OBVIOUS
    <3>1. ledger = <<>> /\ rows = <<>>
      BY <1>5
    <3> QED
      BY <1>1, <3>1 DEF rows
  <2> QED
    BY <1>3, <1>4, <2>1 DEF UnpaidSoFar
<1>13. CurrentPeriodIsLast'
  BY <1>2, <1>3, <1>10 DEF CurrentPeriodIsLast
<1>14. RowsBehind'
  <2> SUFFICES ASSUME NEW i \in DOMAIN all
               PROVE  all[i].start < new.end /\ all[i].start <= now + Skew
    BY <1>3, <1>6 DEF RowsBehind
  <2>1. CASE i \in DOMAIN old
    <3>1. all[i] = old[i]
      BY <1>7, <2>1, Zenon
    <3> QED
      BY <1>8, <2>1, <3>1
  <2>2. CASE all[i].start = now
    BY <1>2, <2>2
  <2> QED
    BY <1>9, <2>1, <2>2
<1>15. TrialIsNew'
  <2> SUFFICES ASSUME ~new.trial_used
               PROVE  /\ sub'.plan \in {"none", "free", "starter"} =>
                            \A i \in DOMAIN all : all[i].kind = "monthly_refill" => all[i].plan # "pro"
                      /\ sub'.entitlement # "pro_30d_trial"
                      /\ \A i \in DOMAIN outbox' : outbox'[i] # "edu_pro_trial.activated"
    BY <1>3, <1>6 DEF TrialIsNew, IsRefill
  <2>1. old = <<>> /\ ~sub.trial_used /\ event # "edu_pro_trial.activated"
    BY <1>6
  <2>2. \A i \in DOMAIN all : all[i].plan = new.plan
    BY <1>9, <2>1
  <2>3. \A i \in DOMAIN outbox : outbox[i] # "edu_pro_trial.activated"
    BY <2>1 DEF PlansInvariant, TrialIsNew
  <2> QED
    BY <1>3, <1>11, <2>1, <2>2, <2>3
<1>16. TrialOnce'
  <2>1. is_edu_pro_trial(sub)' => sub'.trial_used
    BY <1>3 DEF is_edu_pro_trial
  <2>2. CASE event = "edu_pro_trial.activated"
    <3>1. \A i \in DOMAIN outbox : outbox[i] # "edu_pro_trial.activated"
      BY <2>2 DEF PlansInvariant, TrialIsNew
    <3> QED
      BY <1>11, <2>1, <3>1 DEF TrialOnce
  <2>3. CASE event # "edu_pro_trial.activated"
    BY <1>11, <2>1, <2>3 DEF PlansInvariant, TrialOnce
  <2> QED
    BY <2>2, <2>3
<1>17. RefilledOncePerPeriod'
  <2>1. ASSUME NEW i \in DOMAIN all, NEW j \in DOMAIN all, all[i].kind = "monthly_refill",
               all[j].kind = "monthly_refill", all[j].start = all[i].start, all[j].plan = all[i].plan
        PROVE  i = j
    <3>1. CASE i \in DOMAIN old /\ j \in DOMAIN old
      BY <1>6, <1>7, <2>1, <3>1 DEF PlansInvariant, RefilledOncePerPeriod, Refills
    <3>2. ASSUME NEW x \in DOMAIN all, x \in DOMAIN old, all[x].kind = "monthly_refill"
          PROVE  all[x].plan # new.plan
      <4>1. all[x] = old[x]
        BY <1>7, <3>2, Zenon
      <4> QED
        BY <1>8, <3>2, <4>1
    <3> QED
      BY <1>9, <2>1, <3>1, <3>2
  <2>2. \/ \E i \in DOMAIN all : all[i].kind = "monthly_refill" /\ all[i].start = now /\ all[i].plan = new.plan
        \/ new.plan = "free"
        \/ user.seeded /\ new.plan = "starter"
    BY <1>5, <1>7
  <2>3. ASSUME NEW p \in periods'
        PROVE  \/ \E i \in DOMAIN all : /\ all[i].kind = "monthly_refill"
                                         /\ all[i].start = p.start /\ all[i].plan = p.plan
               \/ p.plan = "free"
               \/ user.seeded /\ p.plan = "starter" /\ \A q \in periods' : p.start <= q.start
    BY <1>2, <1>10, <2>2, <2>3
  <2> QED
    BY <1>6, <2>1, <2>3 DEF RefilledOncePerPeriod, Refills
<1>18. PeriodsTile'
  BY <1>2, <1>3, <1>10 DEF PeriodsTile
<1> QED
  BY <1>11, <1>12, <1>13, <1>14, <1>15, <1>16, <1>17, <1>18 DEF PlansInvariant

(* A record of a subscription, or of none, has the fields of one. *)
LEMMA SubscriptionFields ==
  ASSUME PlansTypeOK
  PROVE  /\ sub \in [plan : Plans \cup {"none"}, start : Int, end : Int, last : Int,
                     entitlement : Entitlements, trial_used : BOOLEAN]
         /\ sub.plan \in Plans => sub \in Subscribed
         /\ sub # NoSubscription => sub \in Subscribed
         /\ sub = NoSubscription => /\ sub.plan = "none" /\ sub.entitlement = "none"
                                    /\ sub.trial_used = FALSE
<1>1. CASE sub = NoSubscription
  <2>1. "none" \notin Plans
    BY DEF Plans
  <2> QED
    BY <1>1, <2>1 DEF NoSubscription, Entitlements, Never
<1>2. CASE sub \in Subscribed /\ sub # NoSubscription
  BY <1>2 DEF Subscribed
<1> QED
  BY <1>1, <1>2 DEF PlansTypeOK

(* create_subscription: the user has no rows yet.                           *)
LEMMA CreatePreserves ==
  ASSUME PlansInvariant, NEW plan \in Plans, create_subscription(plan)
  PROVE  PlansInvariant'
<1>1. PICK new : new = Begin(NoSubscription, plan, now, Month)
  BY Zenon
<1>2. /\ sub = NoSubscription /\ UNCHANGED <<now, user>> /\ periods' = {Period(new)}
      /\ _apply_monthly_refill_once(new, <<"activated">>)
  BY <1>1 DEF create_subscription
<1>3. now \in Nat /\ Month \in Nat /\ Month > 0
  BY TimeAssumption DEF PlansInvariant, PlansTypeOK
<1>4. /\ new.plan = plan /\ new.start = now /\ new.end = now + Month /\ new.last = -1
      /\ new.entitlement = "none" /\ new.trial_used = FALSE /\ new \in Subscribed
  <2>1. NoSubscription \in [plan : {"none"}, start : Int, end : Int, last : {-1},
                            entitlement : {"none"}, trial_used : {FALSE}]
    BY DEF NoSubscription, Never
  <2>2. /\ new.plan = plan /\ new.start = now /\ new.end = now + Month /\ new.last = -1
        /\ new.entitlement = "none" /\ new.trial_used = FALSE
    BY <1>1, <2>1 DEF Begin, Never
  <2>3. "none" \in Entitlements /\ now + Month \in Nat
    BY <1>3 DEF Entitlements
  <2>4. new \in Subscribed
    <3>1. PICK s \in [plan : {"none"}, start : Int, end : Int, last : Int,
                      entitlement : Entitlements, trial_used : BOOLEAN] :
             new = Begin(s, plan, now, Month)
      <4>1. PICK s : s = NoSubscription
        BY Zenon
      <4>2. s \in [plan : {"none"}, start : Int, end : Int, last : Int,
                   entitlement : Entitlements, trial_used : BOOLEAN]
        BY <4>1 DEF NoSubscription, Entitlements, Never
      <4> QED
        BY <1>1, <4>1, <4>2
    <3>2. -1 \in Int
      OBVIOUS
    <3> QED
      BY <1>3, <2>3, <3>1, <3>2 DEF Begin, Never, Subscribed
  <2> QED
    BY <2>2, <2>4
<1>5. ledger = <<>> /\ sub.trial_used = FALSE
  BY <1>2 DEF PlansInvariant, UnpaidSoFar, NoSubscription
<1>6. new.last # now /\ new.end > now
  BY <1>3, <1>4
<1>7. "activated" \in PlanEvents
  BY DEF PlanEvents
<1> QED
  BY <1>2, <1>4, <1>5, <1>6, <1>7, ActivationPreserves

(* The education Starter plan: a relabelling, or the user's first paid period. *)
LEMMA EduStarterPreserves ==
  ASSUME PlansInvariant, _activate_or_return_edu_starter
  PROVE  PlansInvariant'
<1>1. now \in Nat /\ Month \in Nat /\ Month > 0 /\ UNCHANGED <<now, user>>
  BY TimeAssumption DEF PlansInvariant, PlansTypeOK, _activate_or_return_edu_starter
<1>2. ASSUME sub.plan = "starter", sub' = [sub EXCEPT !.entitlement = "starter_free"],
             outbox' = Append(outbox, "edu_starter.activated"), UNCHANGED <<ledger, periods>>
      PROVE  PlansInvariant'
  <2>1. sub \in Subscribed
    BY <1>2, SubscriptionFields DEF PlansInvariant, Plans
  <2>2. sub' \in Subscribed /\ sub'.entitlement = "starter_free"
    BY <1>2, <2>1 DEF Subscribed, Entitlements
  <2>3. /\ sub'.plan = sub.plan /\ sub'.start = sub.start /\ sub'.end = sub.end
        /\ sub'.last = sub.last /\ sub'.trial_used = sub.trial_used
    BY <1>2, <2>1 DEF Subscribed
  <2>4. sub # NoSubscription /\ sub' # NoSubscription
    BY <1>2, <2>3 DEF NoSubscription
  <2>5. PICK a, b, c : a = outbox /\ b = outbox' /\ c = <<"edu_starter.activated">>
    BY Zenon
  <2>6. c \in Seq(PlanEvents) /\ \A j \in DOMAIN c : c[j] # "edu_pro_trial.activated"
    BY <2>5 DEF PlanEvents
  <2>7. outbox' = outbox \o c
    <3>1. a \in Seq(PlanEvents) /\ "edu_starter.activated" \in PlanEvents
      BY <2>5 DEF PlansInvariant, PlansTypeOK, PlanEvents
    <3>2. Append(a, "edu_starter.activated") = a \o c
      BY <2>5, <3>1
    <3> QED
      BY <1>2, <2>5, <3>2
  <2>8. /\ outbox' \in Seq(PlanEvents)
        /\ \A i \in DOMAIN outbox' : outbox'[i] = "edu_pro_trial.activated" =>
              i \in DOMAIN outbox /\ outbox[i] = "edu_pro_trial.activated"
    BY <2>6, <2>7, EventsAdded DEF PlansInvariant
  <2>9. PlansTypeOK'
    BY <1>1, <1>2, <2>2, <2>8 DEF PlansInvariant, PlansTypeOK
  <2>10. UnpaidSoFar' /\ CurrentPeriodIsLast' /\ RowsBehind'
    BY <1>1, <1>2, <2>3, <2>4
       DEF PlansInvariant, UnpaidSoFar, CurrentPeriodIsLast, RowsBehind
  <2>11. TrialIsNew'
    BY <1>2, <2>2, <2>3, <2>8 DEF PlansInvariant, TrialIsNew, IsRefill
  <2>12. RefilledOncePerPeriod' /\ PeriodsTile'
    BY <1>1, <1>2, <2>3 DEF PlansInvariant, RefilledOncePerPeriod, PeriodsTile, Refills
  <2>13. TrialOnce'
    BY <2>2, <2>8 DEF PlansInvariant, TrialOnce, is_edu_pro_trial
  <2> QED
    BY <2>9, <2>10, <2>11, <2>12, <2>13 DEF PlansInvariant
<1>3. ASSUME NEW new,
             new = [Begin(sub, "starter", now, Month) EXCEPT
                       !.last = IF user.seeded THEN now ELSE Never, !.entitlement = "starter_free"],
             sub = NoSubscription \/ sub.plan = "free",
             _apply_monthly_refill_once(new, <<"edu_starter.activated">>),
             periods' = {Period(new)}
      PROVE  PlansInvariant'
  <2>1. ledger = <<>>
    BY <1>3 DEF PlansInvariant, UnpaidSoFar, NoSubscription
  <2>2. PICK last \in Int : /\ last = IF user.seeded THEN now ELSE Never
                            /\ last = now => user.seeded
    BY <1>1 DEF Never
  <2>3. sub \in [plan : Plans \cup {"none"}, start : Int, end : Int, last : Int,
                 entitlement : Entitlements, trial_used : BOOLEAN]
    BY SubscriptionFields DEF PlansInvariant
  <2>4. /\ new.plan = "starter" /\ new.start = now /\ new.end = now + Month /\ new.last = last
        /\ new.entitlement = "starter_free" /\ new.trial_used = sub.trial_used
    BY <1>3, <2>2, <2>3 DEF Begin
  <2>5. new \in Subscribed
    <3>1. new = [sub EXCEPT !.plan = "starter", !.start = now, !.end = now + Month,
                            !.last = last, !.entitlement = "starter_free"]
      BY <1>3, <2>2, <2>3 DEF Begin
    <3>2. "starter" \in Plans /\ "starter_free" \in Entitlements /\ now + Month \in Nat
      BY <1>1 DEF Plans, Entitlements
    <3> QED
      BY <1>1, <2>3, <3>1, <3>2 DEF Subscribed
  <2>6. new.end > now /\ "edu_starter.activated" \in PlanEvents
    BY <1>1, <2>4 DEF PlanEvents
  <2>7. \A i \in DOMAIN ledger : ledger[i].start < new.end /\ (IsRefill(i) => ledger[i].plan # new.plan)
    BY <2>1
  <2>8. /\ new.last = now => user.seeded /\ new.plan = "starter"
        /\ new.entitlement # "pro_30d_trial" /\ (sub.trial_used => new.trial_used)
    BY <2>2, <2>4
  <2> QED
    BY <1>1, <1>3, <2>1, <2>4, <2>5, <2>6, <2>7, <2>8, ActivationPreserves
<1> QED
  BY <1>2, <1>3 DEF _activate_or_return_edu_starter

(* The trial begins after every month that has been refilled: this is where *)
(* the scheduler's clock may not run a whole trial ahead.                   *)
LEMMA EduTrialPreserves ==
  ASSUME Skew < Trial, PlansInvariant, _activate_or_return_edu_pro_trial
  PROVE  PlansInvariant'
<1>1. PICK new : new = [Begin(sub, "pro", now, Trial) EXCEPT
                           !.entitlement = "pro_30d_trial", !.trial_used = TRUE]
  BY Zenon
<1>2. /\ sub.trial_used = FALSE /\ sub.plan \notin {"pro", "team", "enterprise"}
      /\ _apply_monthly_refill_once(new, <<"edu_pro_trial.activated">>)
      /\ periods' = {Period(new)} /\ UNCHANGED <<now, user>>
  <2>1. sub.trial_used \in BOOLEAN
    BY SubscriptionFields DEF PlansInvariant
  <2> QED
    BY <1>1, <2>1 DEF _activate_or_return_edu_pro_trial
<1>3. now \in Nat /\ Trial \in Nat /\ Trial > 0 /\ Skew \in Nat
  BY TimeAssumption DEF PlansInvariant, PlansTypeOK
<1>4. sub \in [plan : Plans \cup {"none"}, start : Int, end : Int, last : Int,
               entitlement : Entitlements, trial_used : BOOLEAN]
  BY SubscriptionFields DEF PlansInvariant
<1>5. /\ new.plan = "pro" /\ new.start = now /\ new.end = now + Trial /\ new.last = -1
      /\ new.entitlement = "pro_30d_trial" /\ new.trial_used = TRUE
  BY <1>1, <1>4 DEF Begin, Never
<1>6. new \in Subscribed
  <2>1. "pro" \in Plans /\ "pro_30d_trial" \in Entitlements /\ now + Trial \in Nat /\ Never \in Int
    BY <1>3 DEF Plans, Entitlements, Never
  <2> QED
    BY <1>1, <1>3, <1>4, <2>1 DEF Begin, Subscribed
<1>7. new.last # now /\ new.end > now /\ "edu_pro_trial.activated" \in PlanEvents
  BY <1>3, <1>5 DEF PlanEvents
<1>8. \A i \in DOMAIN ledger : ledger[i].start < new.end /\ (IsRefill(i) => ledger[i].plan # new.plan)
  <2> TAKE i \in DOMAIN ledger
  <2>1. ledger[i].start \in Nat /\ ledger[i].start <= now + Skew
    <3>1. ledger[i] \in LedgerRows
      BY DEF PlansInvariant, PlansTypeOK
    <3> QED
      BY <3>1 DEF PlansInvariant, RowsBehind, LedgerRows
  <2>2. sub.plan \in {"none", "free", "starter"}
    BY <1>2, <1>4 DEF Plans
  <2>3. IsRefill(i) => ledger[i].plan # "pro"
    BY <1>2, <2>2 DEF PlansInvariant, TrialIsNew
  <2> QED
    BY <1>3, <1>5, <2>1, <2>3
<1> QED
  BY <1>2, <1>5, <1>6, <1>7, <1>8, ActivationPreserves

(* The upgrade changes the plan of the current period and adds no refill.   *)
LEMMA UpgradePreserves ==
  ASSUME PlansInvariant, _upgrade_starter_to_pro_with_proration,
         proration_amount(sub, now) \in Int
  PROVE  PlansInvariant'
<1>1. /\ sub.plan = "starter" /\ ~has_education_metadata(sub) /\ ~user.edu_tier
      /\ sub' = [sub EXCEPT !.plan = "pro"]
      /\ outbox' = Append(outbox, "plan_changed") /\ UNCHANGED <<now, user, periods>>
  BY DEF _upgrade_starter_to_pro_with_proration
<1>2. sub \in Subscribed /\ sub # NoSubscription
  BY <1>1, SubscriptionFields DEF PlansInvariant, Plans, NoSubscription
<1>3. /\ sub'.plan = "pro" /\ sub'.start = sub.start /\ sub'.end = sub.end
      /\ sub'.last = sub.last /\ sub'.trial_used = sub.trial_used /\ sub'.entitlement = "none"
      /\ sub' \in Subscribed /\ sub.start \in Nat
  <2>1. "pro" \in Plans /\ sub.entitlement = "none"
    BY <1>1 DEF Plans, has_education_metadata
  <2> QED
    BY <1>1, <1>2, <2>1 DEF Subscribed
<1>4. sub' # NoSubscription
  BY <1>3 DEF NoSubscription
<1>5. PICK old, all, row :
         /\ old = ledger /\ all = ledger'
         /\ row = [kind |-> "subscription_proration", start |-> sub.start, plan |-> "pro",
                   amount |-> proration_amount(sub, now), bucket |-> "monthly"]
  BY Zenon
<1>6. old \in Seq(LedgerRows) /\ row \in LedgerRows /\ all = Append(old, row)
  <2>1. "pro" \in Plans
    BY DEF Plans
  <2>2. row \in LedgerRows
    BY <1>3, <1>5, <2>1 DEF LedgerRows
  <2> QED
    BY <1>5, <2>2 DEF PlansInvariant, PlansTypeOK, _upgrade_starter_to_pro_with_proration
<1>7. /\ all \in Seq(LedgerRows) /\ IsConcat(old, <<row>>, all) /\ DOMAIN <<row>> = {1} /\ <<row>>[1] = row
  <2>1. PICK one : one = <<row>>
    BY Zenon
  <2>2. one \in Seq(LedgerRows) /\ all = old \o one
    BY <1>6, <2>1
  <2>3. all \in Seq(LedgerRows) /\ IsConcat(old, one, all)
    BY <1>6, <2>2, Appended
  <2> QED
    BY <2>1, <2>3
<1>8. /\ \A i \in DOMAIN old : i \in DOMAIN all /\ all[i] = old[i]
      /\ \A i \in DOMAIN all : i \in DOMAIN old \/ all[i] = row
  BY <1>7 DEF IsConcat
<1>9. /\ row.kind = "subscription_proration" /\ row.start = sub.start
  BY <1>5
<1>10. PICK c : c = <<"plan_changed">>
  BY Zenon
<1>11. c \in Seq(PlanEvents) /\ \A j \in DOMAIN c : c[j] # "edu_pro_trial.activated"
  BY <1>10 DEF PlanEvents
<1>12. outbox' = outbox \o c
  <2>1. PICK a : a = outbox
    BY Zenon
  <2>2. a \in Seq(PlanEvents) /\ "plan_changed" \in PlanEvents
    BY <2>1 DEF PlansInvariant, PlansTypeOK, PlanEvents
  <2>3. Append(a, "plan_changed") = a \o c
    BY <1>10, <2>2
  <2> QED
    BY <1>1, <2>1, <2>3
<1>13. /\ outbox' \in Seq(PlanEvents)
       /\ \A i \in DOMAIN outbox' : outbox'[i] = "edu_pro_trial.activated" =>
             i \in DOMAIN outbox /\ outbox[i] = "edu_pro_trial.activated"
  BY <1>11, <1>12, EventsAdded DEF PlansInvariant
<1>14. PlansTypeOK'
  BY <1>1, <1>3, <1>5, <1>7, <1>13 DEF PlansInvariant, PlansTypeOK
<1>15. UnpaidSoFar' /\ CurrentPeriodIsLast'
  BY <1>1, <1>2, <1>3, <1>4 DEF PlansInvariant, UnpaidSoFar, CurrentPeriodIsLast
<1>16. RowsBehind'
  <2>1. sub.start < sub.end /\ sub.start <= now + Skew
    BY <1>2 DEF PlansInvariant, CurrentPeriodIsLast
  <2>2. \A i \in DOMAIN old : old[i].start < sub.end /\ old[i].start <= now + Skew
    BY <1>5 DEF PlansInvariant, RowsBehind
  <2>3. \A i \in DOMAIN all : all[i].start < sub.end /\ all[i].start <= now + Skew
    BY <1>8, <1>9, <2>1, <2>2
  <2> QED
    BY <1>1, <1>3, <1>5, <2>3 DEF RowsBehind
<1>17. TrialIsNew'
  BY <1>3, <1>13 DEF PlansInvariant, TrialIsNew
<1>18. RefilledOncePerPeriod'
  <2>1. \A i \in DOMAIN all : all[i].kind = "monthly_refill" => i \in DOMAIN old
    BY <1>8, <1>9
  <2>2. ASSUME NEW i \in DOMAIN all, NEW j \in DOMAIN all, all[i].kind = "monthly_refill",
               all[j].kind = "monthly_refill", all[j].start = all[i].start, all[j].plan = all[i].plan
        PROVE  i = j
    BY <1>5, <1>8, <2>1, <2>2 DEF PlansInvariant, RefilledOncePerPeriod, Refills
  <2>3. ASSUME NEW p \in periods
        PROVE  \/ \E i \in DOMAIN all : /\ all[i].kind = "monthly_refill"
                                         /\ all[i].start = p.start /\ all[i].plan = p.plan
               \/ p.plan = "free"
               \/ user.seeded /\ p.plan = "starter" /\ \A q \in periods : p.start <= q.start
    <3>1. \/ \E i \in DOMAIN old : /\ old[i].kind = "monthly_refill"
                                    /\ old[i].start = p.start /\ old[i].plan = p.plan
          \/ p.plan = "free"
          \/ user.seeded /\ p.plan = "starter" /\ \A q \in periods : p.start <= q.start
      BY <1>5 DEF PlansInvariant, RefilledOncePerPeriod, Refills
    <3> QED
      BY <1>8, <3>1
  <2> QED
    BY <1>1, <1>5, <2>2, <2>3 DEF RefilledOncePerPeriod, Refills
<1>19. PeriodsTile'
  BY <1>1, <1>3 DEF PlansInvariant, PeriodsTile
<1>20. TrialOnce'
  BY <1>3, <1>13 DEF PlansInvariant, TrialOnce, is_edu_pro_trial
<1> QED
  BY <1>14, <1>15, <1>16, <1>17, <1>18, <1>19, <1>20 DEF PlansInvariant

(* Half-up rounding of the share r of d days in D credits. *)
LEMMA ProrationBounded ==
  ASSUME NEW D \in Nat, NEW r \in Nat, NEW d \in Nat \ {0}
  PROVE  /\ Quantize(D * r, d) \in Int
         /\ r <= d => Quantize(D * r, d) <= D
<1>1. D * r \in Nat /\ 2 * d \in Nat \ {0}
  OBVIOUS
<1>2. PICK x \in Nat : x = 2 * (D * r) + d
  BY <1>1
<1>3. PICK y \in Nat \ {0} : y = 2 * d
  BY <1>1
<1>4. Quantize(D * r, d) = x \div y
  BY <1>2, <1>3 DEF Quantize
<1>5. x \div y \in Int
  OBVIOUS
<1>6. ASSUME r <= d PROVE x \div y <= D
  <2>1. D * r <= D * d
    BY <1>6
  <2>2. PICK p \in Nat, q \in Nat : p = D * r /\ q = D * d
    OBVIOUS
  <2>3. x < q * 2 + y
    BY <1>2, <1>3, <2>1, <2>2
  <2>4. q * 2 + y = (D + 1) * y
    BY <1>3, <2>2
  <2>5. x < (D + 1) * y
    BY <2>3, <2>4
  <2>6. y * (x \div y) <= x
    OBVIOUS
  <2>7. PICK k \in Int : k = x \div y
    BY <1>5
  <2>8. y * k < (D + 1) * y
    BY <2>5, <2>6, <2>7
  <2>9. k < D + 1
    BY <2>8
  <2> QED
    BY <2>7, <2>9
<1> QED
  BY <1>4, <1>5, <1>6

(* Whole days grow with the ticks, and a period has at least one.           *)
LEMMA CeilDays ==
  ASSUME NEW t \in Int, NEW u \in Int
  PROVE  /\ _ceil_days(t) \in Nat
         /\ t > 0 => _ceil_days(t) # 0
         /\ t <= u => _ceil_days(t) <= _ceil_days(u)
<1>1. Day \in Nat \ {0}
  BY TimeAssumption
<1>2. \A x \in Int : x > 0 => (x + Day - 1) \div Day \in Nat \ {0}
  <2> SUFFICES ASSUME NEW x \in Int, x > 0 PROVE (x + Day - 1) \div Day \in Nat \ {0}
    OBVIOUS
  <2>1. PICK n \in Nat : n = x + Day - 1 /\ n >= Day
    BY <1>1
  <2>2. n \div Day \in Int /\ n < Day * (n \div Day) + Day
    BY <1>1
  <2>3. PICK k \in Int : k = n \div Day
    BY <2>2
  <2>4. Day < Day * (k + 1)
    BY <1>1, <2>1, <2>2, <2>3
  <2>5. k > 0
    BY <1>1, <2>4
  <2> QED
    BY <2>1, <2>3, <2>5
<1>3. t > 0 /\ t <= u => (t + Day - 1) \div Day <= (u + Day - 1) \div Day
  <2> SUFFICES ASSUME t > 0, t <= u PROVE (t + Day - 1) \div Day <= (u + Day - 1) \div Day
    OBVIOUS
  <2>1. PICK a \in Nat, b \in Nat : a = t + Day - 1 /\ b = u + Day - 1 /\ a <= b
    BY <1>1
  <2>2. PICK k \in Int, l \in Int : k = a \div Day /\ l = b \div Day
    BY <1>1
  <2>3. Day * k <= a /\ b < Day * l + Day
    BY <1>1, <2>2
  <2>4. Day * k < Day * (l + 1)
    BY <1>1, <2>1, <2>3
  <2>5. k < l + 1
    BY <1>1, <2>4
  <2> QED
    BY <2>1, <2>2, <2>5
<1> QED
  BY <1>2, <1>3 DEF _ceil_days

(* The days of the rest of a period are some of the period's days. *)
LEMMA UpgradeAmount ==
  ASSUME PlansInvariant, _upgrade_starter_to_pro_with_proration
  PROVE  /\ proration_amount(sub, now) \in Int
         /\ Skew = 0 => proration_amount(sub, now) + Credits["starter"] <= Credits["pro"]
<1>1. sub \in Subscribed /\ sub # NoSubscription
  BY SubscriptionFields
     DEF PlansInvariant, Plans, NoSubscription, _upgrade_starter_to_pro_with_proration
<1>2. /\ sub.start \in Int /\ sub.end \in Int /\ now \in Int /\ sub.start < sub.end
      /\ sub.start <= now + Skew
  BY <1>1 DEF Subscribed, PlansInvariant, PlansTypeOK, CurrentPeriodIsLast
<1>3. PICK D \in Nat : D = Credits["pro"] - Credits["starter"]
  BY CreditsAssumption DEF Plans
<1>4. PICK r \in Nat, d \in Nat \ {0} :
         /\ r = _ceil_days(sub.end - now) /\ d = _ceil_days(sub.end - sub.start)
         /\ Skew = 0 => r <= d
  <2>1. PICK t \in Int, u \in Int : t = sub.end - now /\ u = sub.end - sub.start
    BY <1>2
  <2>2. u > 0 /\ (Skew = 0 => t <= u)
    BY <1>2, <2>1
  <2>3. _ceil_days(t) \in Nat /\ _ceil_days(u) \in Nat \ {0}
    BY <2>1, <2>2, CeilDays
  <2>4. Skew = 0 => _ceil_days(t) <= _ceil_days(u)
    BY <2>1, <2>2, CeilDays
  <2> QED
    BY <2>1, <2>3, <2>4
<1>5. proration_amount(sub, now) = Quantize(D * r, d)
  BY <1>3, <1>4 DEF proration_amount
<1>6. Quantize(D * r, d) \in Int /\ (r <= d => Quantize(D * r, d) <= D)
  BY <1>3, <1>4, ProrationBounded
<1>7. Credits["pro"] \in Int /\ Credits["starter"] \in Int
  BY CreditsAssumption DEF Plans
<1> QED
  BY <1>3, <1>4, <1>5, <1>6, <1>7

(* Time passes.                                                             *)
LEMMA TickPreserves ==
  ASSUME PlansInvariant, Tick
  PROVE  PlansInvariant'
<1>1. /\ now \in Nat /\ now' = now + 1 /\ UNCHANGED <<user, sub, ledger, outbox, periods>>
      /\ Skew \in Nat
  BY TimeAssumption DEF PlansInvariant, PlansTypeOK, Tick
<1>2. PlansTypeOK' /\ UnpaidSoFar'
  BY <1>1 DEF PlansInvariant, PlansTypeOK, UnpaidSoFar
<1>3. CurrentPeriodIsLast'
  <2>1. sub # NoSubscription => sub.start \in Nat
    BY DEF PlansInvariant, PlansTypeOK, Subscribed
  <2>2. sub # NoSubscription => sub.start <= now' + Skew
    BY <1>1, <2>1 DEF PlansInvariant, CurrentPeriodIsLast
  <2> QED
    BY <1>1, <2>2 DEF PlansInvariant, CurrentPeriodIsLast
<1>4. RowsBehind'
  <2>1. \A i \in DOMAIN ledger : ledger[i].start \in Nat
    <3>1. \A i \in DOMAIN ledger : ledger[i] \in LedgerRows
      BY DEF PlansInvariant, PlansTypeOK
    <3> QED
      BY <3>1 DEF LedgerRows
  <2>2. \A i \in DOMAIN ledger : ledger[i].start <= now' + Skew
    BY <1>1, <2>1 DEF PlansInvariant, RowsBehind
  <2> QED
    BY <1>1, <2>2 DEF PlansInvariant, RowsBehind
<1>5. TrialIsNew' /\ RefilledOncePerPeriod' /\ PeriodsTile' /\ TrialOnce'
  BY <1>1 DEF PlansInvariant, TrialIsNew, IsRefill, RefilledOncePerPeriod, Refills, PeriodsTile,
              TrialOnce, is_edu_pro_trial
<1> QED
  BY <1>2, <1>3, <1>4, <1>5 DEF PlansInvariant

(* Every step of the plans.                                                 *)
LEMMA PlansPreserved ==
  Skew < Trial /\ PlansInvariant /\ [Next]_vars => PlansInvariant'
<1> SUFFICES ASSUME Skew < Trial, PlansInvariant, [Next]_vars PROVE PlansInvariant'
  OBVIOUS
<1>1. ASSUME NEW plan \in Plans, create_subscription(plan) PROVE PlansInvariant'
  BY <1>1, CreatePreserves
<1>2. CASE _upgrade_starter_to_pro_with_proration
  BY <1>2, UpgradePreserves, UpgradeAmount
<1>3. CASE _activate_or_return_edu_starter
  BY <1>3, EduStarterPreserves
<1>4. CASE _activate_or_return_edu_pro_trial
  BY <1>4, EduTrialPreserves
<1>5. ASSUME NEW as_of \in 0..(now + Skew), refill_due(as_of) PROVE PlansInvariant'
  BY <1>5, RefillDuePreserves
<1>6. CASE Tick
  BY <1>6, TickPreserves
<1>7. CASE UNCHANGED vars
  <2>1. UNCHANGED <<now, user, sub, ledger, outbox, periods>>
    BY <1>7 DEF vars
  <2>2. PlansTypeOK' /\ UnpaidSoFar' /\ CurrentPeriodIsLast' /\ RowsBehind'
    BY <2>1 DEF PlansInvariant, PlansTypeOK, UnpaidSoFar, CurrentPeriodIsLast, RowsBehind
  <2>3. TrialIsNew' /\ RefilledOncePerPeriod' /\ PeriodsTile' /\ TrialOnce'
    BY <2>1 DEF PlansInvariant, TrialIsNew, IsRefill, RefilledOncePerPeriod, Refills, PeriodsTile,
                TrialOnce, is_edu_pro_trial
  <2> QED
    BY <2>2, <2>3 DEF PlansInvariant
<1> QED
  BY <1>1, <1>2, <1>3, <1>4, <1>5, <1>6, <1>7 DEF Next

(* The initial states, with and without an old Starter subscription.        *)
LEMMA PlansInit ==
  Init => PlansInvariant /\ UpgradeInvariant
<1> SUFFICES ASSUME Init PROVE PlansInvariant /\ UpgradeInvariant
  OBVIOUS
<1>1. /\ now = 0 /\ user \in [edu_tier : BOOLEAN, seeded : BOOLEAN]
      /\ Month \in Nat /\ Month > 0 /\ Skew \in Nat
  BY TimeAssumption DEF Init
<1>2. CASE sub = NoSubscription /\ ledger = <<>> /\ outbox = <<>> /\ periods = {}
  <2>1. /\ sub.plan = "none" /\ sub.entitlement = "none" /\ sub.trial_used = FALSE
        /\ DOMAIN ledger = {} /\ DOMAIN outbox = {}
    BY <1>2 DEF NoSubscription
  <2>2. PlansTypeOK
    BY <1>1, <1>2 DEF PlansTypeOK
  <2>3. UnpaidSoFar /\ CurrentPeriodIsLast /\ RowsBehind /\ TrialIsNew
    BY <1>2, <2>1 DEF UnpaidSoFar, CurrentPeriodIsLast, RowsBehind, TrialIsNew
  <2>4. RefilledOncePerPeriod /\ PeriodsTile /\ TrialOnce
    BY <1>2, <2>1 DEF RefilledOncePerPeriod, PeriodsTile, TrialOnce, is_edu_pro_trial
  <2>5. RefillsAsPriced /\ UpgradesOnce /\ UpgradeWithinPro
    BY <2>1 DEF RefillsAsPriced, UpgradesOnce, UpgradeWithinPro
  <2> QED
    BY <2>2, <2>3, <2>4, <2>5 DEF PlansInvariant, UpgradeInvariant
<1>3. ASSUME NEW old, old = Begin(NoSubscription, "starter", 0, Month),
             sub = [old EXCEPT !.last = 0], ledger = RefillRows(old),
             outbox = <<"activated", "refilled">>, periods = {Period(old)}
      PROVE  PlansInvariant /\ UpgradeInvariant
  <2>1. PICK s \in [plan : {"none"}, start : Int, end : Int, last : Int,
                    entitlement : {"none"}, trial_used : {FALSE}] : s = NoSubscription
    <3>1. PICK s : s = NoSubscription
      BY Zenon
    <3>2. s \in [plan : {"none"}, start : Int, end : Int, last : Int,
                 entitlement : {"none"}, trial_used : {FALSE}]
      BY <3>1 DEF NoSubscription, Never
    <3> QED
      BY <3>1, <3>2
  <2>2. /\ old.plan = "starter" /\ old.start = 0 /\ old.end = Month /\ old.last = -1
        /\ old.entitlement = "none" /\ old.trial_used = FALSE
        /\ old \in [plan : {"starter"}, start : Nat, end : Nat, last : Int,
                    entitlement : {"none"}, trial_used : {FALSE}]
    <3>1. old = [s EXCEPT !.plan = "starter", !.start = 0, !.end = Month, !.last = -1]
      <4>1. 0 + Month = Month
        BY <1>1
      <4>2. old = [s EXCEPT !.plan = "starter", !.start = 0, !.end = 0 + Month, !.last = -1]
        BY <1>3, <2>1, Zenon DEF Begin, Never
      <4> QED
        BY <4>1, <4>2, Zenon
    <3>2. /\ old.plan = "starter" /\ old.start = 0 /\ old.end = Month /\ old.last = -1
          /\ old.entitlement = "none" /\ old.trial_used = FALSE
      BY <2>1, <3>1
    <3>3. -1 \in Int /\ 0 \in Nat
      OBVIOUS
    <3> QED
      BY <1>1, <2>1, <3>1, <3>2, <3>3
  <2>3. old \in Subscribed
    BY <2>2 DEF Subscribed, Plans, Entitlements
  <2>4. /\ sub.plan = "starter" /\ sub.start = 0 /\ sub.end = Month /\ sub.last = 0
        /\ sub.entitlement = "none" /\ sub.trial_used = FALSE /\ sub \in Subscribed
    BY <1>3, <2>2, <2>3 DEF Subscribed
  <2>5. sub # NoSubscription
    BY <2>4 DEF NoSubscription
  <2>6. /\ ledger \in Seq(LedgerRows) /\ DOMAIN ledger = {1}
        /\ \A i \in DOMAIN ledger :
              /\ i = 1 /\ ledger[i].kind = "monthly_refill" /\ ledger[i].start = 0
              /\ ledger[i].plan = "starter" /\ ledger[i].amount = Credits["starter"]
    BY <1>3, <2>2, <2>3, RefillRowsTyped
  <2>7. Period(old) = [start |-> 0, end |-> Month, plan |-> "starter"]
    BY <2>2 DEF Period
  <2>8. outbox \in Seq(PlanEvents) /\ \A i \in DOMAIN outbox : outbox[i] # "edu_pro_trial.activated"
    BY <1>3 DEF PlanEvents
  <2>9. PlansTypeOK
    <3>1. [start |-> 0, end |-> Month, plan |-> "starter"] \in [start : Nat, end : Nat, plan : Plans]
      BY <1>1 DEF Plans
    <3> QED
      BY <1>1, <1>3, <2>4, <2>6, <2>7, <2>8, <3>1 DEF PlansTypeOK
  <2>10. UnpaidSoFar /\ CurrentPeriodIsLast /\ RowsBehind
    BY <1>1, <1>3, <2>4, <2>5, <2>6, <2>7 DEF UnpaidSoFar, CurrentPeriodIsLast, RowsBehind
  <2>11. TrialIsNew /\ TrialOnce
    BY <2>4, <2>6, <2>8 DEF TrialIsNew, TrialOnce, is_edu_pro_trial
  <2>12. RefilledOncePerPeriod
    <3>1. Refills(1, 0, "starter") /\ 1 \in DOMAIN ledger
      BY <2>6 DEF Refills
    <3> QED
      BY <1>3, <2>6, <2>7, <3>1 DEF RefilledOncePerPeriod
  <2>13. PeriodsTile
    BY <1>1, <1>3, <2>4, <2>7 DEF PeriodsTile
  <2>14. RefillsAsPriced /\ UpgradesOnce /\ UpgradeWithinPro
    BY <2>4, <2>6 DEF RefillsAsPriced, UpgradesOnce, UpgradeWithinPro, IsRefill
  <2> QED
    BY <2>9, <2>10, <2>11, <2>12, <2>13, <2>14 DEF PlansInvariant, UpgradeInvariant
<1> QED
  BY <1>2, <1>3 DEF Init

(* Refills of a plan that the user has and whose period no upgrade was in. *)
LEMMA RefillsKeepBound ==
  ASSUME PlansTypeOK, UpgradeInvariant, NEW rows \in Seq(LedgerRows),
         ledger' = ledger \o rows, user' = user,
         \A j \in DOMAIN rows :
            /\ rows[j].kind = "monthly_refill" /\ rows[j].plan = sub'.plan
            /\ rows[j].amount = Credits[sub'.plan]
            /\ \A i \in DOMAIN ledger : ~IsRefill(i) => ledger[i].start # rows[j].start,
         ~user.edu_tier /\ sub'.plan # "pro" => sub'.plan = sub.plan \/ ledger = <<>>,
         ~user.edu_tier => sub'.entitlement = "none"
  PROVE  UpgradeInvariant'
<1>1. PICK old, all : old = ledger /\ all = ledger'
  BY Zenon
<1>2. old \in Seq(LedgerRows) /\ all = old \o rows
  BY <1>1 DEF PlansTypeOK
<1>3. IsConcat(old, rows, all)
  BY <1>2, Appended
<1>4. \A i \in DOMAIN all : (i \in DOMAIN old /\ all[i] = old[i]) \/ \E j \in DOMAIN rows : all[i] = rows[j]
  BY <1>3 DEF IsConcat
<1>5. RefillsAsPriced'
  <2>1. \A i \in DOMAIN old : old[i].kind = "monthly_refill" => old[i].amount = Credits[old[i].plan]
    BY <1>1 DEF UpgradeInvariant, RefillsAsPriced, IsRefill
  <2>2. \A i \in DOMAIN all : all[i].kind = "monthly_refill" => all[i].amount = Credits[all[i].plan]
    BY <1>4, <2>1
  <2> QED
    BY <1>1, <2>2 DEF RefillsAsPriced, IsRefill
<1>6. UpgradesOnce'
  <2>1. ~user.edu_tier /\ sub'.plan # "pro" =>
          \A i \in DOMAIN all : all[i].kind = "monthly_refill" /\ all[i].plan = sub'.plan
    <3> SUFFICES ASSUME ~user.edu_tier, sub'.plan # "pro", NEW i \in DOMAIN all
                 PROVE  all[i].kind = "monthly_refill" /\ all[i].plan = sub'.plan
      OBVIOUS
    <3>1. CASE i \in DOMAIN old /\ all[i] = old[i]
      BY <1>1, <3>1 DEF UpgradeInvariant, UpgradesOnce, IsRefill
    <3> QED
      BY <1>4, <3>1
  <2>2. user.edu_tier => \A i \in DOMAIN all : all[i].kind = "monthly_refill"
    <3>1. user.edu_tier => \A i \in DOMAIN old : old[i].kind = "monthly_refill"
      BY <1>1 DEF UpgradeInvariant, UpgradesOnce, IsRefill
    <3> QED
      BY <1>4, <3>1
  <2> QED
    BY <1>1, <2>1, <2>2 DEF UpgradesOnce, IsRefill
<1>7. UpgradeWithinPro'
  <2> SUFFICES ASSUME NEW i \in DOMAIN all, NEW j \in DOMAIN all, all[i].kind = "monthly_refill",
                      all[j].kind = "subscription_proration", all[i].start = all[j].start
               PROVE  all[i].amount + all[j].amount <= Credits["pro"]
    BY <1>1 DEF UpgradeWithinPro
  <2>1. j \in DOMAIN old /\ all[j] = old[j]
    BY <1>4
  <2>2. i \in DOMAIN old /\ all[i] = old[i]
    <3>1. \A k \in DOMAIN rows : old[j].start # rows[k].start
      BY <1>1, <2>1 DEF IsRefill
    <3> QED
      BY <1>4, <2>1, <3>1
  <2> QED
    BY <1>1, <2>1, <2>2 DEF UpgradeInvariant, UpgradeWithinPro
<1> QED
  BY <1>5, <1>6, <1>7 DEF UpgradeInvariant

(* The upgrade's own row: the refill of its period was of Starter. *)
LEMMA UpgradeKeepsBound ==
  ASSUME Skew = 0, PlansInvariant, UpgradeInvariant, _upgrade_starter_to_pro_with_proration
  PROVE  UpgradeInvariant'
<1>1. /\ sub.plan = "starter" /\ ~user.edu_tier /\ user' = user
      /\ sub' = [sub EXCEPT !.plan = "pro"]
  BY DEF _upgrade_starter_to_pro_with_proration
<1>2. PICK amount \in Int : /\ amount = proration_amount(sub, now)
                            /\ amount + Credits["starter"] <= Credits["pro"]
  BY UpgradeAmount
<1>3. sub \in Subscribed
  BY <1>1, SubscriptionFields DEF PlansInvariant, Plans
<1>4. sub'.plan = "pro" /\ sub'.entitlement = "none"
  BY <1>1, <1>3 DEF Subscribed, UpgradeInvariant, UpgradesOnce
<1>5. PICK old, all, row :
         /\ old = ledger /\ all = ledger'
         /\ row = [kind |-> "subscription_proration", start |-> sub.start, plan |-> "pro",
                   amount |-> amount, bucket |-> "monthly"]
  BY Zenon
<1>6. all = Append(old, row) /\ old \in Seq(LedgerRows)
  BY <1>2, <1>5 DEF PlansInvariant, PlansTypeOK, _upgrade_starter_to_pro_with_proration
<1>7. row.kind = "subscription_proration" /\ row.amount = amount
  BY <1>5
<1>8. \A i \in DOMAIN all : (i \in DOMAIN old /\ all[i] = old[i]) \/ all[i] = row
  <2>1. Len(old) \in Nat /\ DOMAIN old = 1..Len(old) /\ DOMAIN all = 1..(Len(old) + 1)
    BY <1>6
  <2>2. all[Len(old) + 1] = row /\ \A i \in 1..Len(old) : all[i] = old[i]
    BY <1>6
  <2>3. \A i \in 1..(Len(old) + 1) : i \in 1..Len(old) \/ i = Len(old) + 1
    BY <2>1
  <2> QED
    BY <2>1, <2>2, <2>3
<1>9. \A i \in DOMAIN old : /\ old[i].kind = "monthly_refill" /\ old[i].plan = "starter"
                           /\ old[i].amount = Credits["starter"]
  BY <1>1, <1>5 DEF UpgradeInvariant, UpgradesOnce, RefillsAsPriced, IsRefill
<1>10. RefillsAsPriced'
  BY <1>5, <1>7, <1>8, <1>9 DEF RefillsAsPriced, IsRefill
<1>11. UpgradesOnce'
  BY <1>1, <1>4 DEF UpgradesOnce
<1>12. UpgradeWithinPro'
  <2> SUFFICES ASSUME NEW i \in DOMAIN all, NEW j \in DOMAIN all, all[i].kind = "monthly_refill",
                      all[j].kind = "subscription_proration"
               PROVE  all[i].amount + all[j].amount <= Credits["pro"]
    BY <1>5 DEF UpgradeWithinPro
  <2>1. all[j].amount = amount
    BY <1>7, <1>8, <1>9
  <2>2. all[i].amount = Credits["starter"]
    BY <1>7, <1>8, <1>9
  <2>3. Credits["starter"] \in Int
    BY CreditsAssumption DEF Plans
  <2> QED
    BY <1>2, <2>1, <2>2, <2>3
<1> QED
  BY <1>10, <1>11, <1>12 DEF UpgradeInvariant

(* A plan that begins meets no upgrade in its period.                       *)
LEMMA ActivationKeepsBound ==
  ASSUME PlansInvariant, UpgradeInvariant, NEW new \in Subscribed, NEW events,
         _apply_monthly_refill_once(new, events), user' = user,
         user.edu_tier \/ (ledger = <<>> /\ new.entitlement = "none")
  PROVE  UpgradeInvariant'
<1>1. sub' = [new EXCEPT !.last = new.start] /\ ledger' = ledger \o RefillRows(new)
  BY DEF _apply_monthly_refill_once
<1>2. sub'.plan = new.plan /\ sub'.entitlement = new.entitlement
  BY <1>1 DEF Subscribed
<1>3. PICK rows : rows = RefillRows(new)
  BY Zenon
<1>4. /\ rows \in Seq(LedgerRows)
      /\ \A j \in DOMAIN rows : /\ rows[j].kind = "monthly_refill" /\ rows[j].plan = sub'.plan
                               /\ rows[j].amount = Credits[sub'.plan]
  BY <1>2, <1>3, RefillRowsTyped
<1>5. \A i \in DOMAIN ledger : IsRefill(i)
  <2>1. CASE user.edu_tier
    BY <2>1 DEF UpgradeInvariant, UpgradesOnce
  <2>2. CASE ledger = <<>>
    BY <2>2
  <2> QED
    BY <2>1, <2>2
<1> QED
  BY <1>1, <1>2, <1>3, <1>4, <1>5, RefillsKeepBound DEF PlansInvariant

(* Due periods begin after every upgrade there was.                         *)
LEMMA RefillDueKeepsBound ==
  ASSUME PlansInvariant, UpgradeInvariant, NEW as_of \in 0..(now + Skew), refill_due(as_of)
  PROVE  UpgradeInvariant'
<1>1. sub \in Subscribed /\ user' = user /\ as_of \in Nat
  BY TimeAssumption DEF refill_due, PlansInvariant, PlansTypeOK
<1>2. PICK n \in Nat \ {0} : sub' = Due(n, DueStart(n)) /\ ledger' = ledger \o DueRows(n)
  BY <1>1, RefillDueEffect DEF PlansInvariant
<1>3. sub'.plan = DuePlan /\ sub'.entitlement = DueEntitlement /\ sub.end \in Nat
  BY <1>1, <1>2 DEF Due, Subscription, Subscribed
<1>4. PICK rows : rows = DueRows(n)
  BY Zenon
<1>5. rows \in Seq(LedgerRows) /\ \A j \in DOMAIN rows : j \in 1..n /\ rows[j] = DueRow(j)
  BY <1>1, <1>4, DueRowsTyped
<1>6. \A j \in DOMAIN rows : /\ rows[j].kind = "monthly_refill" /\ rows[j].plan = sub'.plan
                            /\ rows[j].amount = Credits[sub'.plan] /\ rows[j].start = DueStart(j)
  BY <1>3, <1>5 DEF DueRow
<1>7. \A j \in DOMAIN rows : rows[j].start \in Nat /\ rows[j].start >= sub.end
  <2> TAKE j \in DOMAIN rows
  <2>1. j \in Nat \ {0} /\ rows[j].start = DueStart(j)
    BY <1>5, <1>6
  <2>2. DueStart(j) \in Nat /\ DueStart(j) >= sub.end
    BY <1>3, <2>1, DueStarts
  <2> QED
    BY <2>1, <2>2
<1>8. \A i \in DOMAIN ledger : ledger[i].start \in Nat /\ ledger[i].start < sub.end
  <2>1. \A i \in DOMAIN ledger : ledger[i] \in LedgerRows
    BY DEF PlansInvariant, PlansTypeOK
  <2> QED
    BY <2>1 DEF LedgerRows, PlansInvariant, RowsBehind
<1>9. \A j \in DOMAIN rows : \A i \in DOMAIN ledger : ledger[i].start # rows[j].start
  BY <1>3, <1>7, <1>8
<1>10. ~user.edu_tier => sub'.plan = sub.plan /\ sub'.entitlement = "none"
  BY <1>3 DEF UpgradeInvariant, UpgradesOnce, DuePlan, DueEntitlement, is_edu_pro_trial
<1> QED
  BY <1>1, <1>2, <1>4, <1>5, <1>6, <1>9, <1>10, RefillsKeepBound DEF PlansInvariant

(* Every step of the plans, while the scheduler's clock is not ahead.       *)
LEMMA UpgradePreserved ==
  Skew = 0 /\ PlansInvariant /\ UpgradeInvariant /\ [Next]_vars => UpgradeInvariant'
<1> SUFFICES ASSUME Skew = 0, PlansInvariant, UpgradeInvariant, [Next]_vars PROVE UpgradeInvariant'
  OBVIOUS
<1>1. /\ now \in Nat /\ Month \in Nat /\ Trial \in Nat
      /\ sub \in [plan : Plans \cup {"none"}, start : Int, end : Int, last : Int,
                  entitlement : Entitlements, trial_used : BOOLEAN]
  BY TimeAssumption, SubscriptionFields DEF PlansInvariant, PlansTypeOK
<1>2. ASSUME NEW plan \in Plans, create_subscription(plan) PROVE UpgradeInvariant'
  <2>1. PICK new : new = Begin(NoSubscription, plan, now, Month)
    BY Zenon
  <2>2. /\ sub = NoSubscription /\ _apply_monthly_refill_once(new, <<"activated">>) /\ user' = user
    BY <1>2, <2>1 DEF create_subscription
  <2>3. new = Begin(sub, plan, now, Month) /\ sub.entitlement = "none" /\ ledger = <<>>
    BY <2>1, <2>2 DEF NoSubscription, PlansInvariant, UnpaidSoFar
  <2>4. new.entitlement = "none" /\ new \in Subscribed
    <3>1. -1 \in Int /\ now + Month \in Nat
      BY <1>1
    <3> QED
      BY <1>1, <2>3, <3>1 DEF Begin, Subscribed, Never
  <2> QED
    BY <2>2, <2>3, <2>4, ActivationKeepsBound
<1>3. CASE _upgrade_starter_to_pro_with_proration
  BY <1>3, UpgradeKeepsBound
<1>4. CASE _activate_or_return_edu_starter
  <2>1. user.edu_tier /\ user' = user
    BY <1>4 DEF _activate_or_return_edu_starter
  <2>2. CASE ledger' = ledger
    BY <2>1, <2>2 DEF UpgradeInvariant, RefillsAsPriced, UpgradesOnce, UpgradeWithinPro, IsRefill
  <2>3. ASSUME NEW new, _apply_monthly_refill_once(new, <<"edu_starter.activated">>),
               new = [Begin(sub, "starter", now, Month) EXCEPT
                         !.last = IF user.seeded THEN now ELSE Never, !.entitlement = "starter_free"]
        PROVE  UpgradeInvariant'
    <3>1. PICK last \in Int : last = IF user.seeded THEN now ELSE Never
      BY <1>1 DEF Never
    <3>2. new = [sub EXCEPT !.plan = "starter", !.start = now, !.end = now + Month,
                            !.last = last, !.entitlement = "starter_free"]
      BY <1>1, <2>3, <3>1 DEF Begin
    <3>3. "starter" \in Plans /\ "starter_free" \in Entitlements /\ now + Month \in Nat
      BY <1>1 DEF Plans, Entitlements
    <3>4. new \in Subscribed
      BY <1>1, <3>1, <3>2, <3>3 DEF Subscribed
    <3> QED
      BY <2>1, <2>3, <3>4, ActivationKeepsBound
  <2> QED
    BY <1>4, <2>2, <2>3 DEF _activate_or_return_edu_starter
<1>5. CASE _activate_or_return_edu_pro_trial
  <2>1. PICK new : new = [Begin(sub, "pro", now, Trial) EXCEPT
                             !.entitlement = "pro_30d_trial", !.trial_used = TRUE]
    BY Zenon
  <2>2. /\ user.edu_tier /\ user' = user
        /\ _apply_monthly_refill_once(new, <<"edu_pro_trial.activated">>)
    BY <1>5, <2>1 DEF _activate_or_return_edu_pro_trial
  <2>3. "pro" \in Plans /\ "pro_30d_trial" \in Entitlements /\ now + Trial \in Nat /\ Never \in Int
    BY <1>1 DEF Plans, Entitlements, Never
  <2>4. new \in Subscribed
    BY <1>1, <2>1, <2>3 DEF Begin, Subscribed
  <2> QED
    BY <2>2, <2>4, ActivationKeepsBound
<1>6. ASSUME NEW as_of \in 0..(now + Skew), refill_due(as_of) PROVE UpgradeInvariant'
  BY <1>6, RefillDueKeepsBound
<1>7. CASE Tick \/ UNCHANGED vars
  <2>1. UNCHANGED <<user, sub, ledger>>
    BY <1>7 DEF Tick, vars
  <2> QED
    BY <2>1 DEF UpgradeInvariant, RefillsAsPriced, UpgradesOnce, UpgradeWithinPro, IsRefill
<1> QED
  BY <1>2, <1>3, <1>4, <1>5, <1>6, <1>7 DEF Next

(* However late, early or often refill-due runs and whatever the user does  *)
(* in between, every period of a plan is refilled exactly once and the      *)
(* periods leave neither gap nor overlap, if the scheduler's as_of is less  *)
(* than a trial ahead of the handlers' clock.  (An as_of further ahead can  *)
(* refill the period that a trial begun since is followed by.)              *)
THEOREM PeriodsRefilledOnce == Skew < Trial => (Spec => []EveryPeriodRefilledOnce)
<1> SUFFICES ASSUME Skew < Trial PROVE Spec => []EveryPeriodRefilledOnce
  OBVIOUS
<1>1. PlansInvariant => EveryPeriodRefilledOnce
  BY DEF PlansInvariant, EveryPeriodRefilledOnce
<1>2. PlansInvariant /\ [Next]_vars => PlansInvariant'
  BY PlansPreserved
<1> QED
  BY PlansInit, <1>1, <1>2, PTL DEF Spec

(* A user gets one trial in a lifetime, and an upgraded Starter period      *)
(* brings no more credits than a month of Pro, if the scheduler's as_of is  *)
(* not ahead of the handlers' clock.                                        *)
THEOREM EntitlementsAlwaysBounded == Skew = 0 => (Spec => []EntitlementsBounded)
<1> SUFFICES ASSUME Skew = 0 PROVE Spec => []EntitlementsBounded
  OBVIOUS
<1>1. PlansInvariant /\ UpgradeInvariant => EntitlementsBounded
  BY DEF PlansInvariant, UpgradeInvariant, EntitlementsBounded
<1>2. PlansInvariant /\ [Next]_vars => PlansInvariant'
  BY PlansPreserved, TimeAssumption
<1>3. PlansInvariant /\ UpgradeInvariant /\ [Next]_vars => UpgradeInvariant'
  BY UpgradePreserved
<1> QED
  BY PlansInit, <1>1, <1>2, <1>3, PTL DEF Spec

-----------------------------------------------------------------------------
(***************************************************************************)
(* The admission of charges.  What makes its property inductive: a key's   *)
(* row that names a charge names a charge of the row's own user, key and   *)
(* body; a session that is about to commit either holds such a charge or   *)
(* is the only one to hold its key, which no charge has yet; and the hash  *)
(* a session goes by contains its body.                                    *)
(***************************************************************************)
ChargeRows == [key : Keys, user : Users, body : Bodies, settled : BOOLEAN]
Hashes == (Bodies \cup {"none"}) \X BOOLEAN
AdmissionKeyRows == [user : Users \cup {"none"}, hash : Hashes, charge : Nat, live : BOOLEAN]
SessionStates ==
    [at : {"idle", "cached", "seed", "balance", "start", "insert", "persist"},
     user : Users \cup {"none"}, key : Keys \cup {"none"}, body : Bodies \cup {"none"},
     confirmed : BOOLEAN, seeded : BOOLEAN, hash : Hashes, charge : Nat]
ChargeAnswers == [user : Users, body : Bodies, key : Keys, charge : Nat]

AdmissionTypeOK ==
    /\ seeds \in [Users -> Nat]
    /\ charges \in Seq(ChargeRows)
    /\ keyRows \in [Keys -> AdmissionKeyRows]
    /\ session \in [Sessions -> SessionStates]
    /\ answers \subseteq ChargeAnswers
    /\ raced \subseteq Users

(* Charge number id is the one of this user, key and body. *)
IsChargeOf(id, u, k, b) ==
    /\ id \in DOMAIN charges
    /\ charges[id].user = u /\ charges[id].key = k /\ charges[id].body = b

(* A session that has begun carries a request; the hash it will store is    *)
(* made of its body; only one that is about to commit has a charge.         *)
SessionsHoldRequests ==
    \A w \in Sessions :
       LET s == session[w]
       IN  /\ s.at # "idle" => s.user \in Users /\ s.key \in Keys /\ s.body \in Bodies
           /\ s.at \in {"start", "insert", "persist"} => s.hash[1] = s.body
           /\ s.charge # 0 => s.at = "persist"
           /\ s.seeded => s.at \in {"balance", "start", "insert", "persist"}

RowsPointToTheirCharge ==
    \A k \in Keys : keyRows[k].charge # 0 =>
       IsChargeOf(keyRows[k].charge, keyRows[k].user, k, keyRows[k].hash[1])

(* A session about to commit has found its charge, or has the only insert   *)
(* of a key that no charge and no other request has used.                   *)
CommittersAreAlone ==
    \A w \in Sessions : session[w].at = "persist" =>
       LET s == session[w]
       IN  /\ s.charge # 0 => IsChargeOf(s.charge, s.user, s.key, s.body)
           /\ s.charge = 0 =>
                /\ ~KeyTaken(s.key) /\ keyRows[s.key] = NoKey
                /\ ~KeyBlocked(w)

AnswersPointToTheirCharge ==
    \A a \in answers : IsChargeOf(a.charge, a.user, a.key, a.body)

OneChargePerKey ==
    \A i, j \in DOMAIN charges : charges[i].key = charges[j].key => i = j

(* The demo credits of a user whose first requests did not overlap are in   *)
(* the ledger, in one session's transaction, or nowhere.                    *)
SeedsAreSingle ==
    \A u \in Users \ raced :
       /\ seeds[u] <= 1
       /\ \A v \in Sessions : session[v].seeded /\ session[v].user = u =>
             /\ seeds[u] = 0
             /\ \A w \in Sessions : session[w].seeded /\ session[w].user = u => w = v

AdmissionInvariant ==
    /\ AdmissionTypeOK /\ SessionsHoldRequests /\ RowsPointToTheirCharge /\ CommittersAreAlone
    /\ AnswersPointToTheirCharge /\ OneChargePerKey /\ SeedsAreSingle

LEMMA AdmissionValues == NoKey \in AdmissionKeyRows /\ NoSession \in SessionStates
<1>1. <<"none", FALSE>> \in Hashes
  BY DEF Hashes
<1> QED
  BY <1>1 DEF NoKey, NoSession, AdmissionKeyRows, SessionStates

LEMMA AdmissionInitially == AdmissionInit => AdmissionInvariant
<1> SUFFICES ASSUME AdmissionInit PROVE AdmissionInvariant
  OBVIOUS
<1>1. AdmissionTypeOK
  BY AdmissionValues DEF AdmissionInit, AdmissionTypeOK
<1>2. SessionsHoldRequests /\ CommittersAreAlone /\ SeedsAreSingle
  BY DEF AdmissionInit, NoSession, SessionsHoldRequests, CommittersAreAlone, SeedsAreSingle
<1>3. RowsPointToTheirCharge /\ AnswersPointToTheirCharge /\ OneChargePerKey
  BY DEF AdmissionInit, NoKey, RowsPointToTheirCharge, AnswersPointToTheirCharge, OneChargePerKey
<1> QED
  BY <1>1, <1>2, <1>3 DEF AdmissionInvariant

(* A step of one session that touches no stored row but the credits: what   *)
(* the invariant asks of the session's new state is all there is to show.   *)
LEMMA SessionMoves ==
  ASSUME AdmissionInvariant, NEW w \in Sessions, NEW s \in SessionStates,
         session' = [session EXCEPT ![w] = s],
         UNCHANGED <<charges, keyRows>>,
         s.at # "idle" => s.user \in Users /\ s.key \in Keys /\ s.body \in Bodies,
         s.at \in {"start", "insert", "persist"} => s.hash[1] = s.body,
         s.charge # 0 => s.at = "persist",
         s.seeded => s.at \in {"balance", "start", "insert", "persist"},
         s.at = "persist" /\ s.charge # 0 => IsChargeOf(s.charge, s.user, s.key, s.body),
         s.at = "persist" /\ s.charge = 0 =>
            ~KeyTaken(s.key) /\ keyRows[s.key] = NoKey /\ ~KeyBlocked(w) /\ s.key = session[w].key
  PROVE  /\ session' \in [Sessions -> SessionStates]
         /\ SessionsHoldRequests' /\ RowsPointToTheirCharge' /\ CommittersAreAlone'
         /\ OneChargePerKey'
<1> USE DEF AdmissionInvariant
<1>1. session' \in [Sessions -> SessionStates]
  BY DEF AdmissionTypeOK
<1>2. \A v \in Sessions : session'[v] = IF v = w THEN s ELSE session[v]
  BY DEF AdmissionTypeOK
<1>3. SessionsHoldRequests'
  BY <1>2 DEF SessionsHoldRequests
<1>4. RowsPointToTheirCharge' /\ OneChargePerKey'
  BY DEF RowsPointToTheirCharge, OneChargePerKey, IsChargeOf
<1>5. CommittersAreAlone'
  <2> SUFFICES ASSUME NEW v \in Sessions, session'[v].at = "persist"
               PROVE  /\ session'[v].charge # 0 =>
                            IsChargeOf(session[v].charge, session[v].user, session[v].key,
                                       session[v].body)'
                      /\ session'[v].charge = 0 =>
                            /\ ~KeyTaken(session[v].key)' /\ keyRows'[session'[v].key] = NoKey
                            /\ ~KeyBlocked(v)'
    BY DEF CommittersAreAlone
  <2>1. CASE v = w
    BY <1>2, <2>1 DEF KeyTaken, KeyBlocked, IsChargeOf
  <2>2. CASE v # w
    <3>1. session'[v] = session[v]
      BY <1>2, <2>2
    <3>2. /\ session[v].charge # 0 =>
               IsChargeOf(session[v].charge, session[v].user, session[v].key, session[v].body)
          /\ session[v].charge = 0 =>
               ~KeyTaken(session[v].key) /\ keyRows[session[v].key] = NoKey /\ ~KeyBlocked(v)
      BY <3>1 DEF CommittersAreAlone
    <3>3. session[v].charge = 0 => ~KeyBlocked(v)'
      BY <1>2, <2>2, <3>1, <3>2 DEF KeyBlocked
    <3> QED
      BY <3>1, <3>2, <3>3 DEF KeyTaken, IsChargeOf
  <2> QED
    BY <2>1, <2>2
<1> QED
  BY <1>1, <1>3, <1>4, <1>5

(* An end of the transaction: the credits of this session are in the ledger *)
(* now, or were discarded.                                                  *)
LEMMA SeedsCommitted ==
  ASSUME AdmissionInvariant, NEW w \in Sessions, session[w].at # "idle",
         NEW s \in SessionStates,
         s.seeded => session[w].seeded /\ s.user = session[w].user /\ UNCHANGED seeds,
         session' = [session EXCEPT ![w] = s],
         Commit(w) \/ UNCHANGED seeds, UNCHANGED raced
  PROVE  seeds' \in [Users -> Nat] /\ SeedsAreSingle'
<1> USE DEF AdmissionInvariant
<1>1. \A v \in Sessions : session'[v] = IF v = w THEN s ELSE session[v]
  BY DEF AdmissionTypeOK
<1>2. CASE UNCHANGED seeds
  BY <1>1, <1>2 DEF AdmissionTypeOK, SeedsAreSingle
<1>3. CASE Commit(w) /\ session[w].seeded /\ ~s.seeded
  <2>1. session[w].user \in Users
    BY DEF SessionsHoldRequests
  <2>2. seeds' = [seeds EXCEPT ![session[w].user] = seeds[session[w].user] + 1]
    BY <1>3 DEF Commit
  <2>3. seeds' \in [Users -> Nat]
    BY <2>1, <2>2 DEF AdmissionTypeOK
  <2>4. \A u \in Users : seeds'[u] = IF u = session[w].user THEN seeds[u] + 1 ELSE seeds[u]
    BY <2>1, <2>2 DEF AdmissionTypeOK
  <2>5. SeedsAreSingle'
    <3> SUFFICES ASSUME NEW u \in Users \ raced
                 PROVE  /\ seeds'[u] <= 1
                        /\ \A v \in Sessions : session'[v].seeded /\ session'[v].user = u =>
                              /\ seeds'[u] = 0
                              /\ \A x \in Sessions :
                                    session'[x].seeded /\ session'[x].user = u => x = v
      BY DEF SeedsAreSingle
    <3>1. CASE u = session[w].user
      BY <1>1, <1>3, <2>4, <3>1 DEF SeedsAreSingle, AdmissionTypeOK
    <3>2. CASE u # session[w].user
      BY <1>1, <1>3, <2>4, <3>2 DEF SeedsAreSingle
    <3> QED
      BY <3>1, <3>2
  <2> QED
    BY <2>3, <2>5
<1> QED
  BY <1>2, <1>3 DEF Commit
(* The three steps that only load, decide and refuse. *)
LEMMA BeginChargePreserves ==
  ASSUME AdmissionInvariant, NEW w \in Sessions, NEW u \in Users, NEW k \in Keys,
         NEW b \in Bodies, NEW c \in BOOLEAN, create_charge(w, u, k, b, c)
  PROVE  AdmissionInvariant'
<1> DEFINE s == [NoSession EXCEPT !.at = "cached", !.user = u, !.key = k, !.body = b,
                                  !.confirmed = c]
<1>1. s \in SessionStates
  BY AdmissionValues DEF SessionStates
<1>2. /\ s.at = "cached" /\ s.user = u /\ s.key = k /\ s.body = b /\ s.seeded = FALSE
      /\ s.charge = 0
  BY DEF NoSession
<1>3. /\ session' = [session EXCEPT ![w] = s]
      /\ UNCHANGED <<seeds, charges, keyRows, answers, raced>>
  BY DEF create_charge
<1> HIDE DEF s
<1>4. /\ session' \in [Sessions -> SessionStates]
      /\ SessionsHoldRequests' /\ RowsPointToTheirCharge' /\ CommittersAreAlone'
      /\ OneChargePerKey'
  BY <1>1, <1>2, <1>3, SessionMoves
<1>5. \A v \in Sessions : session'[v] = IF v = w THEN s ELSE session[v]
  BY <1>3 DEF AdmissionInvariant, AdmissionTypeOK
<1>6. SeedsAreSingle'
  BY <1>2, <1>3, <1>5 DEF SeedsAreSingle, AdmissionInvariant
<1> QED
  BY <1>3, <1>4, <1>6
  DEF AdmissionInvariant, AdmissionTypeOK, AnswersPointToTheirCharge, IsChargeOf

(* An answer with the charge of the session's own user, key and body. *)
LEMMA AnswerKeeps ==
  ASSUME AdmissionInvariant, NEW w \in Sessions, NEW id \in Nat, session[w].at # "idle",
         \/ UNCHANGED answers
         \/ /\ Answer(w, id)
            /\ IsChargeOf(id, session[w].user, session[w].key, session[w].body),
         UNCHANGED charges
  PROVE  AnswersPointToTheirCharge' /\ answers' \subseteq ChargeAnswers
<1> USE DEF AdmissionInvariant
<1>1. CASE UNCHANGED answers
  BY <1>1 DEF AnswersPointToTheirCharge, IsChargeOf, AdmissionTypeOK
<1>2. CASE Answer(w, id) /\ IsChargeOf(id, session[w].user, session[w].key, session[w].body)
  <2>1. session[w].user \in Users /\ session[w].key \in Keys /\ session[w].body \in Bodies
    BY DEF SessionsHoldRequests
  <2>2. answers' \subseteq ChargeAnswers
    BY <1>2, <2>1 DEF Answer, ChargeAnswers, AdmissionTypeOK
  <2>3. AnswersPointToTheirCharge'
    BY <1>2 DEF Answer, AnswersPointToTheirCharge, IsChargeOf
  <2> QED
    BY <2>2, <2>3
<1> QED
  BY <1>1, <1>2

(* The end of a request that writes no charge. *)
LEMMA EndPreserves ==
  ASSUME AdmissionInvariant, NEW w \in Sessions, session[w].at # "idle", End(w),
         Commit(w) \/ UNCHANGED seeds, UNCHANGED <<charges, keyRows, raced>>,
         AnswersPointToTheirCharge', answers' \subseteq ChargeAnswers
  PROVE  AdmissionInvariant'
<1>1. /\ NoSession.at = "idle" /\ NoSession.seeded = FALSE /\ NoSession.charge = 0
  BY DEF NoSession
<1>2. session' = [session EXCEPT ![w] = NoSession]
  BY DEF End
<1>3. /\ session' \in [Sessions -> SessionStates]
      /\ SessionsHoldRequests' /\ RowsPointToTheirCharge' /\ CommittersAreAlone'
      /\ OneChargePerKey'
  BY <1>1, <1>2, AdmissionValues, SessionMoves
<1>4. seeds' \in [Users -> Nat] /\ SeedsAreSingle'
  <2>1. PICK s \in SessionStates : s = NoSession
    BY AdmissionValues
  <2>2. ~s.seeded /\ session' = [session EXCEPT ![w] = s]
    BY <1>1, <1>2, <2>1
  <2>3. s.seeded => session[w].seeded /\ s.user = session[w].user /\ UNCHANGED seeds
    BY <2>2
  <2> QED
    BY <2>2, <2>3, SeedsCommitted
<1> QED
  BY <1>3, <1>4 DEF AdmissionInvariant, AdmissionTypeOK

(* A session that goes on and keeps its credits, or gives them up. *)
LEMMA GoOnPreserves ==
  ASSUME AdmissionInvariant, NEW w \in Sessions, session[w].at # "idle",
         NEW s \in SessionStates, session' = [session EXCEPT ![w] = s],
         UNCHANGED <<seeds, charges, keyRows, answers, raced>>,
         s.user = session[w].user, s.key = session[w].key, s.body = session[w].body,
         s.seeded => session[w].seeded,
         s.seeded => s.at \in {"balance", "start", "insert", "persist"},
         s.at \in {"start", "insert", "persist"} => s.hash[1] = s.body,
         s.charge # 0 => s.at = "persist" /\ IsChargeOf(s.charge, s.user, s.key, s.body),
         s.at = "persist" /\ s.charge = 0 =>
            ~KeyTaken(s.key) /\ keyRows[s.key] = NoKey /\ ~KeyBlocked(w)
  PROVE  AdmissionInvariant'
<1>1. s.user \in Users /\ s.key \in Keys /\ s.body \in Bodies
  BY DEF AdmissionInvariant, SessionsHoldRequests
<1>2. /\ session' \in [Sessions -> SessionStates]
      /\ SessionsHoldRequests' /\ RowsPointToTheirCharge' /\ CommittersAreAlone'
      /\ OneChargePerKey'
  BY <1>1, SessionMoves
<1>3. seeds' \in [Users -> Nat] /\ SeedsAreSingle'
  BY SeedsCommitted
<1> QED
  BY <1>2, <1>3
  DEF AdmissionInvariant, AdmissionTypeOK, AnswersPointToTheirCharge, IsChargeOf

LEMMA ReplayPreserves ==
  ASSUME AdmissionInvariant, NEW w \in Sessions, charge_replay_response_if_cached(w)
  PROVE  AdmissionInvariant'
<1> DEFINE row == keyRows[session[w].key]
<1>1. /\ session[w] \in SessionStates /\ session[w].at = "cached"
      /\ session[w].user \in Users /\ session[w].key \in Keys
      /\ session[w].body \in Bodies
      /\ session[w].charge = 0 /\ ~session[w].seeded
  BY DEF charge_replay_response_if_cached, AdmissionInvariant, AdmissionTypeOK,
         SessionsHoldRequests
<1>2. CASE ~row.live
  <2> DEFINE s == [session[w] EXCEPT !.at = "seed"]
  <2>1. /\ session' = [session EXCEPT ![w] = s]
        /\ UNCHANGED <<seeds, charges, keyRows, answers, raced>>
    BY <1>1, <1>2 DEF charge_replay_response_if_cached, Goto
  <2>2. /\ s \in SessionStates /\ s.at = "seed" /\ s.user = session[w].user
        /\ s.key = session[w].key /\ s.body = session[w].body
        /\ s.seeded = session[w].seeded /\ s.charge = session[w].charge
    BY <1>1 DEF SessionStates
  <2> HIDE DEF s
  <2> QED
    BY <1>1, <2>1, <2>2, GoOnPreserves
<1>3. CASE row.live
  <2>1. End(w) /\ UNCHANGED <<seeds, charges, keyRows, raced>>
    BY <1>3 DEF charge_replay_response_if_cached
  <2>2. \/ UNCHANGED answers
        \/ /\ Answer(w, row.charge) /\ row.charge # 0 /\ row.user = session[w].user
           /\ row.hash \in charge_request_hash_candidates(session[w])
    BY <1>3 DEF charge_replay_response_if_cached
  <2>3. row.charge \in Nat
    BY <1>1 DEF AdmissionInvariant, AdmissionTypeOK, AdmissionKeyRows
  <2>4. row.hash \in charge_request_hash_candidates(session[w]) => row.hash[1] = session[w].body
    <3> SUFFICES ASSUME row.hash \in charge_request_hash_candidates(session[w])
                 PROVE  row.hash[1] = session[w].body
      OBVIOUS
    <3>1. row.hash = <<session[w].body, FALSE>> \/ row.hash = <<session[w].body, TRUE>>
      BY Zenon DEF charge_request_hash_candidates
    <3>2. \A c \in BOOLEAN : <<session[w].body, c>>[1] = session[w].body
      OBVIOUS
    <3> QED
      BY <3>1, <3>2, Zenon
  <2>5. row.charge # 0 => IsChargeOf(row.charge, row.user, session[w].key, row.hash[1])
    BY <1>1 DEF AdmissionInvariant, RowsPointToTheirCharge
  <2>6. \/ UNCHANGED answers
        \/ /\ Answer(w, row.charge)
           /\ IsChargeOf(row.charge, session[w].user, session[w].key, session[w].body)
    BY <2>2, <2>4, <2>5
  <2> HIDE DEF row
  <2>7. AnswersPointToTheirCharge' /\ answers' \subseteq ChargeAnswers
    BY <1>1, <2>1, <2>3, <2>6, AnswerKeeps
  <2> QED
    BY <1>1, <2>1, <2>7, EndPreserves
<1> QED
  BY <1>2, <1>3

LEMMA SeedPreserves ==
  ASSUME AdmissionInvariant, NEW w \in Sessions, seed_demo_balance(w)
  PROVE  AdmissionInvariant'
<1> DEFINE u == session[w].user
           first == ~has_any_transactions(u)
           s == [session[w] EXCEPT !.at = "balance", !.seeded = first]
<1>1. /\ session[w] \in SessionStates /\ session[w].at = "seed"
      /\ u \in Users /\ session[w].key \in Keys /\ session[w].body \in Bodies
      /\ session[w].charge = 0 /\ ~session[w].seeded
  BY DEF seed_demo_balance, AdmissionInvariant, AdmissionTypeOK, SessionsHoldRequests
<1>2. first \in BOOLEAN /\ (first => seeds[u] = 0)
  BY <1>1 DEF has_any_transactions, AdmissionInvariant, AdmissionTypeOK
<1>3. /\ session' = [session EXCEPT ![w] = s]
      /\ raced' = IF first /\ \E v \in Sessions : session[v].user = u /\ session[v].seeded
                  THEN raced \cup {u} ELSE raced
      /\ UNCHANGED <<seeds, charges, keyRows, answers>>
  BY <1>1 DEF seed_demo_balance
<1>4. /\ s \in SessionStates /\ s.at = "balance" /\ s.user = u /\ s.key = session[w].key
      /\ s.body = session[w].body /\ s.seeded = first /\ s.charge = 0
  BY <1>1, <1>2 DEF SessionStates
<1>5. PICK new \in SessionStates : new = s
  BY <1>4
<1>6. /\ new.at = "balance" /\ new.user = u /\ new.key = session[w].key
      /\ new.body = session[w].body /\ new.seeded = first /\ new.charge = 0
      /\ session' = [session EXCEPT ![w] = new]
  BY <1>3, <1>4, <1>5
<1> HIDE DEF s, first
<1>7. /\ session' \in [Sessions -> SessionStates]
      /\ SessionsHoldRequests' /\ RowsPointToTheirCharge' /\ CommittersAreAlone'
      /\ OneChargePerKey'
  BY <1>1, <1>3, <1>6, SessionMoves
<1>8. \A v \in Sessions : session'[v] = IF v = w THEN new ELSE session[v]
  BY <1>6 DEF AdmissionInvariant, AdmissionTypeOK
<1>9. raced' \subseteq Users
  BY <1>1, <1>3 DEF AdmissionInvariant, AdmissionTypeOK
<1>10. SeedsAreSingle'
  <2> SUFFICES ASSUME NEW x \in Users \ raced'
               PROVE  /\ seeds[x] <= 1
                      /\ \A v \in Sessions : session'[v].seeded /\ session'[v].user = x =>
                            /\ seeds[x] = 0
                            /\ \A y \in Sessions :
                                  session'[y].seeded /\ session'[y].user = x => y = v
    BY <1>3 DEF SeedsAreSingle
  <2>1. x \in Users \ raced
    BY <1>3
  <2>2. CASE x = u /\ first
    <3>1. \A v \in Sessions : ~(session[v].user = u /\ session[v].seeded)
      BY <1>1, <1>3, <2>2
    <3> QED
      BY <1>2, <1>6, <1>8, <2>1, <2>2, <3>1
  <2>3. CASE ~(x = u /\ first)
    BY <1>6, <1>8, <2>1, <2>3 DEF SeedsAreSingle, AdmissionInvariant
  <2> QED
    BY <2>2, <2>3
<1> QED
  BY <1>3, <1>7, <1>9, <1>10
  DEF AdmissionInvariant, AdmissionTypeOK, AnswersPointToTheirCharge, IsChargeOf
LEMMA BalancePreserves ==
  ASSUME AdmissionInvariant, NEW w \in Sessions, check_balance(w)
  PROVE  AdmissionInvariant'
<1>1. /\ session[w] \in SessionStates /\ session[w].at = "balance"
      /\ session[w].body \in Bodies /\ session[w].charge = 0
  BY DEF check_balance, AdmissionInvariant, AdmissionTypeOK, SessionsHoldRequests
<1>2. UNCHANGED <<charges, keyRows, answers, raced>>
  BY DEF check_balance
<1>3. CASE Commit(w) /\ End(w)
  <2>1. AnswersPointToTheirCharge' /\ answers' \subseteq ChargeAnswers
    BY <1>2 DEF AnswersPointToTheirCharge, IsChargeOf, AdmissionInvariant, AdmissionTypeOK
  <2> QED
    BY <1>1, <1>2, <1>3, <2>1, EndPreserves
<1>4. ASSUME NEW warned \in BOOLEAN, UNCHANGED seeds,
             session' = [session EXCEPT ![w].at = "start", ![w].hash = <<session[w].body, warned>>]
      PROVE  AdmissionInvariant'
  <2> DEFINE s == [session[w] EXCEPT !.at = "start", !.hash = <<session[w].body, warned>>]
  <2>1. session' = [session EXCEPT ![w] = s]
    BY <1>1, <1>4
  <2>2. <<session[w].body, warned>> \in Hashes
    BY <1>1 DEF Hashes
  <2>3. /\ s \in SessionStates /\ s.at = "start" /\ s.hash = <<session[w].body, warned>>
        /\ s.user = session[w].user /\ s.key = session[w].key /\ s.body = session[w].body
        /\ s.seeded = session[w].seeded /\ s.charge = session[w].charge
    BY <1>1, <2>2 DEF SessionStates
  <2>4. s.hash[1] = s.body
    BY <2>3
  <2> HIDE DEF s
  <2> QED
    BY <1>1, <1>2, <1>4, <2>1, <2>3, <2>4, GoOnPreserves
<1>5. classify_warnings(Price[session[w].body], balance_for(w)) \in BOOLEAN
  BY DEF classify_warnings
<1> QED
  BY <1>3, <1>4, <1>5 DEF check_balance

LEMMA StartPreserves ==
  ASSUME AdmissionInvariant, NEW w \in Sessions, start(w)
  PROVE  AdmissionInvariant'
<1> DEFINE row == keyRows[session[w].key]
<1>1. /\ session[w] \in SessionStates /\ session[w].at = "start"
      /\ session[w].user \in Users /\ session[w].key \in Keys /\ session[w].body \in Bodies
      /\ session[w].charge = 0 /\ session[w].hash[1] = session[w].body
  BY DEF start, AdmissionInvariant, AdmissionTypeOK, SessionsHoldRequests
<1>2. UNCHANGED <<seeds, charges, keyRows, answers, raced>>
  BY DEF start
<1>3. CASE End(w)
  <2>1. AnswersPointToTheirCharge' /\ answers' \subseteq ChargeAnswers
    BY <1>2 DEF AnswersPointToTheirCharge, IsChargeOf, AdmissionInvariant, AdmissionTypeOK
  <2> QED
    BY <1>1, <1>2, <1>3, <2>1, EndPreserves
<1>4. CASE /\ row.user = session[w].user /\ row.hash = session[w].hash /\ row.charge # 0
           /\ session' = [session EXCEPT ![w].at = "persist", ![w].charge = row.charge]
  <2> DEFINE s == [session[w] EXCEPT !.at = "persist", !.charge = row.charge]
  <2>1. session' = [session EXCEPT ![w] = s]
    BY <1>1, <1>4
  <2>2. row.charge \in Nat
    BY <1>1 DEF AdmissionInvariant, AdmissionTypeOK, AdmissionKeyRows
  <2>3. /\ s \in SessionStates /\ s.at = "persist" /\ s.hash = session[w].hash
        /\ s.user = session[w].user /\ s.key = session[w].key /\ s.body = session[w].body
        /\ s.seeded = session[w].seeded /\ s.charge = row.charge
    BY <1>1, <2>2 DEF SessionStates
  <2>4. IsChargeOf(row.charge, row.user, session[w].key, row.hash[1])
    BY <1>1, <1>4 DEF AdmissionInvariant, RowsPointToTheirCharge
  <2>5. IsChargeOf(s.charge, s.user, s.key, s.body)
    BY <1>1, <1>4, <2>3, <2>4
  <2>6. s.charge # 0
    BY <1>4, <2>3
  <2>7. s.hash[1] = s.body
    BY <1>1, <2>3
  <2> HIDE DEF s, row
  <2> QED
    BY <1>1, <1>2, <2>1, <2>3, <2>5, <2>6, <2>7, GoOnPreserves
<1>5. CASE Goto(w, "insert")
  <2> DEFINE s == [session[w] EXCEPT !.at = "insert"]
  <2>1. session' = [session EXCEPT ![w] = s]
    BY <1>1, <1>5 DEF Goto
  <2>2. /\ s \in SessionStates /\ s.at = "insert" /\ s.hash = session[w].hash
        /\ s.user = session[w].user /\ s.key = session[w].key /\ s.body = session[w].body
        /\ s.seeded = session[w].seeded /\ s.charge = 0
    BY <1>1 DEF SessionStates
  <2>3. s.hash[1] = s.body
    BY <1>1, <2>2
  <2> HIDE DEF s
  <2> QED
    BY <1>1, <1>2, <2>1, <2>2, <2>3, GoOnPreserves
<1> QED
  BY <1>3, <1>4, <1>5 DEF start

LEMMA InsertPreserves ==
  ASSUME AdmissionInvariant, NEW w \in Sessions, insert_saga(w)
  PROVE  AdmissionInvariant'
<1> DEFINE row == keyRows[session[w].key]
<1>1. /\ session[w] \in SessionStates /\ session[w].at = "insert"
      /\ session[w].user \in Users /\ session[w].key \in Keys /\ session[w].body \in Bodies
      /\ session[w].charge = 0 /\ session[w].hash[1] = session[w].body
  BY DEF insert_saga, AdmissionInvariant, AdmissionTypeOK, SessionsHoldRequests
<1>2. UNCHANGED <<seeds, charges, keyRows, answers, raced>> /\ ~KeyBlocked(w)
  BY DEF insert_saga
<1>3. CASE End(w)
  <2>1. AnswersPointToTheirCharge' /\ answers' \subseteq ChargeAnswers
    BY <1>2 DEF AnswersPointToTheirCharge, IsChargeOf, AdmissionInvariant, AdmissionTypeOK
  <2> QED
    BY <1>1, <1>2, <1>3, <2>1, EndPreserves
<1>4. CASE Goto(w, "persist") /\ row = NoKey /\ ~KeyTaken(session[w].key)
  <2> DEFINE s == [session[w] EXCEPT !.at = "persist"]
  <2>1. session' = [session EXCEPT ![w] = s]
    BY <1>1, <1>4 DEF Goto
  <2>2. /\ s \in SessionStates /\ s.at = "persist" /\ s.hash = session[w].hash
        /\ s.user = session[w].user /\ s.key = session[w].key /\ s.body = session[w].body
        /\ s.seeded = session[w].seeded /\ s.charge = 0
    BY <1>1 DEF SessionStates
  <2>3. s.hash[1] = s.body /\ keyRows[s.key] = NoKey /\ ~KeyTaken(s.key)
    BY <1>1, <1>4, <2>2
  <2> HIDE DEF s
  <2> QED
    BY <1>1, <1>2, <2>1, <2>2, <2>3, GoOnPreserves
<1>5. row.charge # 0 => KeyTaken(session[w].key)
  BY <1>1 DEF AdmissionInvariant, RowsPointToTheirCharge, IsChargeOf, KeyTaken
<1> QED
  BY <1>3, <1>4, <1>5 DEF insert_saga

LEMMA PersistPreserves ==
  ASSUME AdmissionInvariant, NEW w \in Sessions, persist_charge_response_body(w)
  PROVE  AdmissionInvariant'
<1>1. /\ session[w] \in SessionStates /\ session[w].at = "persist"
      /\ session[w].user \in Users /\ session[w].key \in Keys /\ session[w].body \in Bodies
      /\ session[w].hash \in Hashes /\ session[w].hash[1] = session[w].body
      /\ session[w].charge \in Nat
  BY DEF persist_charge_response_body, AdmissionInvariant, AdmissionTypeOK, SessionsHoldRequests,
         SessionStates
<1>2. Commit(w) /\ End(w) /\ UNCHANGED raced
  BY DEF persist_charge_response_body
<1>3. CASE session[w].charge # 0
  <2>1. UNCHANGED <<charges, keyRows>> /\ Answer(w, session[w].charge)
    BY <1>3 DEF persist_charge_response_body
  <2>2. IsChargeOf(session[w].charge, session[w].user, session[w].key, session[w].body)
    BY <1>1, <1>3 DEF AdmissionInvariant, CommittersAreAlone
  <2>3. AnswersPointToTheirCharge' /\ answers' \subseteq ChargeAnswers
    BY <1>1, <2>1, <2>2, AnswerKeeps
  <2> QED
    BY <1>1, <1>2, <2>1, <2>3, EndPreserves
<1>4. CASE session[w].charge = 0
  <2> DEFINE k == session[w].key
             id == Len(charges) + 1
             charge == [key |-> k, user |-> session[w].user, body |-> session[w].body,
                        settled |-> FALSE]
             row == [user |-> session[w].user, hash |-> session[w].hash, charge |-> id,
                     live |-> TRUE]
  <2>1. /\ charges' = Append(charges, charge)
        /\ keyRows' = [keyRows EXCEPT ![k] = row]
        /\ Answer(w, id)
    BY <1>4 DEF persist_charge_response_body
  <2>2. charges \in Seq(ChargeRows) /\ charge \in ChargeRows
    BY <1>1 DEF AdmissionInvariant, AdmissionTypeOK, ChargeRows
  <2>3. id \in Nat /\ id > 0
    BY <2>2
  <2> HIDE DEF charge
  <2>4. /\ charges' \in Seq(ChargeRows)
        /\ DOMAIN charges' = DOMAIN charges \cup {id}
        /\ \A i \in DOMAIN charges : charges'[i] = charges[i] /\ i # id
        /\ charges'[id] = charge
    BY <2>1, <2>2, <2>3
  <2>5. charge.key = k /\ charge.user = session[w].user /\ charge.body = session[w].body
    BY DEF charge
  <2>6. ~KeyTaken(k) /\ ~KeyBlocked(w) /\ keyRows[k] = NoKey
    BY <1>1, <1>4 DEF AdmissionInvariant, CommittersAreAlone
  <2>7. \A x, u, y, b : IsChargeOf(x, u, y, b) => IsChargeOf(x, u, y, b)'
    BY <2>4 DEF IsChargeOf
  <2>8. /\ id \in DOMAIN charges' /\ charges'[id].user = session[w].user
        /\ charges'[id].key = k /\ charges'[id].body = session[w].body
    BY <2>4, <2>5
  <2>9. session' = [session EXCEPT ![w] = NoSession]
    BY <1>2 DEF End
  <2>10. \A v \in Sessions : session'[v] = IF v = w THEN NoSession ELSE session[v]
    BY <2>9 DEF AdmissionInvariant, AdmissionTypeOK
  <2>11. /\ NoSession \in SessionStates /\ NoSession.at = "idle" /\ ~NoSession.seeded
         /\ NoSession.charge = 0
    BY AdmissionValues DEF NoSession
  <2>12. seeds' \in [Users -> Nat] /\ SeedsAreSingle'
    BY <1>1, <1>2, <2>9, <2>11, SeedsCommitted
  <2>13. row \in AdmissionKeyRows /\ row.charge = id /\ row.user = session[w].user
         /\ row.hash[1] = session[w].body
    BY <1>1, <2>3 DEF AdmissionKeyRows
  <2> HIDE DEF row, id
  <2>14. \A x \in Keys : keyRows'[x] = IF x = k THEN row ELSE keyRows[x]
    BY <1>1, <2>1 DEF AdmissionInvariant, AdmissionTypeOK
  <2>15. answers' \subseteq ChargeAnswers /\ AnswersPointToTheirCharge'
    <3>1. answers' = answers \cup {[user |-> session[w].user, body |-> session[w].body,
                                    key |-> k, charge |-> id]}
      BY <2>1 DEF Answer
    <3>2. answers' \subseteq ChargeAnswers
      BY <1>1, <2>3, <3>1 DEF AdmissionInvariant, AdmissionTypeOK, ChargeAnswers
    <3>3. \A a \in answers : IsChargeOf(a.charge, a.user, a.key, a.body)
      BY DEF AdmissionInvariant, AnswersPointToTheirCharge
    <3>4. \A a \in answers' : /\ a.charge \in DOMAIN charges'
                              /\ charges'[a.charge].user = a.user
                              /\ charges'[a.charge].key = a.key
                              /\ charges'[a.charge].body = a.body
      BY <2>4, <2>8, <3>1, <3>3 DEF IsChargeOf
    <3> QED
      BY <3>2, <3>4 DEF AnswersPointToTheirCharge, IsChargeOf
  <2>16. AdmissionTypeOK'
    <3>1. keyRows' \in [Keys -> AdmissionKeyRows]
      BY <2>1, <2>13 DEF AdmissionInvariant, AdmissionTypeOK
    <3>2. session' \in [Sessions -> SessionStates]
      BY <2>9, <2>11 DEF AdmissionInvariant, AdmissionTypeOK
    <3> QED
      BY <1>2, <2>4, <2>12, <2>15, <3>1, <3>2 DEF AdmissionInvariant, AdmissionTypeOK
  <2>17. SessionsHoldRequests'
    BY <2>10, <2>11 DEF AdmissionInvariant, SessionsHoldRequests
  <2>18. RowsPointToTheirCharge'
    <3> SUFFICES ASSUME NEW x \in Keys, keyRows'[x].charge # 0
                 PROVE  /\ keyRows'[x].charge \in DOMAIN charges'
                        /\ charges'[keyRows'[x].charge].user = keyRows'[x].user
                        /\ charges'[keyRows'[x].charge].key = x
                        /\ charges'[keyRows'[x].charge].body = keyRows'[x].hash[1]
      BY DEF RowsPointToTheirCharge, IsChargeOf
    <3>1. CASE x = k
      BY <2>8, <2>13, <2>14, <3>1
    <3>2. CASE x # k
      BY <2>4, <2>14, <3>2 DEF AdmissionInvariant, RowsPointToTheirCharge, IsChargeOf
    <3> QED
      BY <3>1, <3>2
  <2>19. OneChargePerKey'
    <3>1. \A i \in DOMAIN charges : charges[i].key # k
      BY <2>6 DEF KeyTaken
    <3> QED
      BY <2>4, <2>5, <3>1 DEF AdmissionInvariant, OneChargePerKey
  <2>20. CommittersAreAlone'
    <3> SUFFICES ASSUME NEW v \in Sessions, session'[v].at = "persist"
                 PROVE  /\ session'[v].charge # 0 =>
                              IsChargeOf(session[v].charge, session[v].user, session[v].key,
                                         session[v].body)'
                        /\ session'[v].charge = 0 =>
                              /\ ~KeyTaken(session[v].key)' /\ keyRows'[session'[v].key] = NoKey
                              /\ ~KeyBlocked(v)'
      BY DEF CommittersAreAlone
    <3>1. v # w /\ session'[v] = session[v]
      BY <2>10, <2>11
    <3>2. /\ session[v].charge # 0 =>
               IsChargeOf(session[v].charge, session[v].user, session[v].key, session[v].body)
          /\ session[v].charge = 0 =>
               ~KeyTaken(session[v].key) /\ keyRows[session[v].key] = NoKey /\ ~KeyBlocked(v)
      BY <3>1 DEF AdmissionInvariant, CommittersAreAlone
    <3>3. session[v].key \in Keys
      BY <3>1 DEF AdmissionInvariant, SessionsHoldRequests
    <3>4. session[v].charge = 0 => session[v].key # k
      BY <1>1, <1>4, <3>1, <3>2 DEF KeyBlocked
    <3>5. session[v].charge = 0 => ~KeyTaken(session[v].key)'
      BY <2>4, <2>5, <3>1, <3>2, <3>4 DEF KeyTaken
    <3>6. session[v].charge = 0 => ~KeyBlocked(v)'
      BY <2>10, <2>11, <3>1, <3>2 DEF KeyBlocked
    <3>7. session[v].charge # 0 =>
            IsChargeOf(session[v].charge, session[v].user, session[v].key, session[v].body)'
      BY <2>4, <3>1, <3>2 DEF IsChargeOf
    <3> QED
      BY <2>14, <3>1, <3>2, <3>3, <3>4, <3>5, <3>6, <3>7
  <2> QED
    BY <2>12, <2>15, <2>16, <2>17, <2>18, <2>19, <2>20 DEF AdmissionInvariant
<1> QED
  BY <1>3, <1>4

(* A key that expires, or is taken by a subscription, stops naming a charge *)
(* or keeps the one it named; no session is about to insert under it.       *)
LEMMA KeyRowPreserves ==
  ASSUME AdmissionInvariant, NEW k \in Keys, NEW row \in AdmissionKeyRows,
         keyRows' = [keyRows EXCEPT ![k] = row],
         UNCHANGED <<seeds, charges, session, answers, raced>>,
         row.charge # 0 =>
            row.charge = keyRows[k].charge /\ row.user = keyRows[k].user /\ row.hash = keyRows[k].hash,
         ~ \E w \in Sessions : session[w].at = "persist" /\ session[w].charge = 0 /\ session[w].key = k
  PROVE  AdmissionInvariant'
<1>1. \A x \in Keys : keyRows'[x] = IF x = k THEN row ELSE keyRows[x]
  BY DEF AdmissionInvariant, AdmissionTypeOK
<1>2. AdmissionTypeOK'
  BY DEF AdmissionInvariant, AdmissionTypeOK
<1>3. RowsPointToTheirCharge'
  BY <1>1 DEF AdmissionInvariant, RowsPointToTheirCharge, IsChargeOf
<1>4. CommittersAreAlone'
  <2> SUFFICES ASSUME NEW v \in Sessions, session[v].at = "persist"
               PROVE  /\ session[v].charge # 0 =>
                            IsChargeOf(session[v].charge, session[v].user, session[v].key,
                                       session[v].body)'
                      /\ session[v].charge = 0 =>
                            /\ ~KeyTaken(session[v].key)' /\ keyRows'[session[v].key] = NoKey
                            /\ ~KeyBlocked(v)'
    BY DEF CommittersAreAlone
  <2>1. /\ session[v].charge # 0 =>
             IsChargeOf(session[v].charge, session[v].user, session[v].key, session[v].body)
        /\ session[v].charge = 0 =>
             ~KeyTaken(session[v].key) /\ keyRows[session[v].key] = NoKey /\ ~KeyBlocked(v)
    BY DEF AdmissionInvariant, CommittersAreAlone
  <2>2. session[v].key \in Keys
    BY DEF AdmissionInvariant, SessionsHoldRequests
  <2> QED
    BY <1>1, <2>1, <2>2 DEF KeyTaken, KeyBlocked, IsChargeOf
<1> QED
  BY <1>2, <1>3, <1>4
  DEF AdmissionInvariant, SessionsHoldRequests, AnswersPointToTheirCharge, IsChargeOf,
      OneChargePerKey, SeedsAreSingle

LEMMA SettlePreserves ==
  ASSUME AdmissionInvariant, NEW i \in DOMAIN charges, SettleCharge(i)
  PROVE  AdmissionInvariant'
<1>1. charges \in Seq(ChargeRows) /\ charges[i] \in ChargeRows
  BY DEF AdmissionInvariant, AdmissionTypeOK
<1> DEFINE c == [charges[i] EXCEPT !.settled = TRUE]
<1>2. c \in ChargeRows
  BY <1>1 DEF ChargeRows
<1>3. /\ charges' = [charges EXCEPT ![i] = c]
      /\ UNCHANGED <<seeds, keyRows, session, answers, raced>>
  BY DEF SettleCharge
<1>4. c.key = charges[i].key /\ c.user = charges[i].user /\ c.body = charges[i].body
  BY <1>1 DEF ChargeRows
<1> HIDE DEF c
<1>5. /\ charges' \in Seq(ChargeRows) /\ DOMAIN charges' = DOMAIN charges
      /\ \A j \in DOMAIN charges : charges'[j] = IF j = i THEN c ELSE charges[j]
  BY <1>1, <1>2, <1>3
<1>6. \A j \in DOMAIN charges : /\ charges'[j].key = charges[j].key
                                /\ charges'[j].user = charges[j].user
                                /\ charges'[j].body = charges[j].body
  BY <1>4, <1>5
<1>7. AdmissionTypeOK'
  BY <1>3, <1>5 DEF AdmissionInvariant, AdmissionTypeOK
<1>8. RowsPointToTheirCharge' /\ AnswersPointToTheirCharge' /\ OneChargePerKey'
  BY <1>3, <1>5, <1>6 DEF AdmissionInvariant, RowsPointToTheirCharge, AnswersPointToTheirCharge,
                          OneChargePerKey, IsChargeOf
<1>9. CommittersAreAlone'
  BY <1>3, <1>5, <1>6 DEF AdmissionInvariant, CommittersAreAlone, IsChargeOf, KeyTaken, KeyBlocked
<1> QED
  BY <1>3, <1>7, <1>8, <1>9 DEF AdmissionInvariant, SessionsHoldRequests, SeedsAreSingle

LEMMA AdmissionPreserved ==
  AdmissionInvariant /\ [AdmissionNext]_admissionVars => AdmissionInvariant'
<1> SUFFICES ASSUME AdmissionInvariant, [AdmissionNext]_admissionVars PROVE AdmissionInvariant'
  OBVIOUS
<1>1. ASSUME NEW k \in Keys, ExpireKey(k) PROVE AdmissionInvariant'
  <2> DEFINE row == [keyRows[k] EXCEPT !.live = FALSE]
  <2>1. keyRows[k] \in AdmissionKeyRows /\ keyRows[k] # NoKey
    <3>1. keyRows[k].live /\ ~NoKey.live
      BY <1>1 DEF ExpireKey, NoKey
    <3> QED
      BY <3>1 DEF AdmissionInvariant, AdmissionTypeOK
  <2>2. /\ row \in AdmissionKeyRows /\ row.charge = keyRows[k].charge
        /\ row.user = keyRows[k].user /\ row.hash = keyRows[k].hash
    BY <2>1 DEF AdmissionKeyRows
  <2>3. /\ keyRows' = [keyRows EXCEPT ![k] = row]
        /\ UNCHANGED <<seeds, charges, session, answers, raced>>
    BY <1>1 DEF ExpireKey
  <2>4. ~ \E w \in Sessions :
            session[w].at = "persist" /\ session[w].charge = 0 /\ session[w].key = k
    BY <2>1 DEF AdmissionInvariant, CommittersAreAlone
  <2> HIDE DEF row
  <2> QED
    BY <2>2, <2>3, <2>4, KeyRowPreserves
<1>2. ASSUME NEW u \in Users, NEW k \in Keys, upsert_subscription_idempotency_row(u, k)
      PROVE  AdmissionInvariant'
  <2> DEFINE row == [NoKey EXCEPT !.user = u, !.live = TRUE]
  <2>1. row \in AdmissionKeyRows /\ row.charge = 0
    BY AdmissionValues DEF AdmissionKeyRows, NoKey
  <2>2. /\ keyRows' = [keyRows EXCEPT ![k] = row]
        /\ UNCHANGED <<seeds, charges, session, answers, raced>>
        /\ ~ \E w \in Sessions :
               session[w].at = "persist" /\ session[w].charge = 0 /\ session[w].key = k
    BY <1>2 DEF upsert_subscription_idempotency_row
  <2> HIDE DEF row
  <2> QED
    BY <2>1, <2>2, KeyRowPreserves
<1>3. CASE UNCHANGED admissionVars
  BY <1>3 DEF admissionVars, AdmissionInvariant, AdmissionTypeOK, SessionsHoldRequests,
              RowsPointToTheirCharge, CommittersAreAlone, AnswersPointToTheirCharge,
              OneChargePerKey, SeedsAreSingle, IsChargeOf, KeyTaken, KeyBlocked
<1> QED
  BY <1>1, <1>2, <1>3, BeginChargePreserves, ReplayPreserves, SeedPreserves, BalancePreserves,
     StartPreserves, InsertPreserves, PersistPreserves, SettlePreserves
  DEF AdmissionNext

(***************************************************************************)
(* The keys of the endpoints that open no saga.  What makes the property   *)
(* of legal inquiries inductive: under a key that has not expired, a       *)
(* session that has begun found no row, so only the first commit inserts   *)
(* one, and once a subscription owns the row no inquiry does again.        *)
(***************************************************************************)
KeyRows == [user : Tenants \cup {"none"}, hash : Inquiries \cup Plannings \cup {"none"},
            answer : Nat, live : BOOLEAN]

HandlerStates ==
    [at : {"idle", "work", "upsert"}, user : Tenants \cup {"none"},
     key : ClientKeys \cup {"none"}, hash : Inquiries \cup Plannings \cup {"none"},
     loaded : KeyRows]

KeysTypeOK ==
    /\ keyTable \in [ClientKeys -> KeyRows]
    /\ handler \in [Handlers -> HandlerStates]
    /\ inquiries \in Seq([user : Tenants, key : ClientKeys, hash : Inquiries])
    /\ replies \subseteq [user : Tenants, key : ClientKeys, hash : Inquiries, answer : Nat]
    /\ lapsed \subseteq ClientKeys

(* A session that has begun carries a request. *)
HandlersHoldRequests ==
    \A w \in Handlers :
       LET h == handler[w]
       IN  h.at # "idle" =>
             /\ h.user \in Tenants /\ h.key \in ClientKeys
             /\ h.hash \in Inquiries \cup Plannings
             /\ h.at = "upsert" => h.hash \in Plannings

(* The row of a key that has not expired is live, or was never written. *)
FreshRowIsLive ==
    \A k \in ClientKeys \ lapsed : keyTable[k] # NoRow => keyTable[k].live

(* Under such a key, a session at work found no row; one that has looked    *)
(* again and saw a subscription's row will still meet one.                  *)
SessionsKnowTheKey ==
    \A w \in Handlers :
       LET h == handler[w]
       IN  h.key \in ClientKeys \ lapsed =>
             /\ h.at = "work" => h.loaded = NoRow
             /\ h.at = "upsert" /\ h.loaded.hash \in Plannings => keyTable[h.key].hash \in Plannings

(* An inquiry under such a key has a row, and a row with an inquiry's hash  *)
(* is that inquiry's own.                                                   *)
RowsPointToTheirInquiry ==
    \A k \in ClientKeys \ lapsed :
       /\ keyTable[k] = NoRow => \A i \in DOMAIN inquiries : inquiries[i].key # k
       /\ keyTable[k].hash \in Inquiries =>
             /\ keyTable[k].answer \in DOMAIN inquiries
             /\ inquiries[keyTable[k].answer] =
                  [user |-> keyTable[k].user, key |-> k, hash |-> keyTable[k].hash]

RepliesPointToTheirInquiry ==
    \A r \in replies : r.key \notin lapsed =>
       /\ r.answer \in DOMAIN inquiries
       /\ inquiries[r.answer] = [user |-> r.user, key |-> r.key, hash |-> r.hash]

OneInquiryPerKey ==
    \A i, j \in DOMAIN inquiries :
       i # j /\ inquiries[i].key = inquiries[j].key => inquiries[i].key \in lapsed

KeysInvariant ==
    /\ KeysTypeOK /\ HandlersHoldRequests /\ FreshRowIsLive /\ SessionsKnowTheKey
    /\ RowsPointToTheirInquiry /\ RepliesPointToTheirInquiry /\ OneInquiryPerKey

(* The empty row and an idle session are values of their types. *)
LEMMA EmptyValues == NoRow \in KeyRows /\ Resting \in HandlerStates
<1>1. NoRow \in KeyRows
  BY DEF NoRow, KeyRows
<1> QED
  BY <1>1 DEF Resting, HandlerStates

(* A key's row that is replayed to an inquiry is that inquiry's, unless the *)
(* key has expired before.                                                  *)
LEMMA ReplayKeepsReplies ==
  ASSUME KeysInvariant, NEW u \in Tenants, NEW k \in ClientKeys,
         NEW h \in Inquiries \cup Plannings,
         replay_response_if_cached(u, k, h), UNCHANGED <<inquiries, lapsed>>
  PROVE  /\ RepliesPointToTheirInquiry'
         /\ replies' \subseteq [user : Tenants, key : ClientKeys, hash : Inquiries, answer : Nat]
<1>1. CASE UNCHANGED replies
  BY <1>1 DEF KeysInvariant, RepliesPointToTheirInquiry, KeysTypeOK
<1>2. CASE /\ Reply(u, k, h, keyTable[k].answer)
           /\ keyTable[k].user = u /\ keyTable[k].hash = h /\ h \in Inquiries
  <2>1. keyTable[k].answer \in Nat
    BY DEF KeysInvariant, KeysTypeOK, KeyRows
  <2>2. k \notin lapsed =>
          /\ keyTable[k].answer \in DOMAIN inquiries
          /\ inquiries[keyTable[k].answer] = [user |-> u, key |-> k, hash |-> h]
    BY <1>2 DEF KeysInvariant, RowsPointToTheirInquiry
  <2> QED
    BY <1>2, <2>1, <2>2 DEF KeysInvariant, RepliesPointToTheirInquiry, KeysTypeOK, Reply
<1> QED
  BY <1>1, <1>2 DEF replay_response_if_cached

LEMMA KeysInitially == KeysInit => KeysInvariant
<1> SUFFICES ASSUME KeysInit PROVE KeysInvariant
  OBVIOUS
<1>1. KeysTypeOK
  BY EmptyValues DEF KeysInit, KeysTypeOK
<1>2. HandlersHoldRequests /\ SessionsKnowTheKey
  BY DEF KeysInit, Resting, HandlersHoldRequests, SessionsKnowTheKey
<1>3. FreshRowIsLive /\ RowsPointToTheirInquiry
  BY KeysAssumption DEF KeysInit, NoRow, FreshRowIsLive, RowsPointToTheirInquiry
<1>4. RepliesPointToTheirInquiry /\ OneInquiryPerKey
  BY DEF KeysInit, RepliesPointToTheirInquiry, OneInquiryPerKey
<1> QED
  BY <1>1, <1>2, <1>3, <1>4 DEF KeysInvariant

LEMMA KeysPreserved == KeysInvariant /\ [KeysNext]_keyVars => KeysInvariant'
<1> SUFFICES ASSUME KeysInvariant, [KeysNext]_keyVars PROVE KeysInvariant'
  OBVIOUS
<1> USE DEF KeysInvariant
<1>1. ASSUME NEW w \in Handlers, NEW u \in Tenants, NEW k \in ClientKeys,
             NEW h \in Inquiries \cup Plannings, BeginRequest(w, u, k, h)
      PROVE  KeysInvariant'
  <2>1. CASE keyTable[k].live
    <3>1. UNCHANGED <<keyTable, handler, inquiries, lapsed>>
      BY <1>1, <2>1 DEF BeginRequest
    <3>2. RepliesPointToTheirInquiry' /\ KeysTypeOK'
      BY <1>1, <2>1, <3>1, ReplayKeepsReplies DEF BeginRequest, KeysTypeOK
    <3> QED
      BY <3>1, <3>2 DEF HandlersHoldRequests, FreshRowIsLive, SessionsKnowTheKey,
                        RowsPointToTheirInquiry, OneInquiryPerKey
  <2>2. CASE ~keyTable[k].live
    <3> DEFINE begun == [at |-> "work", user |-> u, key |-> k, hash |-> h, loaded |-> keyTable[k]]
    <3>1. /\ handler' = [handler EXCEPT ![w] = begun]
          /\ UNCHANGED <<keyTable, inquiries, replies, lapsed>>
      BY <1>1, <2>2 DEF BeginRequest
    <3>2. begun \in HandlerStates
      BY DEF HandlerStates, KeysTypeOK
    <3>3. KeysTypeOK'
      BY <3>1, <3>2 DEF KeysTypeOK
    <3>4. k \notin lapsed => keyTable[k] = NoRow
      BY <2>2 DEF FreshRowIsLive
    <3>5. \A x \in Handlers : handler'[x] = IF x = w THEN begun ELSE handler[x]
      BY <3>1 DEF KeysTypeOK
    <3>6. HandlersHoldRequests'
      BY <3>5 DEF HandlersHoldRequests
    <3>7. SessionsKnowTheKey'
      BY <3>1, <3>4, <3>5 DEF SessionsKnowTheKey
    <3> QED
      BY <3>1, <3>3, <3>6, <3>7 DEF FreshRowIsLive, RowsPointToTheirInquiry,
                                    RepliesPointToTheirInquiry, OneInquiryPerKey
  <2> QED
    BY <2>1, <2>2
<1>2. ASSUME NEW w \in Handlers, find_plan_key(w)
      PROVE  KeysInvariant'
  <2> DEFINE h == handler[w]
  <2>1. h \in HandlerStates /\ h.key \in ClientKeys /\ h.hash \in Plannings
    BY <1>2 DEF KeysTypeOK, find_plan_key, HandlersHoldRequests
  <2>2. keyTable[h.key] \in KeyRows
    BY <2>1 DEF KeysTypeOK
  <2> DEFINE found == [h EXCEPT !.at = "upsert", !.loaded = keyTable[h.key]]
  <2>3. /\ handler' = [handler EXCEPT ![w] = found]
        /\ UNCHANGED <<keyTable, inquiries, replies, lapsed>>
    BY <1>2 DEF find_plan_key, KeysTypeOK
  <2>4. found \in HandlerStates
    BY <2>1, <2>2 DEF HandlerStates
  <2>5. /\ found.at = "upsert" /\ found.user = h.user /\ found.key = h.key
        /\ found.hash = h.hash /\ found.loaded = keyTable[h.key]
    BY <2>1 DEF HandlerStates
  <2>6. \A x \in Handlers : handler'[x] = IF x = w THEN found ELSE handler[x]
    BY <2>3 DEF KeysTypeOK
  <2>7. KeysTypeOK'
    BY <2>3, <2>4 DEF KeysTypeOK
  <2>8. HandlersHoldRequests'
    BY <1>2, <2>1, <2>5, <2>6 DEF HandlersHoldRequests, find_plan_key
  <2>9. SessionsKnowTheKey'
    BY <2>3, <2>5, <2>6 DEF SessionsKnowTheKey
  <2> QED
    BY <2>3, <2>7, <2>8, <2>9 DEF FreshRowIsLive, RowsPointToTheirInquiry,
                                  RepliesPointToTheirInquiry, OneInquiryPerKey
<1>3. ASSUME NEW w \in Handlers, upsert_plan_key(w)
      PROVE  KeysInvariant'
  <2>1. KeysTypeOK'
    BY <1>3, EmptyValues DEF upsert_plan_key, upsert_idempotency_row, KeysTypeOK, KeyRows,
                             HandlersHoldRequests, HandlerStates
  <2>2. HandlersHoldRequests'
    BY <1>3 DEF upsert_plan_key, HandlersHoldRequests, Resting, KeysTypeOK
  <2>3. FreshRowIsLive'
    BY <1>3 DEF upsert_plan_key, upsert_idempotency_row, FreshRowIsLive, HandlersHoldRequests,
                KeysTypeOK
  <2>4. SessionsKnowTheKey'
    BY <1>3, KeysAssumption
    DEF upsert_plan_key, upsert_idempotency_row, KeyRefused, SessionsKnowTheKey,
        HandlersHoldRequests, KeysTypeOK, KeyRows, Resting, NoRow
  <2>5. RowsPointToTheirInquiry'
    BY <1>3, KeysAssumption
    DEF upsert_plan_key, upsert_idempotency_row, KeyRefused, SessionsKnowTheKey,
        HandlersHoldRequests, RowsPointToTheirInquiry, KeysTypeOK, KeyRows, NoRow
  <2>6. RepliesPointToTheirInquiry' /\ OneInquiryPerKey'
    BY <1>3 DEF upsert_plan_key, RepliesPointToTheirInquiry, OneInquiryPerKey
  <2> QED
    BY <2>1, <2>2, <2>3, <2>4, <2>5, <2>6
<1>4. ASSUME NEW w \in Handlers, submit_legal_inquiry(w)
      PROVE  KeysInvariant'
  <2> DEFINE h == handler[w]
             id == Len(inquiries) + 1
             inquiry == [user |-> h.user, key |-> h.key, hash |-> h.hash]
  <2>1. h.user \in Tenants /\ h.key \in ClientKeys /\ h.hash \in Inquiries
    BY <1>4 DEF submit_legal_inquiry, HandlersHoldRequests
  <2>2. id \in Nat /\ id > 0
    BY DEF KeysTypeOK
  <2>3. /\ inquiries' \in Seq([user : Tenants, key : ClientKeys, hash : Inquiries])
        /\ DOMAIN inquiries' = DOMAIN inquiries \cup {id}
        /\ \A i \in DOMAIN inquiries : inquiries'[i] = inquiries[i] /\ i # id
        /\ inquiries'[id] = inquiry
    BY <1>4, <2>1, <2>2 DEF submit_legal_inquiry, KeysTypeOK
  <2>4. h.key \notin lapsed => h.loaded = NoRow /\ keyTable[h.key] = NoRow
    BY <1>4, <2>1 DEF submit_legal_inquiry, SessionsKnowTheKey, KeyRefused
  <2>5. KeysTypeOK'
    BY <1>4, <2>1, <2>2, <2>3, EmptyValues
    DEF submit_legal_inquiry, upsert_idempotency_row, Reply, KeysTypeOK, KeyRows, HandlerStates
  <2>6. HandlersHoldRequests'
    BY <1>4 DEF submit_legal_inquiry, HandlersHoldRequests, Resting, KeysTypeOK
  <2>7. FreshRowIsLive'
    BY <1>4, <2>1 DEF submit_legal_inquiry, upsert_idempotency_row, FreshRowIsLive, KeysTypeOK
  <2>8. SessionsKnowTheKey'
    BY <1>4, <2>1, <2>4, KeysAssumption
    DEF submit_legal_inquiry, upsert_idempotency_row, SessionsKnowTheKey, KeysTypeOK, KeyRows,
        Resting, NoRow
  <2>9. RowsPointToTheirInquiry'
    BY <1>4, <2>1, <2>2, <2>3, <2>4, KeysAssumption
    DEF submit_legal_inquiry, upsert_idempotency_row, RowsPointToTheirInquiry, KeysTypeOK,
        KeyRows, NoRow
  <2>10. RepliesPointToTheirInquiry'
    BY <1>4, <2>2, <2>3 DEF submit_legal_inquiry, Reply, RepliesPointToTheirInquiry
  <2>11. OneInquiryPerKey'
    <3>1. h.key \notin lapsed => \A i \in DOMAIN inquiries : inquiries[i].key # h.key
      BY <2>1, <2>4 DEF RowsPointToTheirInquiry
    <3>2. lapsed' = lapsed
      BY <1>4 DEF submit_legal_inquiry
    <3> QED
      BY <2>3, <3>1, <3>2 DEF OneInquiryPerKey
  <2> QED
    BY <2>5, <2>6, <2>7, <2>8, <2>9, <2>10, <2>11
<1>5. ASSUME NEW w \in Handlers, legal_replay_after_race(w)
      PROVE  KeysInvariant'
  <2>1. /\ handler' = [handler EXCEPT ![w] = Resting]
        /\ UNCHANGED <<keyTable, inquiries, lapsed>>
    BY <1>5 DEF legal_replay_after_race
  <2>2. /\ RepliesPointToTheirInquiry'
        /\ replies' \subseteq [user : Tenants, key : ClientKeys, hash : Inquiries, answer : Nat]
    <3>1. handler[w].user \in Tenants /\ handler[w].key \in ClientKeys /\ handler[w].hash \in Inquiries
      BY <1>5 DEF legal_replay_after_race, HandlersHoldRequests
    <3>2. CASE UNCHANGED replies
      BY <2>1, <3>2 DEF RepliesPointToTheirInquiry, KeysTypeOK
    <3>3. CASE replay_response_if_cached(handler[w].user, handler[w].key, handler[w].hash)
      BY <2>1, <3>1, <3>3, ReplayKeepsReplies
    <3> QED
      BY <1>5, <3>2, <3>3 DEF legal_replay_after_race
  <2>3. KeysTypeOK'
    BY <2>1, <2>2, EmptyValues DEF KeysTypeOK
  <2>4. HandlersHoldRequests' /\ SessionsKnowTheKey'
    BY <2>1 DEF HandlersHoldRequests, SessionsKnowTheKey, Resting, KeysTypeOK
  <2> QED
    BY <2>1, <2>2, <2>3, <2>4 DEF FreshRowIsLive, RowsPointToTheirInquiry, OneInquiryPerKey
<1>6. ASSUME NEW w \in Handlers, EndWithoutCommit(w)
      PROVE  KeysInvariant'
  <2>1. KeysTypeOK'
    BY <1>6, EmptyValues DEF EndWithoutCommit, KeysTypeOK
  <2>2. HandlersHoldRequests' /\ SessionsKnowTheKey'
    BY <1>6 DEF EndWithoutCommit, HandlersHoldRequests, SessionsKnowTheKey, Resting, KeysTypeOK
  <2> QED
    BY <1>6, <2>1, <2>2 DEF EndWithoutCommit, FreshRowIsLive, RowsPointToTheirInquiry,
                            RepliesPointToTheirInquiry, OneInquiryPerKey
<1>7. ASSUME NEW k \in ClientKeys, KeyLapses(k)
      PROVE  KeysInvariant'
  <2>1. /\ lapsed' = lapsed \cup {k} /\ UNCHANGED <<handler, inquiries, replies>>
        /\ \A x \in ClientKeys \ lapsed' : keyTable'[x] = keyTable[x]
    BY <1>7 DEF KeyLapses, KeysTypeOK
  <2>2. [keyTable[k] EXCEPT !.live = FALSE] \in KeyRows
    BY DEF KeysTypeOK, KeyRows
  <2>3. KeysTypeOK'
    BY <1>7, <2>1, <2>2 DEF KeyLapses, KeysTypeOK
  <2>4. HandlersHoldRequests'
    BY <2>1 DEF HandlersHoldRequests
  <2>5. FreshRowIsLive' /\ SessionsKnowTheKey' /\ RowsPointToTheirInquiry'
    BY <2>1 DEF FreshRowIsLive, SessionsKnowTheKey, RowsPointToTheirInquiry
  <2>6. RepliesPointToTheirInquiry' /\ OneInquiryPerKey'
    BY <2>1 DEF RepliesPointToTheirInquiry, OneInquiryPerKey
  <2> QED
    BY <2>3, <2>4, <2>5, <2>6
<1>8. CASE UNCHANGED keyVars
  BY <1>8 DEF keyVars, KeysTypeOK, HandlersHoldRequests, FreshRowIsLive, SessionsKnowTheKey,
              RowsPointToTheirInquiry, RepliesPointToTheirInquiry, OneInquiryPerKey
<1> QED
  BY <1>1, <1>2, <1>3, <1>4, <1>5, <1>6, <1>7, <1>8 DEF KeysNext

(***************************************************************************)
(* The creation of a budget, for any number of months and charges.         *)
(*                                                                         *)
(* A session that holds an evaluated row is the only one that does, and as *)
(* long as no charge went unseen it knows the spend of its month; in a     *)
(* later month nothing was spent yet.                                      *)
(***************************************************************************)
BudgetRows ==
    {r \in [exists : BOOLEAN, limit : Nat, enabled : BOOLEAN, paused : Int] :
        r.enabled => r.exists /\ r.limit > 0}

SettlerStates ==
    [doing : {"idle", "configure", "settle"}, row : BudgetRows, seen : Nat, month : Months]

BudgetTypeOK ==
    /\ month \in Months /\ spend \in [Months -> Nat]
    /\ budget \in BudgetRows /\ missed \in BOOLEAN
    /\ settler \in [Settlers -> SettlerStates]

FutureIsUnspent == \A p \in Months : p > month => spend[p] = 0

Holds(s) == settler[s].row.exists

(* Who holds a row: everyone who configures, and who settles once it exists. *)
HoldersKnown ==
    \A s \in Settlers :
       /\ settler[s].month <= month
       /\ settler[s].doing = "idle" => ~Holds(s)
       /\ settler[s].doing = "configure" => Holds(s)
       /\ settler[s].doing = "settle" /\ Holds(s) => budget.exists

OneHolder == \A s, t \in Settlers : Holds(s) /\ Holds(t) => s = t

(* The held row is paused if the spend its session saw reaches the budget. *)
HolderEvaluated ==
    \A s \in Settlers :
       LET x == settler[s]
           spent == IF x.doing = "settle" THEN x.seen + Cost ELSE x.seen
       IN  Holds(s) /\ x.row.enabled /\ spent >= x.row.limit => x.row.paused = x.month

HolderUpToDate ==
    \A s \in Settlers :
       Holds(s) /\ ~missed =>
          IF settler[s].month = month THEN settler[s].seen = spend[month] ELSE spend[month] = 0

BudgetInvariant ==
    /\ BudgetTypeOK /\ FutureIsUnspent /\ HoldersKnown /\ OneHolder
    /\ HolderEvaluated /\ HolderUpToDate /\ BudgetPausesAtNextEvaluation

LEMMA BudgetValues == NoBudget \in BudgetRows /\ NoSettler \in SettlerStates
<1>1. NoBudget \in BudgetRows
  BY DEF NoBudget, NotPaused, BudgetRows
<1> QED
  BY <1>1, BudgetAssumption DEF NoSettler, SettlerStates, Months

(* What evaluate_budget_thresholds makes of a row. *)
LEMMA Evaluated ==
  ASSUME month \in Months, NEW row \in BudgetRows, NEW spent \in Nat
  PROVE  LET new == evaluate_thresholds(row, spent)
         IN  /\ new \in BudgetRows
             /\ new.exists = row.exists /\ new.enabled = row.enabled
             /\ new.enabled /\ spent >= new.limit => new.paused = month
  BY BudgetAssumption DEF evaluate_thresholds, BudgetRows, NotPaused, Months

LEMMA BudgetInitially == BudgetInit => BudgetInvariant
<1> SUFFICES ASSUME BudgetInit PROVE BudgetInvariant
  OBVIOUS
<1>1. BudgetTypeOK
  <2>1. month \in Months
    BY BudgetAssumption DEF BudgetInit, Months
  <2>2. spend \in [Months -> Nat]
    BY DEF BudgetInit
  <2>3. budget \in BudgetRows /\ settler \in [Settlers -> SettlerStates]
    BY BudgetValues DEF BudgetInit
  <2>4. missed \in BOOLEAN
    BY DEF BudgetInit
  <2> QED
    BY <2>1, <2>2, <2>3, <2>4 DEF BudgetTypeOK
<1> QED
  BY <1>1, BudgetAssumption
  DEF BudgetInit, BudgetInvariant, FutureIsUnspent, HoldersKnown, OneHolder, HolderEvaluated,
      HolderUpToDate, Holds, NoSettler, NoBudget, BudgetPausesAtNextEvaluation, Months

(* A session that begins: it holds a row only where no one else does. *)
LEMMA BeginPreserves ==
  ASSUME BudgetInvariant, NEW s \in Settlers, NEW new \in SettlerStates,
         settler' = [settler EXCEPT ![s] = new], UNCHANGED <<month, spend, budget, missed>>,
         settler[s] = NoSettler, new.doing # "idle", new.month = month, new.seen = spend[month],
         new.doing = "configure" => new.row.exists,
         new.doing = "settle" /\ new.row.exists => budget.exists,
         new.row.exists => \A t \in Settlers : ~Holds(t),
         LET spent == IF new.doing = "settle" THEN new.seen + Cost ELSE new.seen
         IN  new.row.enabled /\ spent >= new.row.limit => new.row.paused = month
  PROVE  BudgetInvariant'
<1> USE DEF BudgetInvariant
<1>1. \A t \in Settlers : settler'[t] = IF t = s THEN new ELSE settler[t]
  BY DEF BudgetTypeOK
<1>2. BudgetTypeOK'
  BY DEF BudgetTypeOK
<1>3. HoldersKnown'
  BY <1>1, BudgetAssumption DEF HoldersKnown, Holds, BudgetTypeOK, Months
<1>4. OneHolder'
  BY <1>1 DEF OneHolder, Holds
<1>5. HolderEvaluated'
  BY <1>1 DEF HolderEvaluated, Holds
<1>6. HolderUpToDate'
  BY <1>1 DEF HolderUpToDate, Holds
<1>7. FutureIsUnspent' /\ BudgetPausesAtNextEvaluation'
  BY DEF FutureIsUnspent, BudgetPausesAtNextEvaluation, Paused
<1> QED
  BY <1>2, <1>3, <1>4, <1>5, <1>6, <1>7

(* A session that commits the row it holds: if it knows the month's spend,  *)
(* the row is right; if not, and nothing went unseen, the month is new.     *)
LEMMA HolderCommits ==
  ASSUME BudgetInvariant, NEW s \in Settlers, Holds(s),
         settler' = [settler EXCEPT ![s] = NoSettler], UNCHANGED month,
         budget' = settler[s].row, missed' = (missed /\ ~SawAll(s)),
         spend' = IF settler[s].doing = "settle"
                  THEN [spend EXCEPT ![settler[s].month] = @ + Cost] ELSE spend
  PROVE  BudgetInvariant'
<1> USE DEF BudgetInvariant
<1>1. /\ settler[s] \in SettlerStates
      /\ settler[s].month \in Months /\ settler[s].row \in BudgetRows
      /\ settler[s].seen \in Nat /\ settler[s].month <= month
  BY DEF BudgetTypeOK, SettlerStates, HoldersKnown
<1>2. \A t \in Settlers : settler'[t] = IF t = s THEN NoSettler ELSE settler[t]
  BY DEF BudgetTypeOK
<1>3. spend' \in [Months -> Nat]
  BY <1>1, BudgetAssumption DEF BudgetTypeOK
<1>4. BudgetTypeOK'
  BY <1>1, <1>3, BudgetValues DEF BudgetTypeOK
<1>5. FutureIsUnspent'
  BY <1>1, BudgetAssumption DEF FutureIsUnspent, BudgetTypeOK, Months
<1>6. \A t \in Settlers : ~Holds(t)'
  BY <1>2 DEF OneHolder, Holds, NoSettler, NoBudget
<1>7. HoldersKnown'
  BY <1>2, <1>6, BudgetAssumption DEF HoldersKnown, Holds, NoSettler, BudgetTypeOK, Months
<1>8. OneHolder' /\ HolderEvaluated' /\ HolderUpToDate'
  BY <1>6 DEF OneHolder, HolderEvaluated, HolderUpToDate
<1>9. BudgetPausesAtNextEvaluation'
  <2> SUFFICES ASSUME settler[s].row.enabled, spend'[month] >= settler[s].row.limit, ~missed'
               PROVE  settler[s].row.paused = month
    BY DEF BudgetPausesAtNextEvaluation, Paused
  <2>1. CASE SawAll(s)
    <3>1. spend'[month] = IF settler[s].doing = "settle" THEN settler[s].seen + Cost
                          ELSE settler[s].seen
      BY <2>1, <1>1 DEF SawAll, BudgetTypeOK
    <3> QED
      BY <2>1, <3>1 DEF SawAll, HolderEvaluated
  <2>2. CASE ~SawAll(s)
    <3>1. settler[s].month # month /\ spend[month] = 0
      BY <2>2 DEF SawAll, HolderUpToDate
    <3>2. spend'[month] = 0
      BY <1>1, <3>1 DEF BudgetTypeOK
    <3>3. settler[s].row.limit > 0 /\ settler[s].row.limit \in Nat
      BY <1>1 DEF BudgetRows
    <3> QED
      BY <3>2, <3>3
  <2> QED
    BY <2>1, <2>2
<1> QED
  BY <1>4, <1>5, <1>7, <1>8, <1>9

LEMMA BudgetPreserved == BudgetInvariant /\ [BudgetNext]_budgetVars => BudgetInvariant'
<1> SUFFICES ASSUME BudgetInvariant, [BudgetNext]_budgetVars PROVE BudgetInvariant'
  OBVIOUS
<1> USE DEF BudgetInvariant
<1>0. month \in Months /\ spend[month] \in Nat /\ budget \in BudgetRows
  BY DEF BudgetTypeOK
<1>1. ASSUME NEW s \in Settlers, configure_budget_begin(s)
      PROVE  BudgetInvariant'
  <2>1. PICK limit \in Budgets, enabled \in BOOLEAN :
          settler' = [settler EXCEPT ![s] =
             [doing |-> "configure", seen |-> spend[month], month |-> month,
              row |-> evaluate_thresholds(
                        [exists |-> TRUE, enabled |-> enabled, paused |-> NotPaused,
                         limit |-> IF enabled THEN limit
                                   ELSE IF budget.exists THEN budget.limit ELSE limit],
                        spend[month])]]
    BY <1>1 DEF configure_budget_begin
  <2> DEFINE asked == [exists |-> TRUE, enabled |-> enabled, paused |-> NotPaused,
                       limit |-> IF enabled THEN limit
                                 ELSE IF budget.exists THEN budget.limit ELSE limit]
             new == [doing |-> "configure", seen |-> spend[month], month |-> month,
                     row |-> evaluate_thresholds(asked, spend[month])]
  <2>2. asked \in BudgetRows
    BY <1>0, BudgetAssumption DEF BudgetRows, NotPaused
  <2> HIDE DEF asked
  <2>3. /\ new.row \in BudgetRows /\ new.row.exists = asked.exists
        /\ new.row.enabled /\ spend[month] >= new.row.limit => new.row.paused = month
    BY <1>0, <2>2, Evaluated
  <2>4. new \in SettlerStates
    BY <1>0, <2>3 DEF SettlerStates
  <2>5. \A t \in Settlers : ~Holds(t)
    BY <1>1 DEF configure_budget_begin, RowHeld, UserHeld, HoldersKnown, Holds, BudgetTypeOK,
                SettlerStates
  <2>6. new.row.exists
    BY <2>3 DEF asked
  <2>7. settler' = [settler EXCEPT ![s] = new]
    BY <2>1 DEF asked
  <2>8. settler[s] = NoSettler /\ UNCHANGED <<month, spend, budget, missed>>
    BY <1>1 DEF configure_budget_begin
  <2>9. new.doing = "configure" /\ new.month = month /\ new.seen = spend[month]
    OBVIOUS
  <2> HIDE DEF new
  <2> QED
    BY <2>3, <2>4, <2>5, <2>6, <2>7, <2>8, <2>9, BeginPreserves
<1>2. ASSUME NEW s \in Settlers, finalize_begin(s)
      PROVE  BudgetInvariant'
  <2> DEFINE row == IF budget.exists THEN evaluate_thresholds(budget, spend[month] + Cost)
                    ELSE NoBudget
             new == [doing |-> "settle", seen |-> spend[month], month |-> month, row |-> row]
  <2>1. /\ row \in BudgetRows /\ row.exists = budget.exists
        /\ row.enabled /\ spend[month] + Cost >= row.limit => row.paused = month
    <3>1. CASE budget.exists
      <4>1. row = evaluate_thresholds(budget, spend[month] + Cost)
        BY <3>1
      <4>2. spend[month] + Cost \in Nat
        BY <1>0, BudgetAssumption
      <4> HIDE DEF row
      <4> QED
        BY <1>0, <4>1, <4>2, Evaluated
    <3>2. CASE ~budget.exists
      BY <1>0, <3>2, BudgetValues DEF NoBudget, BudgetRows
    <3> QED
      BY <3>1, <3>2
  <2>2. /\ settler' = [settler EXCEPT ![s] = new] /\ settler[s] = NoSettler
        /\ UNCHANGED <<month, spend, budget, missed>>
    BY <1>2 DEF finalize_begin
  <2> HIDE DEF row
  <2>3. new \in SettlerStates
    BY <1>0, <2>1 DEF SettlerStates
  <2>4. row.exists => \A t \in Settlers : ~Holds(t)
    BY <1>2, <2>1 DEF finalize_begin, RowHeld, Holds
  <2>5. /\ new.doing = "settle" /\ new.month = month /\ new.seen = spend[month]
        /\ new.row = row
    OBVIOUS
  <2> HIDE DEF new
  <2> QED
    BY <2>1, <2>2, <2>3, <2>4, <2>5, BeginPreserves
<1>3. ASSUME NEW s \in Settlers, configure_budget_commit(s)
      PROVE  BudgetInvariant'
  BY <1>3, HolderCommits DEF configure_budget_commit, HoldersKnown
<1>4. ASSUME NEW s \in Settlers, finalize_commit(s)
      PROVE  BudgetInvariant'
  <2>1. CASE Holds(s)
    BY <1>4, <2>1, HolderCommits DEF finalize_commit, Holds
  <2>2. CASE ~Holds(s)
    <3>1. /\ settler[s].month \in Months /\ settler[s].month <= month
          /\ spend' = [spend EXCEPT ![settler[s].month] = @ + Cost]
          /\ UNCHANGED <<month, budget>>
          /\ missed' = (UserHeld \/ budget.exists)
          /\ settler' = [settler EXCEPT ![s] = NoSettler]
      BY <1>4, <2>2 DEF finalize_commit, Holds, BudgetTypeOK, SettlerStates, HoldersKnown
    <3>2. \A t \in Settlers : settler'[t] = IF t = s THEN NoSettler ELSE settler[t]
      BY <3>1 DEF BudgetTypeOK
    <3>3. BudgetTypeOK'
      BY <3>1, BudgetValues, BudgetAssumption DEF BudgetTypeOK, UserHeld, BudgetRows
    <3>4. FutureIsUnspent'
      BY <3>1, BudgetAssumption DEF FutureIsUnspent, BudgetTypeOK, Months
    <3>5. \A t \in Settlers : Holds(t)' => t # s /\ Holds(t)
      BY <3>2 DEF Holds, NoSettler, NoBudget
    <3>6. HoldersKnown'
      BY <3>1, <3>2, BudgetAssumption DEF HoldersKnown, Holds, NoSettler, NoBudget, BudgetTypeOK, Months
    <3>7. OneHolder'
      BY <3>5 DEF OneHolder
    <3>8. HolderEvaluated'
      BY <3>2, <3>5 DEF HolderEvaluated
    <3>9. ASSUME NEW t \in Settlers, Holds(t)' PROVE missed'
      BY <3>1, <3>5, <3>9 DEF HoldersKnown, UserHeld, BudgetTypeOK, SettlerStates
    <3>10. HolderUpToDate'
      BY <3>9 DEF HolderUpToDate
    <3>11. BudgetPausesAtNextEvaluation'
      BY <3>1, <1>0 DEF BudgetPausesAtNextEvaluation, BudgetRows
    <3> QED
      BY <3>3, <3>4, <3>6, <3>7, <3>8, <3>10, <3>11
  <2> QED
    BY <2>1, <2>2
<1>5. ASSUME NextMonth
      PROVE  BudgetInvariant'
  <2>1. /\ month' = month + 1 /\ month' \in Months /\ month < month'
        /\ UNCHANGED <<spend, budget, settler>> /\ missed' = FALSE
    BY <1>0, <1>5, BudgetAssumption DEF NextMonth, Months
  <2>2. spend'[month'] = 0
    BY <2>1 DEF FutureIsUnspent
  <2>3. BudgetTypeOK' /\ FutureIsUnspent'
    <3>1. missed' \in BOOLEAN
      BY <2>1
    <3>2. BudgetTypeOK'
      BY <2>1, <3>1 DEF BudgetTypeOK
    <3>3. FutureIsUnspent'
      BY <1>0, <2>1, BudgetAssumption DEF FutureIsUnspent, Months
    <3> QED
      BY <3>2, <3>3
  <2>4. HoldersKnown' /\ OneHolder' /\ HolderEvaluated'
    <3>1. \A s \in Settlers : settler[s].month \in Months
      BY DEF BudgetTypeOK, SettlerStates
    <3>2. HoldersKnown'
      BY <1>0, <2>1, <3>1, BudgetAssumption DEF HoldersKnown, Holds, Months
    <3> QED
      BY <2>1, <3>2 DEF OneHolder, HolderEvaluated, Holds
  <2>5. HolderUpToDate'
    <3>1. \A s \in Settlers : settler[s].month # month'
      BY <1>0, <2>1, BudgetAssumption DEF HoldersKnown, BudgetTypeOK, SettlerStates, Months
    <3> QED
      BY <2>1, <2>2, <3>1 DEF HolderUpToDate
  <2>6. BudgetPausesAtNextEvaluation'
    BY <1>0, <2>1, <2>2 DEF BudgetPausesAtNextEvaluation, BudgetRows
  <2> QED
    BY <2>3, <2>4, <2>5, <2>6
<1>6. CASE UNCHANGED budgetVars
  BY <1>6 DEF budgetVars, BudgetTypeOK, FutureIsUnspent, HoldersKnown, OneHolder, HolderEvaluated,
              HolderUpToDate, Holds, BudgetPausesAtNextEvaluation, Paused
<1> QED
  BY <1>1, <1>2, <1>3, <1>4, <1>5, <1>6 DEF BudgetNext

-----------------------------------------------------------------------------
(* What every story of the composed model keeps. *)
AccountsInvariant == AdmissionInvariant /\ KeysInvariant /\ BudgetInvariant

(* In every behaviour of the composed model the rows of the charges, of the *)
(* keys and of the budget satisfy their inductive invariants.               *)
THEOREM AccountsSafe == AccountSpec => []AccountsInvariant
<1>1. AccountInit => AccountsInvariant
  BY AdmissionInitially, KeysInitially, BudgetInitially DEF AccountInit, AccountsInvariant
<1>2. AccountsInvariant /\ [AccountNext]_accountVars => AccountsInvariant'
  <2> SUFFICES ASSUME AccountsInvariant, [AccountNext]_accountVars PROVE AccountsInvariant'
    OBVIOUS
  <2>1. [AdmissionNext]_admissionVars /\ [KeysNext]_keyVars /\ [BudgetNext]_budgetVars
    BY DEF AccountNext, accountVars, PlanStep
  <2> QED
    BY <2>1, AdmissionPreserved, KeysPreserved, BudgetPreserved DEF AccountsInvariant
<1> QED
  BY <1>1, <1>2, PTL DEF AccountSpec

(* However requests repeat, race and expire, a request is answered with its *)
(* own charge, a key has one charge, the demo credits are given once and a  *)
(* legal inquiry is submitted once: for any users, keys and sessions.       *)
THEOREM AdmissionSafe == AccountSpec => []AdmissionSound
<1>1. AccountsInvariant => AdmissionSound
  <2> SUFFICES ASSUME AccountsInvariant PROVE AdmissionSound
    OBVIOUS
  <2>1. AnsweredWithOwnCharge
    BY DEF AccountsInvariant, AdmissionInvariant, AnswersPointToTheirCharge, OneChargePerKey,
           IsChargeOf, AnsweredWithOwnCharge
  <2>2. DemoCreditsOnce
    BY DEF AccountsInvariant, AdmissionInvariant, SeedsAreSingle, DemoCreditsOnce
  <2>3. InquirySubmittedOnce
    BY DEF AccountsInvariant, KeysInvariant, RepliesPointToTheirInquiry, OneInquiryPerKey,
           InquirySubmittedOnce
  <2> QED
    BY <2>1, <2>2, <2>3 DEF AdmissionSound
<1> QED
  BY <1>1, AccountsSafe, PTL

(* However a budget is configured while charges settle, and in whichever    *)
(* month they commit, spend that has reached an enabled budget pauses it,   *)
(* or a charge went unseen while the budget's row was being created.        *)
THEOREM BudgetPauses == AccountSpec => []BudgetPausesAtNextEvaluation
<1>1. AccountsInvariant => BudgetPausesAtNextEvaluation
  BY DEF AccountsInvariant, BudgetInvariant
<1> QED
  BY <1>1, AccountsSafe, PTL

(* The plans of the composed model behave as the plans do by themselves. *)
LEMMA PlansAreAStory == AccountSpec => Spec
<1>1. AccountInit => Init
  BY DEF AccountInit
<1>2. [AccountNext]_accountVars => [Next]_vars
  BY DEF AccountNext, accountVars, PlanStep
<1> QED
  BY <1>1, <1>2, PTL DEF AccountSpec, Spec

(* While the scheduler's clock is less than a trial ahead of the handlers', *)
(* every paid period is refilled exactly once and the periods leave neither *)
(* gap nor overlap, however late or often refill-due runs: for any lengths  *)
(* of months and trials and any prices.                                     *)
THEOREM PlansSafe == Skew < Trial => (AccountSpec => []EveryPeriodRefilledOnce)
BY PlansAreAStory, PeriodsRefilledOnce, PTL

(* While the scheduler's clock is not ahead, a user has one trial, and an   *)
(* upgraded period brings no more credits than a month of Pro.              *)
THEOREM EntitlementsSafe == Skew = 0 => (AccountSpec => []EntitlementsBounded)
BY PlansAreAStory, EntitlementsAlwaysBounded, PTL
=============================================================================
