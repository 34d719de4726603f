-------------------------- MODULE MCBillingCharges --------------------------
(* Instances of BillingCharges for TLC. *)
EXTENDS BillingCharges, TLC

CONSTANTS c1, c2, t1

OneCharge == {c1}
TwoCharges == {c1, c2}
OneTopup == {t1}

(* Sessions are interchangeable. *)
WorkerSymmetry == Permutations(Workers)

(* A charge of 3 and one of 2, a top-up of 2, in cents. *)
SmallAmounts == [s \in Sagas |-> IF s = c1 THEN 3 ELSE 2]

(* Sagas share nothing but the balance and the budget, so a behaviour has   *)
(* two requests at a time on one charge or top-up, and MaxOvertaken commits *)
(* that were overtaken, or the same on the charge c1, where one commit may  *)
(* be overtaken, beside a charge c2 with one request at a time.             *)
MaxOvertaken == 2

Created == {s \in Sagas : state[s] # "absent"}

OneSaga ==
    /\ Cardinality(Created) <= 1
    /\ \A s \in Sagas : overtaken[s] <= MaxOvertaken

BesideAnother ==
    /\ Created \subseteq Charges
    /\ overtaken[c1] <= 1 /\ overtaken[c2] = 0
    /\ \A v, w \in Workers :
          (v # w /\ req[v] # Idle /\ req[w] # Idle) => c1 \in {req[v].saga, req[w].saga}

OverlapSpec == Init /\ [][Next /\ (OneSaga \/ BesideAnother)']_vars
=============================================================================
