--------------------------- MODULE ChargeContract ---------------------------
(***************************************************************************)
(* What billing-service promises about the money of one saga, without      *)
(* states, rows or requests: a charge is opened, settled once for at most  *)
(* what was reserved, and released at most once, which makes it free; a    *)
(* top-up is opened and credited once.  paid is what the user has paid.    *)
(* A saga may be disputed for good once it is open: from then on nothing   *)
(* is promised about it, and everything still is about the others.         *)
(***************************************************************************)
EXTENDS Integers

CONSTANTS Sagas, Topups, Amount, Floor

VARIABLES phase, paid

contractVars == <<phase, paid>>

Init ==
    /\ phase = [s \in Sagas |-> "none"]
    /\ paid = [s \in Sagas |-> 0]

Open(s) ==
    /\ phase[s] = "none"
    /\ phase' = [phase EXCEPT ![s] = "open"]
    /\ UNCHANGED paid

Settle(s) ==
    /\ phase[s] = "open"
    /\ phase' = [phase EXCEPT ![s] = "settled"]
    /\ \E p \in Floor[s] .. Amount[s] : paid' = [paid EXCEPT ![s] = p]

Release(s) ==
    /\ phase[s] \in {"open", "settled"}
    /\ phase' = [phase EXCEPT ![s] = "released"]
    /\ paid' = [paid EXCEPT ![s] = 0]

Credit(s) ==
    /\ s \in Topups
    /\ phase[s] = "open"
    /\ phase' = [phase EXCEPT ![s] = "credited"]
    /\ paid' = [paid EXCEPT ![s] = -Amount[s]]

Dispute(s) ==
    /\ phase[s] \notin {"none", "disputed"}
    /\ phase' = [phase EXCEPT ![s] = "disputed"]
    /\ paid' = [paid EXCEPT ![s] = 0]

Next ==
    \E s \in Sagas : Open(s) \/ Settle(s) \/ Release(s) \/ Credit(s) \/ Dispute(s)

Spec == Init /\ [][Next]_contractVars
=============================================================================
