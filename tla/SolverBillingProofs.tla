------------------------- MODULE SolverBillingProofs -------------------------
(***************************************************************************)
(* Proofs about SolverBilling, for any number of optimizations, any retry  *)
(* and batch limits, and however many calls are late, lost or cut off by a *)
(* crash.                                                                  *)
(***************************************************************************)
EXTENDS SolverBilling, TLAPS

Decided == {"completed", "timeout", "failed", "cancelled"}

Rows ==
    [status : Decided \cup {"none", "queued", "not_implemented"},
     failed : BOOLEAN, retry : Calls \cup {"none"}, count : Nat,
     given_up : BOOLEAN, succeeded : BOOLEAN,
     refund_status : {"none", "refunded", "pending_reconciliation"}]

OnTheWire == [opt : Opts, op : Calls, live : BOOLEAN]

(* Every variable but the reconciler's run, which DraftOK is about. *)
TypeOK ==
    /\ saga \in [Opts -> State]
    /\ wire \subseteq OnTheWire
    /\ reply \in [Opts -> {"none", "ok", "error"}]
    /\ row \in [Opts -> Rows]
    /\ handler \in [Opts -> {"idle", "reserving", "finalizing", "cancelling"}]
    /\ result \in [Opts -> Results \cup {"none"}]

(* What a row may say of a charge, as committed or in the reconciler's      *)
(* open transaction.                                                        *)
RowSound(o, r) ==
    /\ r.status # "none" => saga[o] # "pending"
    /\ r.status \in Decided /\ saga[o] = "reserved" => r.failed /\ r.retry # "none"
    /\ r.refund_status = "refunded" => saga[o] \in {"refunded", "rolled_back"}
    /\ r.succeeded => saga[o] \in Settled
    /\ r.retry = "finalize_success" => o \in solved
    /\ r.failed => r.status \in Decided /\ r.retry \in Calls \ {"reserve"}

RowsOK == \A o \in Opts : RowSound(o, row[o])

(* A request works on a row that is not decided, and from the reserve       *)
(* call's success on, on a charge that has left pending.                    *)
HandlerOK ==
    \A o \in Opts :
        /\ handler[o] \in {"reserving", "finalizing"} => row[o].status = "none"
        /\ handler[o] = "cancelling" => row[o].status = "queued"
        /\ handler[o] \in {"finalizing", "cancelling"} => saga[o] # "pending"
        /\ result[o] \in {"optimal", "timeout"} => o \in solved

(* The reconciler works on decided rows with a call to repeat; the draft    *)
(* is as true as the row it will replace.                                   *)
DraftOK ==
    /\ \E D \in SUBSET Opts :
          cycle \in [open : BOOLEAN, todo : SUBSET D, at : SUBSET D, draft : [D -> Rows]]
    /\ cycle.at \subseteq cycle.todo /\ \A o, p \in cycle.at : o = p
    /\ ~cycle.open => cycle.todo = {}
    /\ \A o \in DOMAIN cycle.draft :
          /\ row[o].failed
          /\ cycle.draft[o].status = row[o].status
          /\ RowSound(o, cycle.draft[o])

(* The call that the caller waiting on behalf of o has made. *)
Awaited(o, op) ==
    \/ handler[o] = "reserving" /\ op = "reserve"
    \/ handler[o] = "finalizing" /\ op = finalize_status(result[o])
    \/ handler[o] = "cancelling" /\ op = "refund_user_cancel"
    \/ o \in cycle.at /\ op = row[o].retry

(* What a 2xx answer to a call means for the charge. *)
Done(op, current) ==
    CASE op = "reserve" -> current # "pending"
      [] op \in {"finalize_success", "finalize_failure"} -> current \in Settled
      [] op = "refund_user_cancel" -> current \in {"refunded", "rolled_back"}

(* A call still waited for is the one its caller made, and has no answer    *)
(* yet; an abandoned one may be any that was made, but only a billable      *)
(* solve ever asks for a charge.                                            *)
WireOK ==
    \A c \in wire :
        /\ c.op = "finalize_success" => c.opt \in solved
        /\ c.live => reply[c.opt] = "none" /\ Awaited(c.opt, c.op)

(* An ok that somebody waits for is still true when it is acted upon.       *)
AnswersOK ==
    \A o \in Opts, op \in Calls :
        reply[o] = "ok" /\ Awaited(o, op) => Done(op, saga[o])

IInv ==
    /\ TypeOK /\ RowsOK /\ HandlerOK /\ DraftOK /\ WireOK /\ AnswersOK
    /\ ChargedOnlyIfSolved
-----------------------------------------------------------------------------
(* An optimization somebody's request works on is not the reconciler's. *)
LEMMA Busy ==
    ASSUME IInv, NEW o \in Opts, handler[o] # "idle"
    PROVE  /\ ~row[o].failed /\ o \notin DOMAIN cycle.draft /\ o \notin cycle.at
           /\ row[o].status \in {"none", "queued"}
<1>1. handler[o] \in {"reserving", "finalizing", "cancelling"}
  BY DEF IInv, TypeOK
<1>2. row[o].status \in {"none", "queued"}
  BY <1>1 DEF IInv, HandlerOK
<1>3. ~row[o].failed
  BY <1>2 DEF IInv, RowsOK, RowSound, Decided
<1>4. o \notin DOMAIN cycle.draft
  BY <1>3 DEF IInv, DraftOK
<1>5. cycle.at \subseteq DOMAIN cycle.draft
  BY DEF IInv, DraftOK
<1> QED
  BY <1>2, <1>3, <1>4, <1>5

(* A request that ends with a sound row, no call of its own still waited   *)
(* for, and the calls that were made.                                      *)
LEMMA Returned ==
    ASSUME IInv, NEW o \in Opts, handler[o] # "idle",
           NEW new \in Rows, RowSound(o, new), Return(o, new),
           UNCHANGED <<saga, solved, cycle>>,
           wire' \subseteq OnTheWire,
           \A c \in wire' : /\ c.op = "finalize_success" => c.opt \in solved
                            /\ c.live => c \in wire /\ c.opt # o
    PROVE  IInv'
<1>1. /\ \A q \in Opts : row'[q] = IF q = o THEN new ELSE row[q]
      /\ \A q \in Opts : handler'[q] = IF q = o THEN "idle" ELSE handler[q]
      /\ \A q \in Opts : reply'[q] = IF q = o THEN "none" ELSE reply[q]
      /\ \A q \in Opts : result'[q] = IF q = o THEN "none" ELSE result[q]
  BY DEF IInv, TypeOK, Return
<1>2. TypeOK'
  BY DEF IInv, TypeOK, Return
<1>3. /\ o \notin DOMAIN cycle.draft /\ o \notin cycle.at
  BY Busy
<1>4. RowsOK'
  BY <1>1 DEF IInv, RowsOK, RowSound
<1>5. HandlerOK'
  BY <1>1 DEF IInv, HandlerOK
<1>6. DraftOK'
  <2>1. \A q \in DOMAIN cycle.draft : q \in Opts /\ row'[q] = row[q]
    BY <1>1, <1>3 DEF IInv, DraftOK
  <2> QED
    BY <2>1 DEF IInv, DraftOK, RowSound
<1>7. \A q \in Opts : \A op : q # o => (Awaited(q, op)' <=> Awaited(q, op))
  BY <1>1 DEF Awaited
<1>8. WireOK'
  <2> SUFFICES ASSUME NEW c \in wire', c.live PROVE reply'[c.opt] = "none" /\ Awaited(c.opt, c.op)'
    BY DEF WireOK
  <2>1. c \in wire /\ c.opt # o /\ c.opt \in Opts
    BY DEF OnTheWire
  <2> QED
    BY <1>1, <1>7, <2>1 DEF IInv, WireOK
<1>9. AnswersOK'
  BY <1>1, <1>7 DEF IInv, AnswersOK
<1>10. ChargedOnlyIfSolved'
  BY DEF IInv, ChargedOnlyIfSolved
<1> QED
  BY <1>2, <1>4, <1>5, <1>6, <1>8, <1>9, <1>10 DEF IInv

(* The transitions the three billing calls make, by trigger. *)
LEMMA Table ==
    /\ \A seen, t : t \in find_transition(seen, "reserve") =>
            seen = "pending" /\ t.to_state = "reserved"
    /\ \A seen, t : t \in find_transition(seen, "service_success") =>
            seen = "reserved" /\ t.to_state = "charged"
    /\ \A seen, t : t \in find_transition(seen, "user_cancel") =>
            seen = "reserved" /\ t.to_state = "refunded"
    /\ \A seen, t : t \in find_transition(seen, "downstream_reject_late") =>
            seen = "charged" /\ t.to_state = "rolled_back"
BY DEF find_transition, valid_transitions_from, TRANSITIONS, Transition

(* A charge that has reached y from x: what is true of it stays true. *)
Forward(x, y) ==
    /\ x # "pending" => y # "pending"
    /\ y = "reserved" => x \in {"pending", "reserved"}
    /\ x \in Settled => y \in Settled
    /\ x \in {"refunded", "rolled_back"} => y \in {"refunded", "rolled_back"}

(* What billing-service does with a call: the charge stays or goes forward, *)
(* it is charged only by finalize_success, and an ok is true.               *)
LEMMA Handled ==
    ASSUME TypeOK, NEW c \in wire, Handle(c)
    PROVE  \E to \in State, r \in {"ok", "error"} :
             /\ saga' = [saga EXCEPT ![c.opt] = to]
             /\ reply' = IF c.live THEN [reply EXCEPT ![c.opt] = r] ELSE reply
             /\ Forward(saga[c.opt], to)
             /\ r = "ok" => Done(c.op, to)
             /\ to = "charged" => saga[c.opt] = "charged" \/ c.op = "finalize_success"
             /\ to = "rolled_back" => saga[c.opt] \in {"charged", "rolled_back"}
             /\ to = "reserved" => saga[c.opt] = "reserved" \/ saga[c.opt] = "pending"
<1> DEFINE x == saga[c.opt]
<1>1. c.opt \in Opts /\ c.op \in Calls /\ c.live \in BOOLEAN
  BY DEF TypeOK, OnTheWire
<1>2. x \in State
  BY <1>1 DEF TypeOK
<1>3. saga = [saga EXCEPT ![c.opt] = x]
  BY DEF TypeOK
<1>4. Forward(x, x)
  BY DEF Forward
<1>5. CASE Replayed(c.op, x) /\ UNCHANGED saga
            /\ reply' = IF c.live THEN [reply EXCEPT ![c.opt] = "ok"] ELSE reply
  <2>1. Done(c.op, x)
    BY <1>1, <1>5 DEF Replayed, Done, Calls
  <2> QED
    BY <1>2, <1>3, <1>4, <1>5, <2>1
<1>6. CASE UNCHANGED saga
            /\ reply' = IF c.live THEN [reply EXCEPT ![c.opt] = "error"] ELSE reply
  <2> QED
    BY <1>2, <1>3, <1>4, <1>6
<1>7. ASSUME NEW t \in find_transition(x, Trigger(c.op, x)),
             saga' = [saga EXCEPT ![c.opt] = t.to_state],
             reply' = IF c.live THEN [reply EXCEPT ![c.opt] = "ok"] ELSE reply
      PROVE  \E to \in State, r \in {"ok", "error"} :
             /\ saga' = [saga EXCEPT ![c.opt] = to]
             /\ reply' = IF c.live THEN [reply EXCEPT ![c.opt] = r] ELSE reply
             /\ Forward(x, to)
             /\ r = "ok" => Done(c.op, to)
             /\ to = "charged" => x = "charged" \/ c.op = "finalize_success"
             /\ to = "rolled_back" => x \in {"charged", "rolled_back"}
             /\ to = "reserved" => x = "reserved" \/ x = "pending"
  <2> DEFINE to == t.to_state
  <2>1. /\ c.op = "reserve" => x = "pending" /\ to = "reserved"
        /\ c.op = "finalize_success" => x = "reserved" /\ to = "charged"
        /\ c.op = "finalize_failure" => x = "reserved" /\ to = "refunded"
        /\ c.op = "refund_user_cancel" => \/ x = "reserved" /\ to = "refunded"
                                          \/ x = "charged" /\ to = "rolled_back"
    <3> HIDE DEF x
    <3> QED
      BY <1>7, Table DEF Trigger
  <2> HIDE DEF to
  <2>2. to \in State /\ Done(c.op, to) /\ Forward(x, to)
    BY <1>1, <2>1 DEF State, Done, Forward, Settled, Calls
  <2>3. /\ to = "charged" => x = "charged" \/ c.op = "finalize_success"
        /\ to = "rolled_back" => x \in {"charged", "rolled_back"}
        /\ to = "reserved" => x = "reserved" \/ x = "pending"
    BY <1>1, <2>1 DEF Calls
  <2>4. saga' = [saga EXCEPT ![c.opt] = to]
    BY <1>7 DEF to
  <2> QED
    BY <1>7, <2>2, <2>3, <2>4
<1> QED
  BY <1>5, <1>6, <1>7 DEF Handle

(* Billing-service handles a call, whoever still waits for it. *)
LEMMA HandleStep ==
    ASSUME IInv, NEW c \in wire, Handle(c)
    PROVE  IInv'
<1>1. c.opt \in Opts /\ c.op \in Calls /\ c.live \in BOOLEAN /\ TypeOK
  BY DEF IInv, TypeOK, OnTheWire
<1>2. PICK to \in State, r \in {"ok", "error"} :
             /\ saga' = [saga EXCEPT ![c.opt] = to]
             /\ reply' = IF c.live THEN [reply EXCEPT ![c.opt] = r] ELSE reply
             /\ Forward(saga[c.opt], to)
             /\ r = "ok" => Done(c.op, to)
             /\ to = "charged" => saga[c.opt] = "charged" \/ c.op = "finalize_success"
             /\ to = "rolled_back" => saga[c.opt] \in {"charged", "rolled_back"}
             /\ to = "reserved" => saga[c.opt] = "reserved" \/ saga[c.opt] = "pending"
  BY <1>1, Handled
<1>3. UNCHANGED <<row, handler, result, solved, cycle>> /\ wire' = wire \ {c}
  BY DEF Handle
<1>4. TypeOK'
  BY <1>1, <1>2, <1>3 DEF TypeOK
<1>5. \A q \in Opts : saga'[q] = IF q = c.opt THEN to ELSE saga[q]
  BY <1>1, <1>2 DEF TypeOK
<1>6. \A q \in Opts : reply'[q] = IF q = c.opt /\ c.live THEN r ELSE reply[q]
  BY <1>1, <1>2 DEF TypeOK
<1>7. \A q \in Opts : Forward(saga[q], saga'[q])
  BY <1>2, <1>5 DEF Forward
<1>8. \A q \in Opts : \A w : RowSound(q, w) => RowSound(q, w)'
  <2> SUFFICES ASSUME NEW q \in Opts, NEW w, RowSound(q, w) PROVE RowSound(q, w)'
    OBVIOUS
  <2>1. w.status # "none" => saga'[q] # "pending"
    BY <1>7 DEF RowSound, Forward
  <2>2. w.status \in Decided /\ saga'[q] = "reserved" => w.failed /\ w.retry # "none"
    BY <1>7 DEF RowSound, Forward, Decided
  <2>3. /\ w.refund_status = "refunded" => saga'[q] \in {"refunded", "rolled_back"}
        /\ w.succeeded => saga'[q] \in Settled
    BY <1>7 DEF RowSound, Forward
  <2> QED
    BY <1>3, <2>1, <2>2, <2>3 DEF RowSound
<1>9. RowsOK'
  BY <1>3, <1>8 DEF IInv, RowsOK
<1>10. HandlerOK'
  BY <1>3, <1>7 DEF IInv, HandlerOK, Forward
<1>11. DraftOK'
  <2>1. \A q \in DOMAIN cycle.draft : q \in Opts
    BY DEF IInv, DraftOK
  <2> QED
    BY <1>3, <1>8, <2>1 DEF IInv, DraftOK
<1>12. \A q \in Opts : \A op : Awaited(q, op)' <=> Awaited(q, op)
  BY <1>3 DEF Awaited
<1>13. \A q \in Opts : \A op1, op2 : Awaited(q, op1) /\ Awaited(q, op2) => op1 = op2
  BY Busy DEF Awaited
<1>14. c.live => Awaited(c.opt, c.op)
  BY DEF IInv, WireOK
<1>15. WireOK'
  <2> SUFFICES ASSUME NEW d \in wire'
               PROVE  /\ d.op = "finalize_success" => d.opt \in solved
                      /\ d.live => reply'[d.opt] = "none" /\ Awaited(d.opt, d.op)'
    BY <1>3 DEF WireOK
  <2>1. d \in wire /\ d # c /\ d \in OnTheWire /\ c \in OnTheWire
    BY <1>1, <1>3 DEF TypeOK
  <2>2. d.op = "finalize_success" => d.opt \in solved
    BY <2>1 DEF IInv, WireOK
  <2>3. ASSUME d.live PROVE ~(d.opt = c.opt /\ c.live)
    <3> SUFFICES ASSUME d.opt = c.opt, c.live PROVE FALSE
      OBVIOUS
    <3>1. d.op = c.op
      BY <1>1, <1>13, <1>14, <2>1, <2>3 DEF IInv, WireOK
    <3> QED
      BY <2>1, <2>3, <3>1 DEF OnTheWire
  <2>4. d.live => reply[d.opt] = "none" /\ Awaited(d.opt, d.op) /\ d.opt \in Opts
    BY <2>1 DEF IInv, WireOK, OnTheWire
  <2> QED
    BY <1>6, <1>12, <2>2, <2>3, <2>4
<1>16. AnswersOK'
  <2> SUFFICES ASSUME NEW q \in Opts, NEW op \in Calls, reply'[q] = "ok", Awaited(q, op)
               PROVE  Done(op, saga'[q])
    BY <1>12 DEF AnswersOK
  <2>1. CASE q = c.opt /\ c.live
    <3>1. op = c.op
      BY <1>13, <1>14, <2>1
    <3> QED
      BY <1>2, <1>5, <1>6, <2>1, <3>1
  <2>2. CASE ~(q = c.opt /\ c.live)
    <3>1. Done(op, saga[q])
      BY <1>6, <2>2 DEF IInv, AnswersOK
    <3> QED
      BY <1>7, <3>1 DEF Done, Forward, Calls
  <2> QED
    BY <2>1, <2>2
<1>17. ChargedOnlyIfSolved'
  <2> SUFFICES ASSUME NEW q \in Opts, saga'[q] \in {"charged", "rolled_back"} PROVE q \in solved
    BY <1>3 DEF ChargedOnlyIfSolved
  <2>1. CASE q = c.opt
    BY <1>1, <1>2, <1>5, <2>1 DEF IInv, WireOK, ChargedOnlyIfSolved
  <2>2. CASE q # c.opt
    BY <1>5, <2>2 DEF IInv, ChargedOnlyIfSolved
  <2> QED
    BY <2>1, <2>2
<1> QED
  BY <1>4, <1>9, <1>10, <1>11, <1>15, <1>16, <1>17 DEF IInv

(* Steps that touch nothing but the calls and their answers. *)
LEMMA OnlyCalls ==
    ASSUME IInv, UNCHANGED <<saga, row, handler, result, solved, cycle>>,
           wire' \subseteq OnTheWire, reply' \in [Opts -> {"none", "ok", "error"}],
           WireOK', AnswersOK'
    PROVE  IInv'
<1>1. TypeOK'
  BY DEF IInv, TypeOK
<1>2. RowsOK' /\ HandlerOK' /\ ChargedOnlyIfSolved'
  BY DEF IInv, RowsOK, RowSound, HandlerOK, ChargedOnlyIfSolved
<1>3. DraftOK'
  BY DEF IInv, DraftOK, RowSound
<1> QED
  BY <1>1, <1>2, <1>3 DEF IInv

(* Abandoning the calls made for some optimizations. *)
LEMMA Abandoned ==
    ASSUME IInv, NEW os \in SUBSET Opts,
           wire' = {IF c.opt \in os THEN [c EXCEPT !.live = FALSE] ELSE c : c \in wire}
    PROVE  /\ wire' \subseteq OnTheWire
           /\ \A c \in wire' : /\ c.op = "finalize_success" => c.opt \in solved
                               /\ c.live => c \in wire /\ c.opt \notin os
<1> SUFFICES ASSUME NEW c \in wire'
             PROVE  /\ c \in OnTheWire
                    /\ c.op = "finalize_success" => c.opt \in solved
                    /\ c.live => c \in wire /\ c.opt \notin os
  OBVIOUS
<1>1. PICK d \in wire : c = IF d.opt \in os THEN [d EXCEPT !.live = FALSE] ELSE d
  OBVIOUS
<1>2. d \in OnTheWire /\ (d.op = "finalize_success" => d.opt \in solved)
  BY DEF IInv, TypeOK, WireOK
<1> QED
  BY <1>1, <1>2 DEF OnTheWire

(* The caller gives up; whatever billing-service does later, nobody acts on it. *)
LEMMA TimeoutStep ==
    ASSUME IInv, NEW o \in Opts, Timeout(o)
    PROVE  IInv'
<1>1. wire' = {IF c.opt \in {o} THEN [c EXCEPT !.live = FALSE] ELSE c : c \in wire}
  BY DEF Timeout, Abandon
<1>2. /\ wire' \subseteq OnTheWire
      /\ \A c \in wire' : /\ c.op = "finalize_success" => c.opt \in solved
                          /\ c.live => c \in wire /\ c.opt # o
  BY <1>1, Abandoned, ZenonT(30)
<1>3. reply' \in [Opts -> {"none", "ok", "error"}]
      /\ \A q \in Opts : reply'[q] = IF q = o THEN "error" ELSE reply[q]
  BY DEF Timeout, IInv, TypeOK
<1>4. UNCHANGED <<saga, row, handler, result, solved, cycle>>
  BY DEF Timeout
<1>5. \A q \in Opts : \A op : Awaited(q, op)' <=> Awaited(q, op)
  BY <1>4 DEF Awaited
<1>6. WireOK'
  <2>1. \A c \in wire' : c.opt \in Opts
    BY <1>2 DEF OnTheWire
  <2> QED
    BY <1>2, <1>3, <1>4, <1>5, <2>1 DEF IInv, WireOK
<1>7. AnswersOK'
  BY <1>3, <1>4, <1>5 DEF IInv, AnswersOK
<1> QED
  BY <1>2, <1>3, <1>4, <1>6, <1>7, OnlyCalls

(* An abandoned call is lost. *)
LEMMA LoseStep ==
    ASSUME IInv, NEW c \in wire, Lose(c)
    PROVE  IInv'
<1>1. UNCHANGED <<saga, reply, row, handler, result, solved, cycle>> /\ wire' \subseteq wire
  BY DEF Lose
<1>2. WireOK' /\ AnswersOK'
  BY <1>1 DEF IInv, WireOK, AnswersOK, Awaited
<1> QED
  BY <1>1, <1>2, OnlyCalls DEF IInv, TypeOK

(* A request makes its next call. *)
LEMMA RequestCalls ==
    ASSUME IInv, NEW o \in Opts, NEW op \in Calls, _call(o, op),
           NEW h \in {"reserving", "finalizing", "cancelling"},
           handler' = [handler EXCEPT ![o] = h],
           UNCHANGED <<saga, row, cycle>>,
           result' \in [Opts -> Results \cup {"none"}],
           \A q \in Opts : q # o => result'[q] = result[q],
           solved \subseteq solved',
           result'[o] \in {"optimal", "timeout"} => o \in solved',
           o \notin cycle.at, \A c \in wire : c.opt = o => ~c.live,
           h = "reserving" => op = "reserve" /\ row[o].status = "none",
           h = "finalizing" => /\ op = finalize_status(result'[o])
                               /\ row[o].status = "none" /\ saga[o] # "pending",
           h = "cancelling" => /\ op = "refund_user_cancel"
                               /\ row[o].status = "queued" /\ saga[o] # "pending",
           op = "finalize_success" => o \in solved'
    PROVE  IInv'
<1> DEFINE made == [opt |-> o, op |-> op, live |-> TRUE]
<1>1. made \in OnTheWire /\ wire' = wire \cup {made}
  BY DEF OnTheWire, _call
<1>2. /\ \A q \in Opts : handler'[q] = IF q = o THEN h ELSE handler[q]
      /\ \A q \in Opts : reply'[q] = IF q = o THEN "none" ELSE reply[q]
  BY DEF _call, IInv, TypeOK
<1>3. TypeOK'
  BY <1>1 DEF _call, IInv, TypeOK
<1>4. RowsOK'
  BY DEF IInv, RowsOK, RowSound
<1>5. HandlerOK'
  <2> SUFFICES ASSUME NEW q \in Opts
               PROVE  /\ handler'[q] \in {"reserving", "finalizing"} => row[q].status = "none"
                      /\ handler'[q] = "cancelling" => row[q].status = "queued"
                      /\ handler'[q] \in {"finalizing", "cancelling"} => saga[q] # "pending"
                      /\ result'[q] \in {"optimal", "timeout"} => q \in solved'
    BY DEF HandlerOK
  <2>1. CASE q = o
    BY <1>2, <2>1
  <2>2. CASE q # o
    BY <1>2, <2>2 DEF IInv, HandlerOK
  <2> QED
    BY <2>1, <2>2
<1>6. DraftOK'
  BY DEF IInv, DraftOK, RowSound
<1>7. \A q \in Opts : \A p : q # o => (Awaited(q, p)' <=> Awaited(q, p))
  BY <1>2 DEF Awaited
<1>8. Awaited(o, op)'
  BY <1>2 DEF Awaited
<1>9. WireOK'
  <2> SUFFICES ASSUME NEW c \in wire'
               PROVE  /\ c.op = "finalize_success" => c.opt \in solved'
                      /\ c.live => reply'[c.opt] = "none" /\ Awaited(c.opt, c.op)'
    BY DEF WireOK
  <2>1. CASE c = made
    BY <1>2, <1>8, <2>1
  <2>2. CASE c \in wire
    <3>1. c.opt \in Opts
      BY <2>2 DEF IInv, TypeOK, OnTheWire
    <3> QED
      BY <1>2, <1>7, <2>2, <3>1 DEF IInv, WireOK
  <2> QED
    BY <1>1, <2>1, <2>2
<1>10. AnswersOK'
  BY <1>2, <1>7 DEF IInv, AnswersOK
<1>11. ChargedOnlyIfSolved'
  BY DEF IInv, ChargedOnlyIfSolved
<1> QED
  BY <1>3, <1>4, <1>5, <1>6, <1>9, <1>10, <1>11 DEF IInv

(* Nobody waits for a call of an idle optimization the reconciler is not at, *)
(* nor for one that has been answered.                                       *)
LEMMA Quiet ==
    ASSUME IInv, NEW o \in Opts,
           reply[o] # "none" \/ (handler[o] = "idle" /\ o \notin cycle.at)
    PROVE  \A c \in wire : c.opt = o => ~c.live
BY DEF IInv, WireOK, Awaited

(* The reconciler is at decided rows only. *)
LEMMA AtDecided ==
    ASSUME IInv, NEW o \in Opts, row[o].status \notin Decided
    PROVE  o \notin cycle.at
<1>1. ~row[o].failed
  BY DEF IInv, RowsOK, RowSound
<1>2. o \notin DOMAIN cycle.draft
  BY <1>1 DEF IInv, DraftOK
<1>3. cycle.at \subseteq DOMAIN cycle.draft
  BY DEF IInv, DraftOK
<1> QED
  BY <1>2, <1>3

(* POST makes its reserve call. *)
LEMMA PostStep ==
    ASSUME IInv, NEW o \in Opts, post_optimization(o)
    PROVE  IInv'
<1>1. o \notin cycle.at
  BY AtDecided DEF post_optimization, Decided
<1>2. \A c \in wire : c.opt = o => ~c.live
  BY <1>1, Quiet DEF post_optimization
<1>3. result \in [Opts -> Results \cup {"none"}]
      /\ (result[o] \in {"optimal", "timeout"} => o \in solved)
  BY DEF IInv, TypeOK, HandlerOK
<1>4. "reserve" \in Calls
  BY DEF Calls
<1> QED
  BY <1>1, <1>2, <1>3, <1>4, RequestCalls DEF post_optimization

(* DELETE makes its refund call. *)
LEMMA DeleteStep ==
    ASSUME IInv, NEW o \in Opts, delete_optimization(o)
    PROVE  IInv'
<1>1. o \notin cycle.at
  BY AtDecided DEF delete_optimization, Decided
<1>2. \A c \in wire : c.opt = o => ~c.live
  BY <1>1, Quiet DEF delete_optimization
<1>3. result \in [Opts -> Results \cup {"none"}]
      /\ (result[o] \in {"optimal", "timeout"} => o \in solved)
  BY DEF IInv, TypeOK, HandlerOK
<1>4. "refund_user_cancel" \in Calls
  BY DEF Calls
<1>5. saga[o] # "pending"
  BY DEF IInv, RowsOK, RowSound, delete_optimization
<1> QED
  BY <1>1, <1>2, <1>3, <1>4, <1>5, RequestCalls DEF delete_optimization

(* An ok to the reserve call: the charge has left pending. *)
LEMMA Reserved ==
    ASSUME IInv, NEW o \in Opts, handler[o] = "reserving", reply[o] = "ok"
    PROVE  saga[o] # "pending"
<1>1. Awaited(o, "reserve") /\ "reserve" \in Calls
  BY DEF Awaited, Calls
<1>2. Done("reserve", saga[o])
  BY <1>1 DEF IInv, AnswersOK
<1> QED
  BY <1>2 DEF Done

(* The solver returns and the finalize call is made. *)
LEMMA SolveStep ==
    ASSUME IInv, NEW o \in Opts, solve(o)
    PROVE  IInv'
<1>1. o \notin cycle.at /\ handler[o] = "reserving" /\ reply[o] = "ok"
  BY Busy DEF solve
<1>2. \A c \in wire : c.opt = o => ~c.live
  BY <1>1, Quiet
<1>3. PICK r \in Results :
          /\ result' = [result EXCEPT ![o] = r]
          /\ solved' = IF r \in {"optimal", "timeout"} THEN solved \cup {o} ELSE solved
          /\ _call(o, finalize_status(r))
  BY DEF solve
<1>4. finalize_status(r) \in Calls
  BY DEF finalize_status, Calls
<1>5. /\ result' \in [Opts -> Results \cup {"none"}] /\ result'[o] = r
      /\ \A q \in Opts : q # o => result'[q] = result[q]
  BY <1>3 DEF IInv, TypeOK
<1>6. row[o].status = "none" /\ saga[o] # "pending"
  BY <1>1, Reserved DEF IInv, HandlerOK
<1>7. /\ solved \subseteq solved'
      /\ r \in {"optimal", "timeout"} => o \in solved'
      /\ finalize_status(r) = "finalize_success" => o \in solved'
  BY <1>3 DEF finalize_status
<1>8. handler' = [handler EXCEPT ![o] = "finalizing"] /\ UNCHANGED <<saga, row, cycle>>
  BY DEF solve
<1> QED
  BY <1>1, <1>2, <1>3, <1>4, <1>5, <1>6, <1>7, <1>8, RequestCalls

(* The calls on the wire when a request has its answer. *)
LEMMA AnsweredCalls ==
    ASSUME IInv, NEW o \in Opts, reply[o] # "none"
    PROVE  /\ wire \subseteq OnTheWire
           /\ \A c \in wire : /\ c.op = "finalize_success" => c.opt \in solved
                              /\ c.live => c \in wire /\ c.opt # o
BY Quiet DEF IInv, TypeOK, WireOK

(* 422, 202 and 501. *)
LEMMA RefusedOrQueuedStep ==
    ASSUME IInv, NEW o \in Opts, reserve_failed(o) \/ accept_async(o) \/ not_implemented(o)
    PROVE  IInv'
<1> DEFINE queued == [NoRow EXCEPT !.status = "queued"]
           refused == [NoRow EXCEPT !.status = "not_implemented"]
<1>1. handler[o] = "reserving" /\ reply[o] # "none"
      /\ UNCHANGED <<saga, wire, solved, cycle>>
  BY DEF reserve_failed, accept_async, not_implemented
<1>2. /\ wire' \subseteq OnTheWire
      /\ \A c \in wire' : /\ c.op = "finalize_success" => c.opt \in solved
                          /\ c.live => c \in wire /\ c.opt # o
  BY <1>1, AnsweredCalls
<1>3. CASE reserve_failed(o)
  <2>1. row[o] \in Rows /\ RowSound(o, row[o]) /\ Return(o, row[o])
    BY <1>3 DEF IInv, TypeOK, RowsOK, reserve_failed
  <2> QED
    BY <1>1, <1>2, <2>1, Returned
<1>4. CASE accept_async(o)
  <2>1. saga[o] # "pending" /\ Return(o, queued)
    BY <1>1, <1>4, Reserved DEF accept_async
  <2>2. queued \in Rows /\ RowSound(o, queued)
    BY <2>1 DEF NoRow, Rows, RowSound, Decided, Calls
  <2> HIDE DEF queued
  <2> QED
    BY <1>1, <1>2, <2>1, <2>2, Returned
<1>5. CASE not_implemented(o)
  <2>1. saga[o] # "pending" /\ Return(o, refused)
    BY <1>1, <1>5, Reserved DEF not_implemented
  <2>2. refused \in Rows /\ RowSound(o, refused)
    BY <2>1 DEF NoRow, Rows, RowSound, Decided, Calls
  <2> HIDE DEF refused
  <2> QED
    BY <1>1, <1>2, <2>1, <2>2, Returned
<1> QED
  BY <1>3, <1>4, <1>5

(* The result is stored, with the call to repeat when finalize failed. *)
LEMMA PersistStep ==
    ASSUME IInv, NEW o \in Opts, persist(o)
    PROVE  IInv'
<1> DEFINE st == CASE result[o] = "optimal" -> "completed"
                   [] result[o] = "timeout" -> "timeout"
                   [] OTHER -> "failed"
           new == [NoRow EXCEPT !.status = st]
           op == finalize_status(result[o])
           kept == IF reply[o] = "ok" THEN new ELSE RetryContext(new, op)
<1>1. /\ handler[o] = "finalizing" /\ reply[o] # "none"
      /\ UNCHANGED <<saga, wire, solved, cycle>> /\ Return(o, kept)
  BY DEF persist
<1>2. st \in Decided
  BY DEF Decided
<1>3. op \in {"finalize_success", "finalize_failure"}
      /\ (op = "finalize_success" => o \in solved)
  BY DEF finalize_status, IInv, HandlerOK
<1>4. saga[o] # "pending"
  BY <1>1 DEF IInv, HandlerOK
<1>5. reply[o] = "ok" => saga[o] \in Settled
  <2>1. Awaited(o, op) /\ op \in Calls
    BY <1>1, <1>3 DEF Awaited, Calls
  <2>2. reply[o] = "ok" => Done(op, saga[o])
    BY <2>1 DEF IInv, AnswersOK
  <2> HIDE DEF op
  <2> QED
    BY <1>3, <2>2 DEF Done
<1> HIDE DEF st, op
<1>6. kept \in Rows
  BY <1>2, <1>3 DEF NoRow, Rows, Calls, RetryContext
<1>7. RowSound(o, kept)
  <2>1. CASE reply[o] = "ok"
    BY <1>4, <1>5, <2>1 DEF NoRow, RowSound, Settled
  <2>2. CASE reply[o] # "ok"
    BY <1>2, <1>3, <1>4, <2>2 DEF NoRow, RowSound, RetryContext, Calls
  <2> QED
    BY <2>1, <2>2
<1>8. /\ wire' \subseteq OnTheWire
      /\ \A c \in wire' : /\ c.op = "finalize_success" => c.opt \in solved
                          /\ c.live => c \in wire /\ c.opt # o
  BY <1>1, AnsweredCalls
<1> HIDE DEF kept
<1> QED
  BY <1>1, <1>6, <1>7, <1>8, Returned

(* The cancelled job's row, with the refund or with the call to repeat. *)
LEMMA CancelledStep ==
    ASSUME IInv, NEW o \in Opts, _finalize_cancelled_billing(o)
    PROVE  IInv'
<1> DEFINE new == [row[o] EXCEPT !.status = "cancelled"]
           kept == IF reply[o] = "ok" THEN [new EXCEPT !.refund_status = "refunded"]
                   ELSE [RetryContext(new, "refund_user_cancel")
                            EXCEPT !.refund_status = "pending_reconciliation"]
<1>1. /\ handler[o] = "cancelling" /\ reply[o] # "none"
      /\ UNCHANGED <<saga, wire, solved, cycle>> /\ Return(o, kept)
  BY DEF _finalize_cancelled_billing
<1>2. /\ row[o] \in Rows /\ RowSound(o, row[o]) /\ saga[o] # "pending" /\ ~row[o].failed
  BY <1>1, Busy DEF IInv, TypeOK, RowsOK, HandlerOK
<1>3. reply[o] = "ok" => saga[o] \in {"refunded", "rolled_back"}
  <2>1. Awaited(o, "refund_user_cancel") /\ "refund_user_cancel" \in Calls
    BY <1>1 DEF Awaited, Calls
  <2>2. reply[o] = "ok" => Done("refund_user_cancel", saga[o])
    BY <2>1 DEF IInv, AnswersOK
  <2> QED
    BY <2>2 DEF Done
<1>4. kept \in Rows
  BY <1>2 DEF Rows, Calls, RetryContext, Decided
<1>5. RowSound(o, kept)
  <2>1. CASE reply[o] = "ok"
    BY <1>2, <1>3, <2>1 DEF Rows, RowSound, Settled
  <2>2. CASE reply[o] # "ok"
    BY <1>2, <2>2 DEF Rows, RowSound, RetryContext, Calls, Decided
  <2> QED
    BY <2>1, <2>2
<1>6. /\ wire' \subseteq OnTheWire
      /\ \A c \in wire' : /\ c.op = "finalize_success" => c.opt \in solved
                          /\ c.live => c \in wire /\ c.opt # o
  BY <1>1, AnsweredCalls
<1> HIDE DEF kept
<1> QED
  BY <1>1, <1>4, <1>5, <1>6, Returned

(* A request dies: its row is as it was, and nobody waits for its call. *)
LEMMA CrashStep ==
    ASSUME IInv, NEW o \in Opts, Crash(o)
    PROVE  IInv'
<1>1. wire' = {IF c.opt \in {o} THEN [c EXCEPT !.live = FALSE] ELSE c : c \in wire}
  BY DEF Crash, Abandon
<1>2. /\ wire' \subseteq OnTheWire
      /\ \A c \in wire' : /\ c.op = "finalize_success" => c.opt \in solved
                          /\ c.live => c \in wire /\ c.opt # o
  BY <1>1, Abandoned, ZenonT(30)
<1>3. row[o] \in Rows /\ RowSound(o, row[o])
  BY DEF IInv, TypeOK, RowsOK
<1> QED
  BY <1>2, <1>3, Returned DEF Crash
-----------------------------------------------------------------------------
(* Steps that touch only the reconciler's run, and leave the calls that are *)
(* waited for and true answers as they were.                                *)
LEMMA OnlyCycle ==
    ASSUME IInv, UNCHANGED <<saga, row, reply, handler, result, solved>>,
           wire' \subseteq OnTheWire,
           \A c \in wire' : /\ c.op = "finalize_success" => c.opt \in solved
                            /\ c.live => c \in wire /\ c.opt \notin cycle.at,
           cycle'.at = {}, DraftOK'
    PROVE  IInv'
<1>1. TypeOK'
  BY DEF IInv, TypeOK
<1>2. RowsOK' /\ HandlerOK' /\ ChargedOnlyIfSolved'
  BY DEF IInv, RowsOK, RowSound, HandlerOK, ChargedOnlyIfSolved
<1>3. \A q \in Opts : \A op : Awaited(q, op)' => Awaited(q, op)
  BY DEF Awaited
<1>4. \A q \in Opts : \A op : q \notin cycle.at /\ Awaited(q, op) => Awaited(q, op)'
  BY DEF Awaited
<1>5. WireOK'
  <2> SUFFICES ASSUME NEW c \in wire', c.live PROVE reply[c.opt] = "none" /\ Awaited(c.opt, c.op)'
    BY DEF WireOK
  <2>1. c \in wire /\ c.opt \notin cycle.at /\ c.opt \in Opts
    BY DEF OnTheWire
  <2> QED
    BY <1>4, <2>1 DEF IInv, WireOK
<1>6. AnswersOK'
  BY <1>3 DEF IInv, AnswersOK
<1> QED
  BY <1>1, <1>2, <1>5, <1>6 DEF IInv

(* The reconciler's run, taken apart. *)
LEMMA CycleParts ==
    ASSUME IInv
    PROVE  \E D \in SUBSET Opts :
             /\ cycle \in [open : BOOLEAN, todo : SUBSET D, at : SUBSET D, draft : [D -> Rows]]
             /\ D = DOMAIN cycle.draft
BY DEF IInv, DraftOK

(* The run starts with the rows as they are. *)
LEMMA FetchStep ==
    ASSUME IInv, _fetch_pending
    PROVE  IInv'
<1>1. PICK rows \in SUBSET Pending :
         cycle' = [open |-> TRUE, todo |-> rows, at |-> {}, draft |-> [o \in rows |-> row[o]]]
  BY DEF _fetch_pending
<1>2. rows \subseteq Opts /\ \A o \in rows : row[o].failed
  BY DEF Pending
<1>3. UNCHANGED <<saga, wire, reply, row, handler, result, solved>>
  BY DEF _fetch_pending
<1>4. cycle' \in [open : BOOLEAN, todo : SUBSET rows, at : SUBSET rows, draft : [rows -> Rows]]
  BY <1>1, <1>2 DEF IInv, TypeOK
<1>5. /\ cycle'.at = {} /\ cycle'.todo = rows /\ DOMAIN cycle'.draft = rows
      /\ cycle'.open /\ \A o \in rows : cycle'.draft[o] = row[o]
  BY <1>1
<1>6. DraftOK'
  <2>1. \A o \in rows : RowSound(o, row[o])'
    BY <1>2, <1>3 DEF IInv, RowsOK, RowSound
  <2> QED
    BY <1>2, <1>3, <1>4, <1>5, <2>1 DEF DraftOK, RowSound
<1>7. \A c \in wire : c.live => c.opt \notin cycle.at
  BY DEF _fetch_pending, IInv, DraftOK
<1> QED
  BY <1>3, <1>5, <1>6, <1>7, OnlyCycle DEF IInv, TypeOK, WireOK

(* The reconciler makes the call the row asks for. *)
LEMMA RetryStep ==
    ASSUME IInv, NEW o \in Opts, retry_finalize(o)
    PROVE  IInv'
<1>0. PICK op : op = row[o].retry
  OBVIOUS
<1> DEFINE made == [opt |-> o, op |-> op, live |-> TRUE]
<1>1. PICK D \in SUBSET Opts :
             /\ cycle \in [open : BOOLEAN, todo : SUBSET D, at : SUBSET D, draft : [D -> Rows]]
             /\ D = DOMAIN cycle.draft
  BY CycleParts
<1>2. /\ cycle.open /\ cycle.at = {} /\ o \in cycle.todo /\ o \in D
      /\ cycle' = [cycle EXCEPT !.at = {o}] /\ _call(o, op)
      /\ UNCHANGED <<saga, row, handler, result, solved>>
  BY <1>0, <1>1 DEF retry_finalize
<1>3. /\ cycle' \in [open : BOOLEAN, todo : SUBSET D, at : SUBSET D, draft : [D -> Rows]]
      /\ cycle'.at = {o} /\ cycle'.todo = cycle.todo /\ cycle'.draft = cycle.draft
      /\ cycle'.open
  BY <1>1, <1>2
<1>4. /\ row[o].failed /\ RowSound(o, row[o]) /\ op \in Calls \ {"reserve"}
      /\ op = "finalize_success" => o \in solved
  BY <1>0, <1>1, <1>2 DEF IInv, DraftOK, RowsOK, RowSound
<1>5. handler[o] = "idle"
  BY <1>4, Busy
<1>6. \A c \in wire : c.opt = o => ~c.live
  BY <1>2, <1>5, Quiet
<1>7. made \in OnTheWire /\ wire' = wire \cup {made}
  BY <1>2, <1>4 DEF OnTheWire, _call
<1>8. \A q \in Opts : reply'[q] = IF q = o THEN "none" ELSE reply[q]
  BY <1>2 DEF _call, IInv, TypeOK
<1>9. TypeOK'
  BY <1>2, <1>7 DEF _call, IInv, TypeOK
<1>10. RowsOK' /\ HandlerOK' /\ ChargedOnlyIfSolved'
  BY <1>2 DEF IInv, RowsOK, RowSound, HandlerOK, ChargedOnlyIfSolved
<1>11. DraftOK'
  BY <1>1, <1>2, <1>3 DEF IInv, DraftOK, RowSound
<1>12. \A q \in Opts : \A p : q # o => (Awaited(q, p)' <=> Awaited(q, p))
  BY <1>2, <1>3 DEF Awaited
<1>13. Awaited(o, op)'
  BY <1>0, <1>2, <1>3 DEF Awaited
<1>14. WireOK'
  <2> SUFFICES ASSUME NEW c \in wire'
               PROVE  /\ c.op = "finalize_success" => c.opt \in solved
                      /\ c.live => reply'[c.opt] = "none" /\ Awaited(c.opt, c.op)'
    BY <1>2 DEF WireOK
  <2>1. CASE c = made
    BY <1>4, <1>8, <1>13, <2>1
  <2>2. CASE c \in wire
    <3>1. c.opt \in Opts
      BY <2>2 DEF IInv, TypeOK, OnTheWire
    <3> QED
      BY <1>6, <1>8, <1>12, <2>2, <3>1 DEF IInv, WireOK
  <2> QED
    BY <1>7, <2>1, <2>2
<1>15. AnswersOK'
  BY <1>2, <1>8, <1>12 DEF IInv, AnswersOK
<1> QED
  BY <1>9, <1>10, <1>11, <1>14, <1>15 DEF IInv

(* The reconciler is answered and writes a sound row into its transaction. *)
LEMMA Marked ==
    ASSUME IInv, NEW o \in cycle.at, reply[o] # "none", NEW new \in Rows, RowSound(o, new),
           new.status = row[o].status, Mark(o, new),
           UNCHANGED <<saga, wire, reply, row, handler, result, solved>>
    PROVE  IInv'
<1>1. PICK D \in SUBSET Opts :
             /\ cycle \in [open : BOOLEAN, todo : SUBSET D, at : SUBSET D, draft : [D -> Rows]]
             /\ D = DOMAIN cycle.draft
  BY CycleParts
<1>2. o \in D /\ o \in Opts
  BY <1>1
<1>3. /\ cycle' \in [open : BOOLEAN, todo : SUBSET D, at : SUBSET D, draft : [D -> Rows]]
      /\ cycle'.at = {} /\ cycle'.todo = cycle.todo \ {o} /\ cycle'.open = cycle.open
      /\ DOMAIN cycle'.draft = D
      /\ \A q \in D : cycle'.draft[q] = IF q = o THEN new ELSE cycle.draft[q]
  BY <1>1, <1>2 DEF Mark
<1>4. DraftOK'
  <2>1. \A q \in D : /\ row[q].failed
                     /\ cycle'.draft[q].status = row[q].status
                     /\ RowSound(q, cycle'.draft[q])
    BY <1>1, <1>3 DEF IInv, DraftOK
  <2>2. ~cycle.open => cycle.todo = {}
    BY DEF IInv, DraftOK
  <2> QED
    BY <1>3, <2>1, <2>2 DEF DraftOK, RowSound
<1>5. \A c \in wire : c.live => c.opt \notin cycle.at
  <2>1. \A q \in cycle.at : q = o
    BY DEF IInv, DraftOK
  <2> QED
    BY <1>2, <2>1, Quiet
<1> QED
  BY <1>3, <1>4, <1>5, OnlyCycle DEF IInv, TypeOK, WireOK

(* The row of an optimization the reconciler is at. *)
LEMMA AtRow ==
    ASSUME IInv, NEW o \in cycle.at
    PROVE  /\ o \in Opts /\ row[o] \in Rows /\ RowSound(o, row[o]) /\ row[o].failed
           /\ Awaited(o, row[o].retry) /\ row[o].retry \in Calls \ {"reserve"}
<1>1. PICK D \in SUBSET Opts :
             /\ cycle \in [open : BOOLEAN, todo : SUBSET D, at : SUBSET D, draft : [D -> Rows]]
             /\ D = DOMAIN cycle.draft
  BY CycleParts
<1>2. o \in Opts /\ row[o].failed
  BY <1>1 DEF IInv, DraftOK
<1> QED
  BY <1>2 DEF IInv, TypeOK, RowsOK, RowSound, Awaited

(* The repeated call succeeded. *)
LEMMA SucceededStep ==
    ASSUME IInv, NEW o \in Opts, _mark_succeeded(o)
    PROVE  IInv'
<1> DEFINE told == IF row[o].retry = "refund_user_cancel" THEN "refunded"
                   ELSE row[o].refund_status
           new == [row[o] EXCEPT !.failed = FALSE, !.succeeded = TRUE, !.count = 0,
                                 !.refund_status = told]
<1>1. /\ o \in cycle.at /\ reply[o] = "ok"
      /\ UNCHANGED <<saga, wire, reply, row, handler, result, solved>>
  BY DEF _mark_succeeded
<1>2. /\ row[o] \in Rows /\ RowSound(o, row[o]) /\ row[o].failed
      /\ Awaited(o, row[o].retry) /\ row[o].retry \in Calls \ {"reserve"}
  BY <1>1, AtRow
<1>3. Mark(o, new)
  BY <1>2 DEF _mark_succeeded, Rows
<1>4. Done(row[o].retry, saga[o])
  BY <1>1, <1>2 DEF IInv, AnswersOK
<1>5. /\ saga[o] \in Settled
      /\ row[o].retry = "refund_user_cancel" => saga[o] \in {"refunded", "rolled_back"}
  BY <1>2, <1>4 DEF Done, Calls, Settled
<1>6. new \in Rows /\ new.status = row[o].status
  BY <1>2 DEF Rows
<1>7. RowSound(o, new)
  BY <1>2, <1>5 DEF RowSound, Rows, Settled
<1> HIDE DEF new
<1> QED
  BY <1>1, <1>3, <1>6, <1>7, Marked

(* The repeated call failed: the attempt is counted, or the row given up. *)
LEMMA FailedStep ==
    ASSUME IInv, NEW o \in Opts, _mark_failed(o)
    PROVE  IInv'
<1> DEFINE new == AfterFailure(row[o])
<1>1. /\ o \in cycle.at /\ reply[o] = "error"
      /\ UNCHANGED <<saga, wire, reply, row, handler, result, solved>> /\ Mark(o, new)
  BY DEF _mark_failed
<1>2. row[o] \in Rows /\ RowSound(o, row[o])
  BY <1>1, AtRow
<1>3. new \in Rows /\ new.status = row[o].status
  <2>1. CASE row[o].count + 1 >= MaxRetries
    BY <1>2, <2>1 DEF Rows, AfterFailure
  <2>2. CASE ~(row[o].count + 1 >= MaxRetries)
    <3>1. row[o].count + 1 \in Nat
      BY <1>2 DEF Rows
    <3>2. new = [row[o] EXCEPT !.count = row[o].count + 1]
      BY <1>2, <2>2 DEF Rows, AfterFailure
    <3> QED
      BY <1>2, <3>1, <3>2 DEF Rows
  <2> QED
    BY <2>1, <2>2
<1>4. RowSound(o, new)
  BY <1>2 DEF RowSound, Rows, AfterFailure
<1> HIDE DEF new
<1> QED
  BY <1>1, <1>3, <1>4, Marked

(* The reconciler's run, before it starts and after it ends. *)
LEMMA NoCycleParts ==
    /\ NoCycle \in [open : BOOLEAN, todo : SUBSET {}, at : SUBSET {}, draft : [{} -> Rows]]
    /\ NoCycle.at = {} /\ NoCycle.todo = {} /\ DOMAIN NoCycle.draft = {}
BY DEF NoCycle

(* The run commits every row it has worked on. *)
LEMMA CommitStep ==
    ASSUME IInv, commit_cycle
    PROVE  IInv'
<1>1. PICK D \in SUBSET Opts :
             /\ cycle \in [open : BOOLEAN, todo : SUBSET D, at : SUBSET D, draft : [D -> Rows]]
             /\ D = DOMAIN cycle.draft
  BY CycleParts
<1>2. /\ UNCHANGED <<saga, wire, reply, handler, result, solved>> /\ cycle' = NoCycle
      /\ row' = [o \in Opts |-> IF o \in D THEN cycle.draft[o] ELSE row[o]]
      /\ cycle.at = {}
  BY <1>1 DEF commit_cycle, IInv, DraftOK
<1>3. \A o \in Opts : row'[o] = IF o \in D THEN cycle.draft[o] ELSE row[o]
  BY <1>2
<1>4. TypeOK'
  <2>1. row' \in [Opts -> Rows]
    BY <1>1, <1>2 DEF IInv, TypeOK
  <2> QED
    BY <1>2, <2>1 DEF IInv, TypeOK
<1>5. \A o \in Opts : RowSound(o, row'[o]) /\ row'[o].status = row[o].status
  BY <1>1, <1>3 DEF IInv, DraftOK, RowsOK
<1>6. RowsOK'
  BY <1>2, <1>5 DEF RowsOK, RowSound
<1>7. HandlerOK' /\ ChargedOnlyIfSolved'
  BY <1>2, <1>5 DEF IInv, HandlerOK, ChargedOnlyIfSolved
<1>8. DraftOK'
  BY <1>2, NoCycleParts DEF DraftOK
<1>9. \A q \in Opts : \A op : Awaited(q, op)' <=> Awaited(q, op)
  BY <1>2, NoCycleParts DEF Awaited
<1>10. WireOK'
  <2>1. \A c \in wire : c.opt \in Opts
    BY DEF IInv, TypeOK, OnTheWire
  <2> QED
    BY <1>2, <1>9, <2>1 DEF IInv, WireOK
<1>11. AnswersOK'
  BY <1>2, <1>9 DEF IInv, AnswersOK
<1> QED
  BY <1>4, <1>6, <1>7, <1>8, <1>10, <1>11 DEF IInv

(* The run dies: every row is as it was committed. *)
LEMMA CrashCycleStep ==
    ASSUME IInv, crash_cycle
    PROVE  IInv'
<1>1. UNCHANGED <<saga, reply, row, handler, result, solved>> /\ cycle' = NoCycle
  BY DEF crash_cycle
<1>2. cycle.at \in SUBSET Opts
  BY CycleParts
<1>3. /\ wire' \subseteq OnTheWire
      /\ \A c \in wire' : /\ c.op = "finalize_success" => c.opt \in solved
                          /\ c.live => c \in wire /\ c.opt \notin cycle.at
  BY <1>2, Abandoned DEF crash_cycle
<1>4. DraftOK'
  BY <1>1, NoCycleParts DEF DraftOK
<1> QED
  BY <1>1, <1>3, <1>4, NoCycleParts, OnlyCycle
-----------------------------------------------------------------------------
(* Charges, calls, answers, rows and the reconciler's transaction agree at  *)
(* every step (IInv).                                                       *)
THEOREM BillingClientInvariant == Spec => []IInv
<1>1. Init => IInv
  <2> SUFFICES ASSUME Init PROVE IInv
    OBVIOUS
  <2>1. NoRow \in Rows
    BY DEF NoRow, Rows
  <2>2. TypeOK
    BY <2>1 DEF Init, TypeOK, State
  <2>3. RowsOK /\ HandlerOK /\ ChargedOnlyIfSolved
    BY DEF Init, RowsOK, RowSound, NoRow, HandlerOK, ChargedOnlyIfSolved
  <2>4. DraftOK
    BY NoCycleParts DEF Init, DraftOK
  <2>5. WireOK /\ AnswersOK
    BY DEF Init, WireOK, AnswersOK
  <2> QED
    BY <2>2, <2>3, <2>4, <2>5 DEF IInv
<1>2. IInv /\ [Next]_vars => IInv'
  <2> SUFFICES ASSUME IInv, [Next]_vars PROVE IInv'
    OBVIOUS
  <2>1. CASE UNCHANGED vars
    <3>1. TypeOK' /\ RowsOK' /\ HandlerOK' /\ ChargedOnlyIfSolved'
      BY <2>1 DEF vars, IInv, TypeOK, RowsOK, RowSound, HandlerOK, ChargedOnlyIfSolved
    <3>2. DraftOK' /\ WireOK' /\ AnswersOK'
      BY <2>1 DEF vars, IInv, DraftOK, RowSound, WireOK, AnswersOK, Awaited
    <3> QED
      BY <3>1, <3>2 DEF IInv
  <2>2. CASE \E c \in wire : Handle(c) \/ Lose(c)
    BY <2>2, HandleStep, LoseStep
  <2>3. CASE \E o \in Opts : Timeout(o) \/ Crash(o)
    BY <2>3, TimeoutStep, CrashStep
  <2>4. CASE \E o \in Opts : \/ post_optimization(o) \/ reserve_failed(o) \/ accept_async(o)
                             \/ not_implemented(o) \/ solve(o) \/ persist(o)
    BY <2>4, PostStep, RefusedOrQueuedStep, SolveStep, PersistStep
  <2>5. CASE \E o \in Opts : delete_optimization(o) \/ _finalize_cancelled_billing(o)
    BY <2>5, DeleteStep, CancelledStep
  <2>6. CASE retry_pending_finalizes
    BY <2>6, FetchStep, CommitStep, RetryStep, SucceededStep, FailedStep
       DEF retry_pending_finalizes
  <2>7. CASE crash_cycle
    BY <2>7, CrashCycleStep
  <2> QED
    BY <2>1, <2>2, <2>3, <2>4, <2>5, <2>6, <2>7 DEF Next
<1> QED
  BY <1>1, <1>2, PTL DEF Spec

(* Only a job some solve of which was optimal or ran out of time is charged *)
(* (ChargedOnlyIfSolved).                                                   *)
THEOREM ChargedOnlyIfSolvedAlways == Spec => []ChargedOnlyIfSolved
<1>1. IInv => ChargedOnlyIfSolved
  BY DEF IInv
<1> QED
  BY <1>1, BillingClientInvariant, PTL

(* No reservation of a decided job is left without a call to repeat         *)
(* (ReservationNotForgotten).                                               *)
THEOREM ReservationNotForgottenAlways == Spec => []ReservationNotForgotten
<1>1. IInv => ReservationNotForgotten
  BY DEF IInv, RowsOK, RowSound, Decided, ReservationNotForgotten
<1> QED
  BY <1>1, BillingClientInvariant, PTL

(* refund_status "refunded" and billing_finalize_succeeded_at are true of   *)
(* the charge (RecordedMeansSettled).                                       *)
THEOREM RecordedMeansSettledAlways == Spec => []RecordedMeansSettled
<1>1. IInv => RecordedMeansSettled
  BY DEF IInv, RowsOK, RowSound, RecordedMeansSettled
<1> QED
  BY <1>1, BillingClientInvariant, PTL
=============================================================================
