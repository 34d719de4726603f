---------------------------- MODULE OutboxRelayer ----------------------------
(***************************************************************************)
(* outbox-relayer: relayer processes move committed outbox rows to Redis.  *)
(* An iteration of a relayer's loop is one database transaction: lock the  *)
(* oldest unsent rows nobody else has locked, publish them one by one,     *)
(* mark the published ones as sent, commit.  Publishing is not part of the *)
(* transaction, so a crash between publish and commit repeats it.          *)
(*                                                                         *)
(* A row is the number of its place in occurred_at order; transactions     *)
(* commit their rows in any order.  published counts what reached Redis.   *)
(***************************************************************************)
EXTENDS Naturals, FiniteSets, TLAPS

CONSTANTS
    Rows,       \* the outbox rows the services write
    Poison,     \* rows whose publication always raises
    Relayers,   \* relayer processes
    BatchSize,  \* settings.batch_size
    MaxFaults   \* bound: crashes, lost connections and passing publish errors

ASSUME RowsAssumption == Rows \subseteq Nat /\ Poison \subseteq Rows
ASSUME BatchAssumption == BatchSize \in Nat \ {0} /\ MaxFaults \in Nat

VARIABLES
    unsent,     \* committed rows with sent_at NULL
    sent,       \* rows with sent_at set
    loop,       \* where the loop of each relayer is
    batch,      \* rows a relayer's open transaction has locked
    todo,       \* rows of the batch it has not come to yet
    acked,      \* published_ids
    notified,   \* notify_event is set
    published,  \* how often Redis received each row
    faults      \* faults so far

vars == <<unsent, sent, loop, batch, todo, acked, notified, published, faults>>

transaction == <<batch, todo, acked>>

Init ==
    /\ unsent = {} /\ sent = {}
    /\ loop = [r \in Relayers |-> "down"]
    /\ batch = [r \in Relayers |-> {}]
    /\ todo = [r \in Relayers |-> {}]
    /\ acked = [r \in Relayers |-> {}]
    /\ notified = [r \in Relayers |-> FALSE]
    /\ published = [row \in Rows |-> 0]
    /\ faults = 0

(* A service commits a row; the trigger's NOTIFY reaches the relayers whose *)
(* listener is connected.  One that arrives later has no other effect than  *)
(* the poll timeout.                                                        *)
Insert(row) ==
    /\ row \notin unsent \cup sent
    /\ unsent' = unsent \cup {row}
    /\ \E reached \in SUBSET Relayers :
          notified' = [r \in Relayers |-> notified[r] \/ r \in reached]
    /\ UNCHANGED <<sent, loop, transaction, published, faults>>

(* run_poll_loop connects to the database and to Redis. *)
connect(r) ==
    /\ loop[r] = "down"
    /\ loop' = [loop EXCEPT ![r] = "polling"]
    /\ UNCHANGED <<unsent, sent, transaction, notified, published, faults>>

(* Mutant: FOR UPDATE is forgotten. *)
OldestUnsent(rows) ==
    /\ rows \subseteq unsent
    /\ Cardinality(rows) <= BatchSize
    /\ \A row \in rows, other \in unsent \ rows : row < other
    /\ Cardinality(rows) = BatchSize \/ rows = unsent

(* ORDER BY occurred_at FOR UPDATE SKIP LOCKED LIMIT batch_size *)
OldestUnlocked(rows) ==
    LET available == unsent \ UNION {batch[q] : q \in Relayers} IN
    /\ rows \subseteq available
    /\ Cardinality(rows) <= BatchSize
    /\ \A row \in rows, other \in available \ rows : row < other
    /\ Cardinality(rows) = BatchSize \/ rows = available

fetch_unsent(r) ==
    /\ loop[r] = "polling"
    /\ \E rows \in SUBSET unsent :
          /\ OldestUnlocked(rows)
          /\ batch' = [batch EXCEPT ![r] = rows]
          /\ todo' = [todo EXCEPT ![r] = rows]
          /\ loop' = [loop EXCEPT ![r] = IF rows = {} THEN "idle" ELSE "publishing"]
    /\ UNCHANGED <<unsent, sent, acked, notified, published, faults>>

(* The row the for loop of _process_batch is at. *)
Current(r, row) ==
    /\ loop[r] = "publishing"
    /\ row \in todo[r]
    /\ \A other \in todo[r] : row <= other
    /\ todo' = [todo EXCEPT ![r] = @ \ {row}]

publish(r) ==
    \E row \in Rows \ Poison :
        /\ Current(r, row)
        /\ published' = [published EXCEPT ![row] = @ + 1]
        /\ acked' = [acked EXCEPT ![r] = @ \cup {row}]
        /\ UNCHANGED <<unsent, sent, loop, batch, notified, faults>>

(* Mutant: the row counts as published although publish raised. *)
publish_failed_acked(r) ==
    \E row \in Rows :
        /\ Current(r, row)
        /\ row \in Poison
        /\ acked' = [acked EXCEPT ![r] = @ \cup {row}]
        /\ UNCHANGED <<unsent, sent, loop, batch, notified, published, faults>>

(* publish raises and the row is left for a later batch: always for a       *)
(* poison row, else by a fault, before or after Redis received it.          *)
publish_failed(r) ==
    \E row \in Rows :
        /\ Current(r, row)
        /\ \/ row \in Poison /\ UNCHANGED <<published, faults>>
           \/ /\ row \notin Poison /\ faults < MaxFaults
              /\ faults' = faults + 1
              /\ published' \in {published, [published EXCEPT ![row] = @ + 1]}
        /\ UNCHANGED <<unsent, sent, loop, batch, acked, notified>>

(* The transaction of r is over, and its row locks with it. *)
Release(r) ==
    /\ batch' = [batch EXCEPT ![r] = {}]
    /\ todo' = [todo EXCEPT ![r] = {}]
    /\ acked' = [acked EXCEPT ![r] = {}]

(* mark_sent and commit; a batch with nothing published counts as empty. *)
mark_sent(r) ==
    /\ loop[r] = "publishing" /\ todo[r] = {}
    /\ sent' = sent \cup acked[r]
    /\ unsent' = unsent \ acked[r]
    /\ loop' = [loop EXCEPT ![r] = IF acked[r] = {} THEN "idle" ELSE "polling"]
    /\ Release(r)
    /\ UNCHANGED <<notified, published, faults>>

(* notify_event.clear(), also of a NOTIFY that came since the fetch. *)
clear(r) ==
    /\ loop[r] = "idle"
    /\ loop' = [loop EXCEPT ![r] = "waiting"]
    /\ notified' = [notified EXCEPT ![r] = FALSE]
    /\ UNCHANGED <<unsent, sent, transaction, published, faults>>

(* Mutant: wait without a timeout. *)
wait_notified(r) ==
    /\ loop[r] = "waiting"
    /\ notified[r]
    /\ loop' = [loop EXCEPT ![r] = "polling"]
    /\ UNCHANGED <<unsent, sent, transaction, notified, published, faults>>

(* asyncio.wait_for(notify_event.wait(), poll_interval): a NOTIFY ends the  *)
(* wait early, and time ends it in any case.                                *)
wait_for(r) ==
    /\ loop[r] = "waiting"
    /\ loop' = [loop EXCEPT ![r] = "polling"]
    /\ UNCHANGED <<unsent, sent, transaction, notified, published, faults>>

(* An exception in the loop or the end of the process: the open transaction *)
(* is rolled back and run_poll_loop starts again; a new process has a new   *)
(* notify_event.                                                            *)
Restart(r) ==
    /\ faults < MaxFaults
    /\ faults' = faults + 1
    /\ loop[r] # "down"
    /\ loop' = [loop EXCEPT ![r] = "down"]
    /\ Release(r)
    /\ notified' \in {notified, [notified EXCEPT ![r] = FALSE]}
    /\ UNCHANGED <<unsent, sent, published>>

run_poll_loop(r) ==
    connect(r) \/ fetch_unsent(r) \/ publish(r) \/ publish_failed(r)
        \/ mark_sent(r) \/ clear(r) \/ wait_for(r)

Next ==
    \/ \E row \in Rows : Insert(row)
    \/ \E r \in Relayers : run_poll_loop(r) \/ Restart(r)

Spec == Init /\ [][Next]_vars

(* The event loop runs every relayer's coroutine; it waits on nothing but a *)
(* timeout and calls that return or raise.                                  *)
FairSpec == Spec /\ \A r \in Relayers : WF_vars(run_poll_loop(r))
-----------------------------------------------------------------------------
(* Every variable keeps its type. *)
TypeOK ==
    /\ unsent \subseteq Rows /\ sent \subseteq Rows
    /\ loop \in [Relayers -> {"down", "polling", "publishing", "idle", "waiting"}]
    /\ batch \in [Relayers -> SUBSET Rows]
    /\ todo \in [Relayers -> SUBSET Rows]
    /\ acked \in [Relayers -> SUBSET Rows]
    /\ notified \in [Relayers -> BOOLEAN]
    /\ published \in [Rows -> Nat]
    /\ faults \in Nat

(* "Relayer is at-least-once": no row is marked as sent that Redis did not  *)
(* receive, whichever publications of a batch fail (_process_batch).        *)
SentWasPublished == \A row \in sent : published[row] > 0

(* SKIP LOCKED makes several relayers safe: no two of them hold the same    *)
(* row, and none holds a row that is sent already (fetch_unsent).           *)
HeldOnce ==
    \A r \in Relayers :
        /\ batch[r] \cap sent = {}
        /\ \A q \in Relayers \ {r} : batch[r] \cap batch[q] = {}

(* "Relayer never publishes the same row twice unless sent_at is NULL": a   *)
(* duplicate takes a fault, one each, however many relayers there are.      *)
DuplicatesNeedFaults == \A row \in Rows : published[row] <= faults + 1

(* Every row that can be published is sent in the end, whatever NOTIFY is   *)
(* lost, as long as faults and poison rows are few: "do NOT block others".  *)
EveryRowSent == \A row \in Rows \ Poison : (row \in unsent) ~> (row \in sent)

-----------------------------------------------------------------------------
(* Proofs, for any number of rows, relayers and faults and any batch size. *)

(* The locks: an open transaction holds unsent rows that nobody else holds, *)
(* and only a publishing relayer has one.                                   *)
Locks ==
    /\ unsent \cap sent = {}
    /\ \A r \in Relayers :
          /\ batch[r] \subseteq unsent
          /\ todo[r] \subseteq batch[r]
          /\ acked[r] \subseteq batch[r] \ todo[r]
          /\ loop[r] # "publishing" => batch[r] = {}
    /\ \A r, q \in Relayers : r # q => batch[r] \cap batch[q] = {}

(* A row that Redis has acknowledged, committed or not. *)
Acknowledged(row) == row \in sent \/ \E r \in Relayers : row \in acked[r]

(* The counting argument: what was published and not acknowledged since was *)
(* published by a transaction that a fault ended.                           *)
Counts ==
    \A row \in Rows :
        /\ Acknowledged(row) => published[row] > 0
        /\ published[row] <= faults + (IF Acknowledged(row) THEN 1 ELSE 0)

RelayerInv == TypeOK /\ Locks /\ Counts

(* The first state satisfies the invariant. *)
LEMMA RelayerInit == Init => RelayerInv
  <1>1. SUFFICES ASSUME Init PROVE RelayerInv
    OBVIOUS
  <1>2. TypeOK
    BY <1>1 DEF Init, TypeOK
  <1>3. Locks
    BY <1>1 DEF Init, Locks
  <1>4. Counts
    BY <1>1 DEF Init, Counts, Acknowledged
  <1> QED BY <1>2, <1>3, <1>4 DEF RelayerInv

(* Every step keeps the types. *)
LEMMA RelayerTypes == TypeOK /\ [Next]_vars => TypeOK'
  <1> SUFFICES ASSUME TypeOK, [Next]_vars PROVE TypeOK'
    OBVIOUS
  <1> USE RowsAssumption, BatchAssumption DEF TypeOK
  <1>1. ASSUME NEW row \in Rows, Insert(row) PROVE TypeOK'
    BY <1>1 DEF Insert, transaction
  <1>2. ASSUME NEW r \in Relayers, connect(r) PROVE TypeOK'
    BY <1>2 DEF connect, transaction
  <1>3. ASSUME NEW r \in Relayers, fetch_unsent(r) PROVE TypeOK'
    BY <1>3 DEF fetch_unsent
  <1>4. ASSUME NEW r \in Relayers, publish(r) PROVE TypeOK'
    BY <1>4 DEF publish, Current
  <1>5. ASSUME NEW r \in Relayers, publish_failed(r) PROVE TypeOK'
    BY <1>5 DEF publish_failed, Current
  <1>6. ASSUME NEW r \in Relayers, mark_sent(r) PROVE TypeOK'
    BY <1>6 DEF mark_sent, Release
  <1>7. ASSUME NEW r \in Relayers, clear(r) PROVE TypeOK'
    BY <1>7 DEF clear, transaction
  <1>8. ASSUME NEW r \in Relayers, wait_for(r) PROVE TypeOK'
    BY <1>8 DEF wait_for, transaction
  <1>9. ASSUME NEW r \in Relayers, Restart(r) PROVE TypeOK'
    <2>1. notified' \in [Relayers -> BOOLEAN]
      <3>1. CASE notified' = notified
        BY <3>1
      <3>2. CASE notified' = [notified EXCEPT ![r] = FALSE]
        BY <3>2, Zenon
      <3> QED BY <1>9, <3>1, <3>2 DEF Restart
    <2>2. loop' \in [Relayers -> {"down", "polling", "publishing", "idle", "waiting"}]
      BY <1>9 DEF Restart
    <2> QED BY <1>9, <2>1, <2>2 DEF Restart, Release
  <1>10. CASE UNCHANGED vars
    BY <1>10 DEF vars
  <1> QED
    BY <1>1, <1>2, <1>3, <1>4, <1>5, <1>6, <1>7, <1>8, <1>9, <1>10
       DEF Next, run_poll_loop

(* Every step keeps the locks apart: SKIP LOCKED takes only free rows, and  *)
(* commit and rollback drop them all.                                       *)
LEMMA RelayerLocks == RelayerInv /\ [Next]_vars => Locks'
  <1> SUFFICES ASSUME TypeOK, Locks, [Next]_vars PROVE Locks'
    BY DEF RelayerInv
  <1> USE DEF TypeOK, Locks
  <1>1. ASSUME NEW row \in Rows, Insert(row) PROVE Locks'
    BY <1>1 DEF Insert, transaction
  <1>2. ASSUME NEW r \in Relayers, connect(r) PROVE Locks'
    BY <1>2 DEF connect, transaction
  <1>3. ASSUME NEW r \in Relayers, fetch_unsent(r) PROVE Locks'
    <2>1. PICK rows \in SUBSET unsent :
             /\ OldestUnlocked(rows)
             /\ batch' = [batch EXCEPT ![r] = rows]
             /\ todo' = [todo EXCEPT ![r] = rows]
             /\ loop' = [loop EXCEPT ![r] = IF rows = {} THEN "idle" ELSE "publishing"]
      BY <1>3 DEF fetch_unsent
    <2>2. \A q \in Relayers : rows \cap batch[q] = {}
      BY <2>1 DEF OldestUnlocked
    <2>3. acked[r] = {}
      BY <1>3 DEF fetch_unsent
    <2>4. unsent' = unsent /\ sent' = sent /\ acked' = acked
      BY <1>3 DEF fetch_unsent
    <2> QED BY <2>1, <2>2, <2>3, <2>4
  <1>4. ASSUME NEW r \in Relayers, publish(r) PROVE Locks'
    BY <1>4 DEF publish, Current
  <1>5. ASSUME NEW r \in Relayers, publish_failed(r) PROVE Locks'
    BY <1>5 DEF publish_failed, Current
  <1>6. ASSUME NEW r \in Relayers, mark_sent(r) PROVE Locks'
    <2>1. \A q \in Relayers \ {r} : batch[q] \cap acked[r] = {}
      OBVIOUS
    <2> QED BY <1>6, <2>1 DEF mark_sent, Release
  <1>7. ASSUME NEW r \in Relayers, clear(r) PROVE Locks'
    BY <1>7 DEF clear, transaction
  <1>8. ASSUME NEW r \in Relayers, wait_for(r) PROVE Locks'
    BY <1>8 DEF wait_for, transaction
  <1>9. ASSUME NEW r \in Relayers, Restart(r) PROVE Locks'
    BY <1>9 DEF Restart, Release
  <1>10. CASE UNCHANGED vars
    BY <1>10 DEF vars
  <1> QED
    BY <1>1, <1>2, <1>3, <1>4, <1>5, <1>6, <1>7, <1>8, <1>9, <1>10
       DEF Next, run_poll_loop

(* Every step keeps the counts: a publication without a fault is that of a  *)
(* row nobody has acknowledged, since its only holder had it still to do.   *)
LEMMA RelayerCounts == RelayerInv /\ [Next]_vars => Counts'
  <1> SUFFICES ASSUME RelayerInv, [Next]_vars PROVE Counts'
    OBVIOUS
  <1> USE DEF RelayerInv, TypeOK
  <1>1. CASE UNCHANGED <<sent, acked, published, faults>>
    BY <1>1 DEF Counts, Acknowledged
  <1>2. ASSUME NEW r \in Relayers, publish(r) PROVE Counts'
    <2>1. PICK row \in Rows \ Poison :
             /\ Current(r, row)
             /\ published' = [published EXCEPT ![row] = @ + 1]
             /\ acked' = [acked EXCEPT ![r] = @ \cup {row}]
             /\ sent' = sent /\ faults' = faults
      BY <1>2 DEF publish
    <2>2. ~Acknowledged(row)
      BY <2>1 DEF Current, Locks, Acknowledged
    <2>3. Acknowledged(row)'
      BY <2>1 DEF Acknowledged
    <2>4. \A other \in Rows \ {row} : Acknowledged(other)' <=> Acknowledged(other)
      BY <2>1 DEF Acknowledged
    <2> QED BY <2>1, <2>2, <2>3, <2>4 DEF Counts
  <1>3. ASSUME NEW r \in Relayers, publish_failed(r) PROVE Counts'
    <2>1. sent' = sent /\ acked' = acked
      BY <1>3 DEF publish_failed
    <2>2. \A row \in Rows : Acknowledged(row)' <=> Acknowledged(row)
      BY <2>1 DEF Acknowledged
    <2>3. CASE published' = published /\ faults' = faults
      BY <2>2, <2>3 DEF Counts
    <2>4. ASSUME NEW row \in Rows, faults' = faults + 1,
                 published' \in {published, [published EXCEPT ![row] = @ + 1]}
          PROVE  Counts'
      BY <2>2, <2>4 DEF Counts
    <2> QED BY <1>3, <2>3, <2>4 DEF publish_failed
  <1>4. ASSUME NEW r \in Relayers, mark_sent(r) PROVE Counts'
    <2>1. \A row \in Rows : Acknowledged(row)' <=> Acknowledged(row)
      BY <1>4 DEF mark_sent, Release, Acknowledged
    <2>2. published' = published /\ faults' = faults
      BY <1>4 DEF mark_sent
    <2> QED BY <2>1, <2>2 DEF Counts
  <1>5. ASSUME NEW r \in Relayers, Restart(r) PROVE Counts'
    <2>1. \A row \in Rows : Acknowledged(row)' => Acknowledged(row)
      BY <1>5 DEF Restart, Release, Acknowledged
    <2>2. published' = published /\ faults' = faults + 1
      BY <1>5 DEF Restart
    <2> QED BY <2>1, <2>2 DEF Counts
  <1> QED
    BY <1>1, <1>2, <1>3, <1>4, <1>5
       DEF Next, run_poll_loop, Insert, connect, fetch_unsent, clear, wait_for,
           transaction, vars

(* The invariant holds throughout. *)
THEOREM RelayerInvariant == Spec => []RelayerInv
  <1>1. RelayerInv /\ [Next]_vars => RelayerInv'
    BY RelayerTypes, RelayerLocks, RelayerCounts DEF RelayerInv
  <1> QED BY RelayerInit, <1>1, PTL DEF Spec

(* At least once: a row is marked as sent only after Redis received it.     *)
THEOREM AtLeastOnce == Spec => []SentWasPublished
  <1>1. RelayerInv => SentWasPublished
    BY DEF RelayerInv, TypeOK, Counts, Acknowledged, SentWasPublished
  <1> QED BY RelayerInvariant, <1>1, PTL

(* No two relayers ever hold the same row, and none holds a sent one.       *)
THEOREM MultiRelayerSafe == Spec => []HeldOnce
  <1>1. RelayerInv => HeldOnce
    BY DEF RelayerInv, Locks, HeldOnce
  <1> QED BY RelayerInvariant, <1>1, PTL

(* Duplicates are paid for: a row is published at most once more than there *)
(* were faults.                                                             *)
THEOREM DuplicatesBounded == Spec => []DuplicatesNeedFaults
  <1>1. RelayerInv => DuplicatesNeedFaults
    BY DEF RelayerInv, TypeOK, Counts, DuplicatesNeedFaults
  <1> QED BY RelayerInvariant, <1>1, PTL
=============================================================================
