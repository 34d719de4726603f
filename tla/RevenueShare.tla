---------------------------- MODULE RevenueShare ----------------------------
(***************************************************************************)
(* Revenue share in capability-registry: one policy, the hooks billing     *)
(* events leave, the payout entries made from hooks, and one monthly batch *)
(* that snapshots the entries for review, approval and export.             *)
(*                                                                         *)
(* As in ProviderApplications a handler takes two steps, between which     *)
(* others run, and overlaps counts the requests that began while another   *)
(* was being handled.  The handlers of policies and hooks write a row in   *)
(* one statement and take one step.  All hooks are of one month and one    *)
(* currency.                                                               *)
(* Amounts are counted in the smallest unit (0.0001), ratios in 1 / Unit.  *)
(***************************************************************************)
EXTENDS OrmSession, Integers, FiniteSetsExt, SequencesExt, TLC

CONSTANTS
    Workers,      \* handlers that can run at the same time
    Events,       \* source events of hooks
    ProviderOf,   \* the provider each source event names
    EntryIds,     \* values of entry_id
    Amounts,      \* values of gross_amount
    Ratios,       \* values of provider_share_ratio, in 1 / Unit
    Unit,         \* the ratio 1.000000
    MaxRecord,    \* bound: the last record_version of the batch
    MaxOverlaps   \* bound: requests that begin while another is handled

ASSUME AmountAssumption == Amounts \subseteq Nat /\ Unit \in Nat \ {0} /\ Ratios \subseteq 0..Unit
ASSUME BoundAssumption == MaxRecord \in Nat /\ MaxOverlaps \in Nat

VARIABLES
    overlaps,  \* requests that began while another was handled
    policy,    \* the revenue_share_policies row
    hooks,     \* the source events that have a revenue_share_hooks row
    entries,   \* the provider_revenue_payout_entries rows
    batch,     \* the provider_monthly_revenue_share_batches row
    approved,  \* history: the snapshot with which the batch left "draft"
    req        \* what each worker's session holds

vars == <<overlaps, policy, hooks, entries, batch, approved, req>>

-----------------------------------------------------------------------------
NoPolicy == [status |-> "none", platform |-> 0, provider |-> 0]
NoEntry == [status |-> "none", hook |-> "none", gross |-> 0, platform |-> 0, provider |-> 0]
Idle == [table |-> "none"]

(* normalize_money: half up. *)
normalize_money(x, y) == (2 * x + y) \div (2 * y)

provider_revenue_amount(e) == normalize_money(e.gross * e.provider, Unit)

platform_revenue_amount(e) == e.gross - provider_revenue_amount(e)

(* What _payout_amounts and _monthly_add_amounts sum up over the entries S. *)
Sums(s, S) ==
    [count    |-> Cardinality(S),
     gross    |-> MapThenSumSet(LAMBDA i : s[i].gross, S),
     provider |-> MapThenSumSet(LAMBDA i : provider_revenue_amount(s[i]), S),
     platform |-> MapThenSumSet(LAMBDA i : platform_revenue_amount(s[i]), S)]

(* Payouts still due, of which a summary counts those pending and held. *)
Due(s, S, status) ==
    MapThenSumSet(LAMBDA i : provider_revenue_amount(s[i]), {i \in S : s[i].status = status})

(* A voided entry counts with its gross amount only. *)
_add_payout_amounts(s, S) ==
    LET valid == {i \in S : s[i].status # "voided"} IN
    [sums |-> Sums(s, valid), pending |-> Due(s, S, "pending"), held |-> Due(s, S, "held"),
     paid |-> Due(s, S, "paid"), voided |-> Sums(s, S \ valid).gross]

_monthly_provider_summaries(s, S) ==
    [p \in {ProviderOf[s[i].hook] : i \in S} |-> Sums(s, {i \in S : ProviderOf[s[i].hook] = p})]

_monthly_policy_ratio_summaries(s, S) ==
    [r \in {s[i].provider : i \in S} |-> Sums(s, {i \in S : s[i].provider = r})]

(* The checksum is taken for the content it is computed from. *)
_monthly_checksum(content) == content

(* Pending and held entries are in, the others are listed as left out. *)
_calculate_monthly_batch_snapshot(s) ==
    LET ids == {i \in EntryIds : s[i].status \in {"pending", "held"}}
        excluded == {<<i, s[i].status>> : i \in {j \in EntryIds : s[j].status \in {"paid", "voided"}}}
        content == [ids |-> ids, excluded |-> excluded,
                    totals |-> [sums |-> Sums(s, ids), pending |-> Due(s, ids, "pending"),
                                held |-> Due(s, ids, "held")],
                    providers |-> _monthly_provider_summaries(s, ids),
                    ratios |-> _monthly_policy_ratio_summaries(s, ids)]
    IN  [entry_count |-> Cardinality(ids), content |-> content,
         checksum |-> _monthly_checksum(content)]

NoSnapshot == _calculate_monthly_batch_snapshot([i \in EntryIds |-> NoEntry])

(* The batch row: every field of the content is a column of its own. *)
NewBatch(status, record_version, snapshot) ==
    [status |-> status, record_version |-> record_version, approved_by |-> FALSE,
     entry_count |-> snapshot.entry_count, checksum |-> snapshot.checksum,
     ids |-> snapshot.content.ids, excluded |-> snapshot.content.excluded,
     totals |-> snapshot.content.totals, providers |-> snapshot.content.providers,
     ratios |-> snapshot.content.ratios]

NoBatch == NewBatch("none", 0, NoSnapshot)

Content(b) == [ids |-> b.ids, excluded |-> b.excluded, totals |-> b.totals,
               providers |-> b.providers, ratios |-> b.ratios]

Init ==
    /\ overlaps = 0
    /\ policy = NoPolicy
    /\ hooks = {}
    /\ entries = [i \in EntryIds |-> NoEntry]
    /\ batch = NoBatch
    /\ approved = Content(NoBatch)
    /\ req = [w \in Workers |-> Idle]

-----------------------------------------------------------------------------
Pending == {w \in Workers : req[w] # Idle}

(* A request begins, within the bound on those that overlap. *)
Begins ==
    /\ overlaps' = IF Pending = {} THEN overlaps ELSE overlaps + 1
    /\ overlaps' <= MaxOverlaps

(* The session of w holds new for the row key of a table. *)
Holds(w, table, key, loaded, new) ==
    /\ req[w] = Idle
    /\ new # loaded
    /\ Begins
    /\ req' = [req EXCEPT ![w] = [table |-> table, key |-> key, loaded |-> loaded, new |-> new]]
    /\ UNCHANGED <<policy, hooks, entries, batch, approved>>

Done(w) ==
    /\ req' = [req EXCEPT ![w] = Idle]
    /\ UNCHANGED overlaps

Rollback(w) ==
    /\ req[w] # Idle
    /\ Done(w)
    /\ UNCHANGED <<policy, hooks, entries, batch, approved>>

(* The ratios of a policy make one whole. *)
RevenueSharePolicyUpsertRequest ==
    {[status |-> "reserved", platform |-> Unit - r, provider |-> r] : r \in Ratios}

upsert_revenue_share_policy(body) ==
    /\ policy # body
    /\ policy' = body
    /\ Begins
    /\ UNCHANGED <<hooks, entries, batch, approved, req>>

(* A second hook of an event is answered with the first. *)
create_revenue_share_hook(event) ==
    /\ event \notin hooks
    /\ Exists(policy)
    /\ hooks' = hooks \cup {event}
    /\ Begins
    /\ UNCHANGED <<policy, entries, batch, approved, req>>

-----------------------------------------------------------------------------
ProviderRevenuePayoutEntryUpsertRequest ==
    [status : {"pending", "held", "paid", "voided"}, hook : Events, gross : Amounts]

_assert_payout_entry_material_unchanged(row, body) ==
    row.hook = body.hook /\ row.gross = body.gross

PayoutTransitions ==
    [pending |-> {"held", "paid", "voided"}, held |-> {"pending", "paid", "voided"},
     paid |-> {}, voided |-> {}]

_assert_payout_status_transition(current, next) ==
    current = next \/ next \in PayoutTransitions[current]

Updatable(row, body) ==
    /\ _assert_payout_entry_material_unchanged(row, body)
    /\ _assert_payout_status_transition(row.status, body.status)

update_payout_entry(w, i, body) ==
    /\ Exists(entries[i])
    /\ Updatable(entries[i], body)
    /\ Holds(w, "entry", i, entries[i], [entries[i] EXCEPT !.status = body.status])

HasEntry(hook) == \E i \in EntryIds : Exists(entries[i]) /\ entries[i].hook = hook

(* The ratios are those of the policy when the entry is made. *)
create_payout_entry(w, i, body) ==
    /\ ~Exists(entries[i])
    /\ body.hook \in hooks
    /\ ~HasEntry(body.hook)
    /\ Holds(w, "entry", i, NoEntry,
             [status |-> body.status, hook |-> body.hook, gross |-> body.gross,
              platform |-> policy.platform, provider |-> policy.provider])

(* The two unique indexes. *)
EntryInsertable(i, loaded, new) ==
    Insertable(entries[i], loaded) /\ (Exists(loaded) \/ ~HasEntry(new.hook))

CommitEntry(w) ==
    LET i == req[w].key IN
    /\ req[w].table = "entry"
    /\ EntryInsertable(i, req[w].loaded, req[w].new)
    /\ entries' = [entries EXCEPT ![i] = Flushed(entries[i], req[w].loaded, req[w].new)]
    /\ Done(w)
    /\ UNCHANGED <<policy, hooks, batch, approved>>

(* The insert lost the race for its entry id: the handler loads the winner  *)
(* and goes on as an update of it.                                          *)
RetryAsUpdate(w) ==
    LET i == req[w].key IN
    /\ req[w].table = "entry"
    /\ ~Exists(req[w].loaded) /\ Exists(entries[i])
    /\ Updatable(entries[i], req[w].new)
    /\ req' = [req EXCEPT ![w].loaded = entries[i],
                          ![w].new = [entries[i] EXCEPT !.status = req[w].new.status]]
    /\ UNCHANGED <<overlaps, policy, hooks, entries, batch, approved>>

(* The currency total of a provider's dashboard. *)
get_provider_revenue_payout_dashboard(p) ==
    _add_payout_amounts(entries, {i \in EntryIds : Exists(entries[i]) /\ ProviderOf[entries[i].hook] = p})

-----------------------------------------------------------------------------
(* A batch whose stored columns do not fit together is answered with a      *)
(* conflict.                                                                *)
_monthly_batch_response(b) ==
    /\ b.entry_count = Cardinality(b.ids)
    /\ b.totals.sums.count = b.entry_count
    /\ b.checksum = _monthly_checksum(Content(b))

(* Mutant: the amounts due are compared as well. *)
compare_amounts_due(b) ==
    /\ b.totals.sums = Sums(entries, b.ids)
    /\ b.totals.pending = Due(entries, b.ids, "pending")

(* And so is one that does not fit its entries, their status aside. *)
_validate_monthly_batch_source_entries(b) ==
    /\ \A i \in b.ids : Exists(entries[i])
    /\ b.totals.sums = Sums(entries, b.ids)
    /\ b.providers = _monthly_provider_summaries(entries, b.ids)
    /\ b.ratios = _monthly_policy_ratio_summaries(entries, b.ids)

Answerable(b) == _monthly_batch_response(b) /\ _validate_monthly_batch_source_entries(b)

HoldsBatch(w, new) ==
    /\ batch.record_version < MaxRecord
    /\ Answerable(new)
    /\ Holds(w, "batch", "batch", batch, new)

Recalculable(b) == b.status \in {"none", "draft"}

(* The batch is calculated, or calculated again while it is a draft. *)
upsert_provider_monthly_revenue_share_batch(w) ==
    LET snapshot == _calculate_monthly_batch_snapshot(entries) IN
    /\ Recalculable(batch)
    /\ Exists(batch) => batch.checksum # snapshot.checksum
    /\ HoldsBatch(w, [NewBatch("draft", batch.record_version + 1, snapshot)
                      EXCEPT !.status = IF Exists(batch) THEN batch.status ELSE "draft",
                             !.approved_by = batch.approved_by])

ProviderMonthlyRevenueShareBatchStatusPatchRequest ==
    [status : {"draft", "reviewed", "approved", "exported", "cancelled"}, approved_by : BOOLEAN]

MonthlyTransitions ==
    [draft |-> {"reviewed", "cancelled"}, reviewed |-> {"approved", "cancelled"},
     approved |-> {"exported", "cancelled"}, exported |-> {}, cancelled |-> {}]

_assert_monthly_status_transition(current, next, approved_by) ==
    \/ current = next
    \/ /\ next \in MonthlyTransitions[current]
       /\ next \in {"approved", "exported"} => approved_by

_assert_terminal_monthly_patch_idempotent(b, body) ==
    b.status \in {"exported", "cancelled"} =>
        body.status = b.status /\ (body.approved_by => b.approved_by)

_require_matching_monthly_etag(b, if_match) == if_match = b.record_version

patch_provider_monthly_revenue_share_batch_status(w, if_match, body) ==
    /\ Exists(batch)
    /\ _require_matching_monthly_etag(batch, if_match)
    /\ _assert_terminal_monthly_patch_idempotent(batch, body)
    /\ _assert_monthly_status_transition(batch.status, body.status,
                                         body.approved_by \/ batch.approved_by)
    /\ body.status # batch.status \/ (body.approved_by /\ ~batch.approved_by)
    /\ HoldsBatch(w, [batch EXCEPT !.status = body.status,
                                   !.approved_by = body.approved_by \/ batch.approved_by,
                                   !.record_version = batch.record_version + 1])

CommitBatch(w) ==
    /\ req[w].table = "batch"
    /\ Insertable(batch, req[w].loaded)
    /\ batch' = Flushed(batch, req[w].loaded, req[w].new)
    /\ approved' = IF batch.status \in {"none", "draft"} THEN Content(batch') ELSE approved
    /\ Done(w)
    /\ UNCHANGED <<policy, hooks, entries>>

Next ==
    \/ \E body \in RevenueSharePolicyUpsertRequest : upsert_revenue_share_policy(body)
    \/ \E e \in Events : create_revenue_share_hook(e)
    \/ \E w \in Workers :
        \/ \E i \in EntryIds, body \in ProviderRevenuePayoutEntryUpsertRequest :
              update_payout_entry(w, i, body) \/ create_payout_entry(w, i, body)
        \/ CommitEntry(w)
        \/ RetryAsUpdate(w)
        \/ upsert_provider_monthly_revenue_share_batch(w)
        \/ \E if_match \in 1..MaxRecord, body \in ProviderMonthlyRevenueShareBatchStatusPatchRequest :
              patch_provider_monthly_revenue_share_batch_status(w, if_match, body)
        \/ CommitBatch(w)
        \/ Rollback(w)

Spec == Init /\ [][Next]_vars

-----------------------------------------------------------------------------
(* However the requests interleave, a hook is paid out through one entry:   *)
(* the unique index catches what the handler's own look-up misses.          *)
OneEntryPerHook ==
    \A i, j \in EntryIds :
        Exists(entries[i]) /\ Exists(entries[j]) /\ entries[i].hook = entries[j].hook => i = j

(* However the requests interleave, nothing is lost in rounding: what a     *)
(* batch promises providers and platform together is the gross amount, in   *)
(* total and for every provider and ratio.                                  *)
SharesAddUp ==
    LET AddUp(x) == x.gross = x.provider + x.platform IN
    /\ AddUp(batch.totals.sums)
    /\ \A p \in DOMAIN batch.providers : AddUp(batch.providers[p])
    /\ \A r \in DOMAIN batch.ratios : AddUp(batch.ratios[r])
    /\ batch.totals.sums.provider = batch.totals.pending + batch.totals.held

(* However the requests interleave, a provider's dashboard accounts for     *)
(* every amount: revenue is pending, held or paid, and a batch lists no     *)
(* more for a provider than its dashboard, voided entries included.         *)
DashboardAccountsForBatch ==
    \A e \in Events :
        LET d == get_provider_revenue_payout_dashboard(ProviderOf[e])
            p == ProviderOf[e] IN
        /\ d.sums.provider = d.pending + d.held + d.paid
        /\ p \in DOMAIN batch.providers => batch.providers[p].gross <= d.sums.gross + d.voided

(* As long as no requests overlap, a batch can always be read: neither      *)
(* later payouts nor later changes of the policy make its stored totals     *)
(* look as if they had drifted.                                             *)
BatchStaysReadable == overlaps = 0 => Answerable(batch)

(* As long as no requests overlap, what is approved and exported is the     *)
(* snapshot that left "draft", with its approval.                           *)
ExportedAsReviewed ==
    overlaps = 0 =>
        /\ Content(batch) = approved
        /\ batch.status \in {"approved", "exported"} => batch.approved_by

(* Every amount is accounted for.  However the requests interleave, it is   *)
(* paid out once, shared without a loss and shown in full; and as long as   *)
(* none overlap, the batch it is in stays readable and is exported as it    *)
(* was approved.                                                            *)
RevenueAccounted ==
    /\ OneEntryPerHook /\ SharesAddUp /\ DashboardAccountsForBatch
    /\ BatchStaysReadable /\ ExportedAsReviewed

(***************************************************************************)
(* Values for TLC: every event names a provider of its own, and workers,   *)
(* events and entry ids can be exchanged.                                  *)
(***************************************************************************)
SmallProviders == [e \in Events |-> e]

Symmetries == Permutations(Workers) \cup Permutations(Events) \cup Permutations(EntryIds)
=============================================================================
