---------------------------- MODULE ProviderExit ----------------------------
(***************************************************************************)
(* What happens when a provider leaves.                                    *)
(*                                                                         *)
(* Reruns: a reproduction voucher locks the provider a result came from;   *)
(* when that provider is no longer active, a rerun moves to an equivalent  *)
(* one, and the voucher it issues locks the new provider, so that a chain  *)
(* of reruns may move several times.                                       *)
(*                                                                         *)
(* Notices: one plan per provider and date, one notification request with  *)
(* one outbox event for every user who holds a valid voucher, one public   *)
(* announcement.  The call is repeated to catch users who got a voucher    *)
(* since, and calls may overlap: a unique index on each table decides, and *)
(* an insert waits for a conflicting one that has not ended.               *)
(***************************************************************************)
EXTENDS Integers, Sequences, FiniteSets, FiniteSetsExt

CONSTANTS
    Providers,          \* a set of numbers: the order of their ids
    Offer,              \* provider -> [task, solver, kind, version, tags] in the catalog
    DefaultTags,        \* the tags of a task type without a row
    MaxVouchers         \* bound on the vouchers issued

ASSUME MigrationAssumption ==
    Providers \subseteq Nat /\ \A p \in Providers : Offer[p].version \in Int

VARIABLES
    lifecycle,          \* provider -> its status in the catalog, "absent" without a row
    vouchers,           \* [provider, parent, depth, expired, task, solver, listed]
    migrations          \* reruns: [from, to, voucher, active]

migrationVars == <<lifecycle, vouchers, migrations>>

Statuses == {"active", "exiting", "absent"}

MigrationInit ==
    /\ lifecycle = [p \in Providers |-> "active"]
    /\ \E p \in Providers :
         vouchers = <<[provider |-> p, parent |-> 0, depth |-> 0, expired |-> FALSE,
                       task |-> Offer[p].task, solver |-> Offer[p].solver, listed |-> TRUE]>>
    /\ migrations = {}

(* A deployment changes the catalog (external). *)
ChangeLifecycle(p, status) ==
    /\ lifecycle[p] # status
    /\ lifecycle' = [lifecycle EXCEPT ![p] = status]
    /\ UNCHANGED <<vouchers, migrations>>

Row(p) == lifecycle[p] # "absent"

(* The tags an equivalent must have: those of the locked provider's row,   *)
(* or the default ones of the task type when it has none any more.         *)
_source_tags(v) ==
    IF Row(v.provider) /\ Offer[v.provider].task = v.task
    THEN Offer[v.provider].tags ELSE DefaultTags

NotRequired(v) ==
    lifecycle[v.provider] = "active" /\ Offer[v.provider].task = v.task

MigrationCandidates(v) ==
    {p \in Providers :
        /\ p # v.provider /\ lifecycle[p] = "active"
        /\ Offer[p].task = v.task /\ Offer[p].solver = v.solver
        /\ Offer[p].tags = _source_tags(v)}

(* The same kind first, then the nearest version, then the provider id. *)
Before(v, p, q) ==
    LET kind(x) == IF Offer[x].kind = Offer[v.provider].kind THEN 0 ELSE 1
        distance(x) == LET d == Offer[x].version - Offer[v.provider].version
                       IN  IF d < 0 THEN -d ELSE d
    IN  \/ kind(p) < kind(q)
        \/ kind(p) = kind(q) /\ distance(p) < distance(q)
        \/ kind(p) = kind(q) /\ distance(p) = distance(q) /\ p < q

_candidate_sort_key(v, candidates) ==
    CHOOSE p \in candidates : \A q \in candidates \ {p} : Before(v, p, q)

(* The provider of a rerun; without an equivalent there is no rerun. *)
resolve_provider_migration(v) ==
    IF NotRequired(v) THEN {v.provider}
    ELSE IF MigrationCandidates(v) = {} THEN {}
    ELSE {_candidate_sort_key(v, MigrationCandidates(v))}

(* A rerun that solves issues a voucher for the provider it used. *)
rerun_reproduction(i) ==
    LET v == vouchers[i]
    IN  /\ ~v.expired /\ Len(vouchers) < MaxVouchers
        /\ \E p \in resolve_provider_migration(v) :
             /\ vouchers' = Append(vouchers, [v EXCEPT !.provider = p, !.parent = i, !.depth = v.depth + 1,
                                                     !.listed = v.listed /\ Row(v.provider)])
             /\ migrations' = migrations \cup
                  {[from |-> v.provider, to |-> p, voucher |-> Len(vouchers) + 1,
                    active |-> {q \in Providers : lifecycle[q] = "active"}]}
        /\ UNCHANGED lifecycle

(* Five years pass. *)
ExpireVoucher(i) ==
    /\ ~vouchers[i].expired
    /\ vouchers' = [vouchers EXCEPT ![i].expired = TRUE]
    /\ UNCHANGED <<lifecycle, migrations>>

MigrationNext ==
    \/ \E p \in Providers : \E status \in Statuses : ChangeLifecycle(p, status)
    \/ \E i \in DOMAIN vouchers : rerun_reproduction(i) \/ ExpireVoucher(i)

-----------------------------------------------------------------------------
(* Along a chain of reruns that moved only while its locked providers were *)
(* still listed, every rerun had exactly the capabilities, task type and   *)
(* solver of the first result, however often providers left and returned;  *)
(* and a rerun left its provider only because that one was not active.     *)
RerunsStayEquivalent ==
    /\ \A i \in DOMAIN vouchers :
         vouchers[i].listed => Offer[vouchers[i].provider].tags = Offer[vouchers[1].provider].tags
    /\ \A m \in migrations :
         /\ Offer[m.to].task = Offer[m.from].task /\ Offer[m.to].solver = Offer[m.from].solver
         /\ m.to \in m.active
         /\ m.to # m.from => m.from \notin m.active

(* Lineage: a rerun's voucher is one deeper than its parent, so that every *)
(* chain of parents leads to the voucher that was issued first.            *)
VoucherLineage ==
    \A i \in DOMAIN vouchers :
        /\ vouchers[i].parent < i
        /\ vouchers[i].depth = 0 <=> vouchers[i].parent = 0
        /\ vouchers[i].parent # 0 => vouchers[i].depth = vouchers[vouchers[i].parent].depth + 1
        /\ vouchers[i].task = vouchers[1].task /\ vouchers[i].solver = vouchers[1].solver

-----------------------------------------------------------------------------
CONSTANTS
    Admins,         \* concurrent calls for one provider and date
    Holders         \* users of the provider: a set of numbers, the order of their ids

ASSUME HoldersAssumption == Holders \subseteq Nat /\ IsFiniteSet(Holders)

VARIABLES
    affected,       \* the users with a valid voucher who are not frozen, merged or deleted
    exit_plan,      \* whether the plan is committed
    requested,      \* the users with a committed notification request
    exit_events,    \* user -> committed outbox events of the request
    announcement,   \* the committed announcement: [users], or NoAnnouncement
    announced,      \* committed outbox events of the announcement
    exit_call       \* admin -> the call under way

exitVars == <<affected, exit_plan, requested, exit_events, announcement, announced, exit_call>>

NoAnnouncement == [exists |-> FALSE, users |-> 0]
NoExitCall == [step |-> "idle", todo |-> {}, users |-> {}, mine |-> {}]

ExitInit ==
    /\ affected \in SUBSET Holders /\ exit_plan = FALSE /\ requested = {}
    /\ exit_events = [u \in Holders |-> 0]
    /\ announcement = NoAnnouncement /\ announced = 0
    /\ exit_call = [a \in Admins |-> NoExitCall]

(* Vouchers are issued and expire, users are frozen and erased (external). *)
AffectedChange(u) ==
    /\ affected' = IF u \in affected THEN affected \ {u} ELSE affected \cup {u}
    /\ UNCHANGED <<exit_plan, requested, exit_events, announcement, announced, exit_call>>

Holding(a, step) == \E b \in Admins \ {a} : exit_call[b].step \in step

(* The plan is inserted, or an existing one is taken; while another call   *)
(* has inserted it and not ended, this one waits.                          *)
create_provider_exit_plan(a) ==
    /\ exit_call[a].step = "idle"
    /\ exit_plan \/ ~Holding(a, {"planned", "notify"})
    /\ exit_call' = [exit_call EXCEPT ![a].step = "planned"]
    /\ UNCHANGED <<affected, exit_plan, requested, exit_events, announcement, announced>>

_affected_voucher_rows(a) ==
    /\ exit_call[a].step = "planned"
    /\ exit_call' = [exit_call EXCEPT ![a].step = "notify", ![a].todo = affected, ![a].users = affected]
    /\ UNCHANGED <<affected, exit_plan, requested, exit_events, announcement, announced>>

(* The next user, in the order of their ids: a request that exists is left *)
(* alone, one that another call is inserting is waited for.                *)
RequestNotification(a, u) ==
    LET c == exit_call[a]
    IN  /\ c.step = "notify" /\ u \in c.todo
        /\ \A v \in c.todo : u <= v
        /\ \A b \in Admins \ {a} : u \notin exit_call[b].mine
        /\ exit_call' = [exit_call EXCEPT ![a].todo = @ \ {u},
                            ![a].mine = IF u \in requested THEN @ ELSE @ \cup {u}]
        /\ UNCHANGED <<affected, exit_plan, requested, exit_events, announcement, announced>>

(* The announcement is inserted with its event, or its count is updated;   *)
(* then everything is committed.                                           *)
CommitExitCall(a) ==
    LET c == exit_call[a]
    IN  /\ c.step = "notify" /\ c.todo = {}
        /\ exit_plan' = TRUE
        /\ requested' = requested \cup c.mine
        /\ exit_events' = [u \in Holders |-> exit_events[u] + (IF u \in c.mine THEN 1 ELSE 0)]
        /\ announcement' = [exists |-> TRUE, users |-> Cardinality(c.users)]
        /\ announced' = IF announcement.exists THEN announced ELSE announced + 1
        /\ exit_call' = [exit_call EXCEPT ![a] = NoExitCall]
        /\ UNCHANGED affected

AbortExitCall(a) ==
    /\ exit_call[a] # NoExitCall
    /\ exit_call' = [exit_call EXCEPT ![a] = NoExitCall]
    /\ UNCHANGED <<affected, exit_plan, requested, exit_events, announcement, announced>>

ExitNext ==
    \/ \E u \in Holders : AffectedChange(u)
    \/ \E a \in Admins :
         \/ create_provider_exit_plan(a) \/ _affected_voucher_rows(a)
         \/ \E u \in Holders : RequestNotification(a, u)
         \/ CommitExitCall(a) \/ AbortExitCall(a)

-----------------------------------------------------------------------------
(* However calls overlap, fail and are repeated, a user is sent one notice *)
(* of an exit and the public one announcement, and the announcement never  *)
(* claims more users than were sent a notice.                              *)
ExitNoticedOnce ==
    /\ \A u \in Holders : exit_events[u] = IF u \in requested THEN 1 ELSE 0
    /\ announced = IF announcement.exists THEN 1 ELSE 0
    /\ announcement.users <= Cardinality(requested)
    /\ requested # {} => exit_plan /\ announcement.exists
=============================================================================
