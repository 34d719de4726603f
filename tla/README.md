# OptiCloud: a TLA+ verification project

OptiCloud sells optimization runs: a client creates a *charge*, posts an
optimization that spends it, and gets a result. Around this there are accounts
with risk rules, a registry of providers and their capabilities, revenue sharing,
and a chat that drafts models. Each service has its own PostgreSQL transactions;
they cooperate over HTTP calls that are tried once and over a transactional
outbox. The project models every Python service, the money path first and in
most detail.

Contents: 1 inventory, 2 modules and how they correspond to the code, 3 runs,
4 fairness, 5 proofs, 6 disagreements and observations, 7 what is not modelled,
8 plan.

## 1. Inventory

Paths are below `src/`. *State* is what survives a request.

| component | state | operations | hard part |
|---|---|---|---|
| saga state machine (`packages/shared-py/.../saga`) | none (a table) | `find_transition`, `is_idempotent_replay` | which transitions exist at all; some are in the table but no production code applies them, so a charge never reaches `completed` |
| billing charges, top-ups (`apps/billing-service/.../routes.py`, `saga_orchestrator.py`, `pricing.py`) | sagas, ledger, outbox, attributions, keys | create, reserve, finalize, confirm, refunds, top-ups | decisions on an unlocked read before a row lock; keys that expire or race |
| monthly budget (`budget.py`) | control row, budget events | configure, evaluate, enforce | the row's creation beside a charge that settles; change of month |
| subscriptions, legal inquiries (`routes.py`, `plans.py`) | subscriptions, refills, key table | create, upgrade, trial, refill, inquiry | refill once per period; one key table for endpoints with different rules |
| outbox relayer (`apps/outbox-relayer`) | `outbox.sent_at`, Redis streams | fetch, publish, mark, wait | crash between publish and commit, several relayers, lost wake-ups, poison rows |
| solver billing (`apps/solver-orchestrator/.../billing_client.py`, `billing_reconciler.py`) | billing fields of `optimizations` | reserve, finalize, cancel, periodic retry | a timed-out call may still arrive |
| solver admission (`rate_limit.py`, `auth.py`, `geo_risk.py`) | Redis sorted sets, key use, risk evidence | check and add, record use | clocks read before the script runs; scores added to stale readings |
| solver execution (`provider_routing.py`, `fallback_execution.py`, `solvers.py`) | attempt history | choose, try, fall back, rank alternatives | one time budget over all attempts; what the stored history claims |
| solver jobs (`routes.py`, `job_templates.py`, `repro.py`) | jobs, batches, templates, vouchers | idempotent posts, status, versions, reruns | races decided by unique indexes, rows deleted in between |
| citations, exit notices (`citation_tracker.py`, `provider_exit_notifications.py`) | state file, notices | scan, announce | runs that stop half way; repeated and overlapping calls |
| auth-service | accounts, flags, freezes, proposals, appeals, keys, exports, audit log | about forty handlers | one account in several lifecycles at once; workers that crash |
| capability-registry onboarding | applications, evaluations, versions, shadow runs, rollouts | submit, review, sample, summarise, advance | checks on a row loaded before its lock; ETags; copied columns |
| capability-registry revenue share | policies, hooks, payouts, batches | record, pay, snapshot, approve, export | rounding; a policy that changes between hook and batch |
| capability-registry catalog | providers, vocabulary, capabilities, cache | register, resolve, match, read through | invalidation before the commit; aliases of aliases |
| chat-service, llm router, sandbox runner | nothing kept between requests but configuration | nine stages, event stream, resume | a model may reply anything; a stream is recomputed on every connection |
| web, SDKs, governance scripts | - | - | user interface, thin clients, offline validators |

Interactions: the solver calls billing's charge endpoints; billing, auth and the
solver write outbox rows in the transaction of a change; the relayer moves them to
Redis; the solver's reconciler repeats billing calls that failed; budget evaluation
runs inside the finalize and confirm transactions; the daily reconciliation
compares ledger and sagas; every service asks for an API key whose rows are auth's;
the solver reads the catalog and migrates reruns when a provider leaves; the chat
asks the router and the sandbox runner.

`PROJECT.json` lists the hazards of this code at their lines, each with the
properties that cover it.

## 2. Modules

How handlers are cut into steps. A handler is one action where everything it
decides on is read under a lock it takes first, or written by one statement.
Otherwise it is split at the points where another session can commit: a first step
that reads and decides, a second that writes and commits. Two things the code does
throughout make this matter. `SELECT ... FOR UPDATE` without `populate_existing`
returns the object already in the SQLAlchemy session with the attributes it had; and
an update sends only the columns that differ from what was loaded. `OrmSession`
states both.

### Billing
* `SagaStateMachine` - states, transitions and the two lookups of `state_machine.py`.
* `BillingCharges` - the sagas of one user. `state` is `current_state`,
  `ledger[s][k]` the sum of the rows of kind `k`, `outbox`, `attributed` and
  `control` the other rows; `req[w]` is what a session works on and *saw*. Handlers
  that lock first (`refund_user_cancel_charge`, `confirm_topup`) are one step; the
  others are `Load`, `ReadLedger` and the action with the handler's name; `Rollback`
  is every end without a commit. Amounts are integers; the quote is any member of
  `Quotes`, bounded by the minimum and the cap of `compute_charge_amount`. Nothing
  keeps two requests for one saga apart: callers time out while billing still works,
  the reconciler repeats calls, and the code does not stop them. `overtaken` is a
  history variable: it counts, per saga, the commits that `apply` chose from a state
  the saga had left by then.
* `ChargeContract` - what billing promises: a saga is settled once for an amount
  between its floor and what was reserved, released at most once, a top-up credited
  once; a saga may become *disputed*, of which nothing more is promised.
  `BillingCharges!ImplementsContract` is the refinement: a saga is disputed from the
  first commit on it that was overtaken, and never otherwise.
* `ChargeAdmission` - `POST /charges` step by step: key look-up, demo credits,
  confirmation guard, `SagaOrchestrator.start`, key row, with keys that expire.
* `BillingKeys` - the key table shared by the subscription endpoints and legal
  inquiries; the former look the row up again and overwrite it, the latter go by
  what they read.
* `BudgetControl` - the creation of the budget's row beside settling charges and
  over the change of the month. `missed` is a history variable: a charge settled
  without seeing the row.
* `Subscriptions` - the plan of one user: activation, prorated upgrade, education
  trial, and `refill_due(as_of)`, the scheduler's catch-up loop. `periods` is a
  history variable. Time is in ticks, `Day` of them a day; months have a fixed length.

### Relayer and solver billing
* `OutboxRelayer` - one action per step of `run_poll_loop` for any number of
  relayers; `Insert` is a service's commit with a NOTIFY that reaches any subset.
* `SolverBilling` - one charge per optimization; `wire` holds calls that may arrive
  late, `row` the committed job, `draft` the reconciler's uncommitted updates. The
  reconciler fetches at most `BatchLimit` pending rows, oldest first, and rows it gave
  up stay pending: `Starved(o)` says that such rows fill the batch before row `o`.
  Billing's endpoints are atomic here: their interleavings are `BillingCharges`.

### Solver requests
* `RateLimits` (the Lua script over several windows), `ApiKeyUse` (`verify_api_key`).
* `FallbackExecution` - catalog row, audit gate, plan of attempts, the loop within
  one budget, the stored history, and the demo that stores nothing.
* `LpAlternatives` - the linear-programming engine around HiGHS (external: any
  optimal corner) and the enumeration of corners, against a reference definition.
* `IdempotentJobs` - batches, gradings, predictions and reruns, which differ in what
  an expired key means and what the loser of a race is told.
* `JobBatches` (status, progress and grading computed from changing children),
  `JobTemplates` (lineages behind two partial unique indexes), `ProviderExit`
  (voucher chains and exit notices), `CitationTracker` (a command that replaces its
  state file).

### Auth-service
`AccountRisk` (signup, consent, flags, freezes), `AccountMerge` (proposals, appeals),
`AccountAccess` (one-time passwords, keys, notifications, deletion), `DataExports`
(queue and workers, and the audit log's cursor pages), composed by `MCAccounts` over
one database. A request is what it decided to write; it may be lost before its commit.

### Capability-registry
`OrmSession`; `ProviderApplications` extended by `ProviderVersions` (ETags and
review) and `ProviderRollout` (shadow runs, summaries, stages, dashboards);
`RevenueShare` (policies, hooks, payouts, monthly batch); `CapabilityCatalog`
(vocabulary, scopes, equivalents, cache). `overlaps` counts requests that
began while another was being handled, so that a property can say which guarantees
need clients that wait.

### Chat
`ChatContext` (what a message carries, and the schemas' validators),
`LlmRouter`, `ChatPipeline` (the sandbox runner's policy and executor, and the stages
in the order of `_build_internal_beta_response`; a reply may be anything), `ChatStream`
(events, cursors, reconnects).

### MC modules and mutants
`MCBillingCharges`, `MCBillingAccounts`, `MCProviderOnboarding`,
`MCCapabilityCatalog`, `MCAccounts`, `MCSolverRequests` and `MCChat` give constants
their values and compose the parts of a service. Parts that share no row are
*stories*: a variable chosen in the initial state says which part a behaviour
follows, because their product would multiply states and meet in no property. Where a
composition is proved about as well, `Spec` is the whole of it, from any initial state
and with every step, and `MCSpec` the behaviours TLC follows: those of `Spec` that
begin in the states and keep to the stories of the instance.
Operators commented *Mutant* are the faulty variants with which each property is
shown to be breakable; nothing else uses them.

## 3. Runs

| run | instance | distinct states |
|---|---|---|
| `billing_overlap` | two charges and a top-up, two unsynchronised sessions; at most 2 overtaken commits | 1 650 410 |
| `billing_double_charge` | one charge, two sessions; must be violated, see 6 | - |
| `outbox_relayer` | 3 rows (one poison), 2 relayers, batch of 2, 2 faults | 42 206 |
| `solver_billing` | a synchronous and an asynchronous job, 2 retries, a batch of one row, a crash | 220 864 |
| `solver_given_up` | the same jobs, a batch of both, no crash; must be violated, see 6 | - |
| `billing_accounts` | 11 ticks of 4-tick months; 2 users with one key; 2 budgets over 2 months | 1 351 542 |
| `provider_onboarding` | 2 workers, 3 samples, up to 2 overlaps | 827 866 |
| `revenue_share` | 2 workers, 2 hooks, 2 ratios, 1 overlap | 611 360 |
| `capability_catalog` | 2 workers, 3 writes, 2 tags that may alias each other, a Redis fault | 539 825 |
| `accounts` | 2 workers, 2 users, 2 exporters, 1 overlap | 904 390 |
| `solver_requests` | two concurrent requests against each part | 1 555 407 |
| `chat` | every reply at every stage; two lost connections, one changed answer | 593 646 |

What they check. A property that is a conjunction names its parts; the comment of
each part, in its module, says it in full.

* `billing_overlap`, whatever overlaps: `TopupCreditedOnce` and `LedgerMatchesOutbox`
  without condition; `DebitsBoundedByOvertaking` (one debit more at most for each
  overtaken commit), `LedgerMatchesState`, `TerminalStickiness` and
  `ImplementsContract` say what holds of a saga as long as no commit on *it* was
  overtaken, which requests on it that do overlap need not bring about;
  `BudgetEnforced` holds whatever is stale until a saga is debited twice.
* `outbox_relayer`: `SentWasPublished`, `DuplicatesNeedFaults`, `EveryRowSent`.
* `solver_billing`: `ChargedOnlyIfSolved`, `ReservationNotForgotten`,
  `RecordedMeansSettled`, `EveryFailureDecided`.
* `billing_accounts`: `EveryPeriodRefilledOnce` (`PeriodsTile`,
  `RefilledOncePerPeriod`), `EntitlementsBounded` (`TrialOnce`, `UpgradeWithinPro`),
  `AdmissionSound` (`AnsweredWithOwnCharge`, `DemoCreditsOnce`,
  `InquirySubmittedOnce`), `BudgetPausesAtNextEvaluation`, `TrialEnds`.
* `provider_onboarding`: `VersionReviewSound` (`EtagIdentifiesContent`,
  `ApprovedAsSubmitted`, `VersionNeverDrifts`), `RolloutEarned`
  (`VerdictMatchesSamples`, `SampleCountBounded`, `RolloutHasCleanSummary`,
  `CopiedProviderAgrees`), `TimelineExplainsRollout`, `DaysAddUp`.
* `revenue_share`: `RevenueAccounted` (`SharesAddUp`, `OneEntryPerHook`,
  `DashboardAccountsForBatch`, `BatchStaysReadable`, `ExportedAsReviewed`).
* `capability_catalog`: `CatalogResolvable` (`ResolutionIsIdempotent`,
  `StoredTagsAreTerms`, `CapabilitiesCanBeShown`, `EquivalenceIsMutual`),
  `CacheIsCoherent`, `CacheBecomesFresh`.
* `accounts`: `FreezesAndMergesSound` (`SomeoneRemains`, `FlaggedAccountsAreFrozen`,
  `AcceptedAppealsWereMerged`), `AccessSound` (`RetiredAccountsHoldNoKey`,
  `MinorsHaveConsent`, `OtpOpensOneSession`, `OneEventPerNotification`),
  `ExportsAndPagesSound` (`ErasedProfileIsExplained`, `ExportAnnouncedOnce`,
  `OneActiveExport`, `PagesAreComplete`).
* `solver_requests`: `AdmissionIsJustified` (`LimitPerWindow`, `RetryAfterIsHonest`,
  `ScoreHasEvidence`), `ExecutionSound` (`OneBudget`, `OnlyPublishedExecuted`,
  `HistoryExplainsResult`), `JobsSound` (`OneJobPerKey`, `AnswersAreTheCallers`,
  `GradesStayJustified`), `LineagesSound` (`VersionsAreFinal`, `OneActiveRoot`,
  `LineageIsSound`, `RerunsStayEquivalent`, `VoucherLineage`, `ExitNoticedOnce`),
  `ReportedOnce` (`NoCitationLost`, `OneIssuePerPaper`, `AlternativesAreBest`),
  `ObservedMovesForward` (`WatchedBatchMovesForward`, `UserScoreNeverFalls`).
* `chat`: `PipelineSound` (`ConfirmOnlyWhenChecked`, `SandboxRunsOnlyVetted`,
  `NoSecretSent`, `DegradesGracefully`, `WhatIfDiffHonest`), `StreamSound`
  (`StreamHasNoGapOrRepeat`, `DoneMeansComplete`), `StreamEnds`.

Several parts say "as long as no requests overlap" or name the race that is
excepted: the code decides on a row it loaded before another request changed it, and
the guarantee needs clients that wait for each other's answers. What is stated without
such a condition holds however handlers interleave.

Why the bounds are enough to be interesting. A stale read needs two sessions on one
row. Amounts 3 and 2 with `MinCharge` 1 give a quote below the minimum, one in
between and one above the reservation (`billing_double_charge`). `billing_overlap`
follows three kinds of behaviour: two sessions on one charge, two sessions on one
top-up, and two charges beside each other; the quotes are one below the minimum and
one above the reservation, and a commit may be overtaken twice, once more than it
takes to debit twice or to move a terminal saga. Its budget lies between the amounts. Three rows
with a batch of two make a full and a partial batch; two faults allow a publish
error followed by a crash. Two retries distinguish "counted" from "given up",
and a batch of one row lets a row that was given up starve the other. Eleven
ticks hold a trial, its fallback and a further month, or a scheduler that is two
months late. One key and two users make a key that expires and changes hands; two
months and a limit of two or three charges let a session begin before and commit
after the turn. Three samples exceed what an evaluation asks for. Two ratios that do
not divide the amount make rounding visible. Two tags can be each other's aliases.
Two flags reach the freeze threshold. Windows of different length with a clock of
seven let a request leave one and stay in the other. Two lost connections allow a
reconnect to a changed answer and another after it.

`UpgradeWithinPro` is checked with `Skew = 0`. With `Skew = 1` TLC refutes it: a
scheduler whose clock is ahead has advanced the period, and the remaining days of
the new period then outnumber its days. No document promises a bound.

Deadlock checking is off only where the system may stop: everything is decided, or a
bound (clock, number of records, faults) is reached.

## 4. Fairness

* `OutboxRelayer!FairSpec`: weak fairness of each relayer's loop. The coroutine
  awaits only a wait with a timeout and database or Redis calls that return or raise;
  after an exception the loop starts again. Faults are bounded: a system that fails
  for ever delivers nothing.
* `SolverBilling!FairSpec`: weak fairness of the reconciler, a cron job, and of
  `Timeout`: the HTTP client gives up after two seconds. Nothing is assumed about
  billing or the network: calls may be lost for ever, so the property says *decided*,
  not *settled*. A row that is starved from some time on is excepted: fetching the
  oldest rows first is not fair to the younger ones (6).
* `billing_accounts`: time passes, and the scheduler's refill-due runs with the
  current time. `TrialEnds` concerns trials that end before the last tick.
* `capability_catalog`: handlers end, reads that were started store their answer, and
  cached entries expire (`SETEX`). `CacheBecomesFresh` concerns the time after the
  last write.
* `chat`: a connection that is open delivers or ends (weak), and the reader, which is
  external (any client of the event-stream protocol, resuming with the last id it has),
  reconnects if it can do so again and again (strong). Lost connections are bounded.

No symmetry set is used in a run with a temporal property that symmetry could break.

## 5. Proofs

All theorems are for every value of the constants allowed by the named assumptions.

`BillingChargesProofs`

* `TypeCorrect`. `TypeOK` is inductive as it stands.
* All the others are about the unrestricted `Spec`, with any number of unsynchronised
  sessions on any saga; no theorem assumes anything of the callers. The argument
  classifies steps once (`StepKinds`): a step leaves the money alone, or it is one of a
  handful of postings on one saga, each described by a lemma, and `Moves` says what a
  commit knows of the state it leaves: that it is the one the trigger starts from, or
  that the commit was overtaken and is counted.
* `TopupSafe`, `DualWriteSafe` are then short case splits.
* `ReconciliationSafe` is not inductive alone: what a commit posts depends on what the
  request read. `MoneyInv` is `Reads` (what a request in flight knows of a saga is
  still so, or the saga has left the state it saw) and `Books` (per saga that was not
  overtaken, which rows exist in which state).
* `DebitsBounded` counts debits by their events, through `DualWriteSafe`:
  `DebitsCounted` says that the debits of a saga and the one a saga that is not settled
  still has to make are at most one and the overtaken commits. `TerminalSafe` needs no
  invariant beyond types.
* `BudgetAlwaysEnforced`: every handler that can raise the month's spend evaluates the
  budget in the same commit, and the others lower it or leave it (`BudgetSteps`). The
  last part is the hard one, because rolling a charge back would raise the spend if the
  partial refund it reverses, read before the lock, exceeded the amount.
  `PartialsWithin` says that it cannot as long as a saga is debited once: partial
  refunds only grow, one comes with each debit, and what a request read is no more than
  what there is. The spend is a sum over all sagas, and
  the provers have no induction: `SmallestSet` (a family of finite sets has a smallest
  member) takes its place. With it `SumExists` says that the recursion of
  `MapThenSumSet` has a solution, `SumDiffers` what a change of one term does, and
  `SpendIsSum` that the model's operator is such a sum. The sagas of a user are
  assumed to be finitely many.

`OutboxRelayer`

* `AtLeastOnce`, `MultiRelayerSafe`, `DuplicatesBounded` follow from `RelayerInv`:
  `TypeOK`, `Locks` (locked rows are unsent and locked once) and `Counts` (how often a
  row was published, by where it is). `Counts` is needed because the bound on
  duplicates is not inductive without knowing that the row about to be published has
  one publication to spare.

`SolverBillingProofs`

* `ChargedOnlyIfSolvedAlways`, `ReservationNotForgottenAlways`,
  `RecordedMeansSettledAlways`, for any number of jobs, retries and crashes. None is
  inductive: a call on the wire may arrive after everything else has moved on. `IInv`
  says what every call on the wire, every draft of the reconciler and every committed
  row may claim, given what billing-service has done with the charge.

`BillingAccountsProofs`, about the composed model `AccountSpec`

* `AdmissionSafe`: `AdmissionInvariant` adds that a key's row names a charge of its own
  user, key and body, and that a session about to commit either holds such a charge or
  is alone with its key (`CommittersAreAlone`). `KeysInvariant` does the same for legal
  inquiries, for keys that never lapsed: what a handler in flight knows
  (`SessionsKnowTheKey`) and what the table says (`RowsPointToTheirInquiry`).
* `BudgetPauses`: the property does not see the rows sessions hold uncommitted.
  `BudgetInvariant` adds that at most one session holds an evaluated row, that this row
  is paused if what its session saw reaches the budget, and that as long as no charge
  went unseen the session knows the month's spend, or the month is new.
* `PlansSafe` and `EntitlementsSafe` carry the two results on plans over to the
  composed model.
* `PeriodsRefilledOnce`, `EntitlementsAlwaysBounded`, of `Subscriptions` alone, for any lengths of months and
  trials and any prices. `refill_due` writes the rows of all elapsed periods in one step
  with `FlattenSeq`. The lemmas first give these rows in closed form (how many there
  are, and what the row of the k-th period says); a least counterexample, from the
  well-foundedness of the numbers, takes the place of induction. `PlansInvariant` then
  says that the refills and the periods are the same set, and where the current period
  ends. The hypotheses are needed: with `Skew = Trial` the scheduler can
  refill a period that has not begun, a trial replaces the plan, and the plan after the
  trial starts with the same period and refills it again; with `Skew = 1` an upgrade can
  exceed a month of Pro (TLC refutes both). `as_of` is a parameter of the request, so the code
  does not bound it.

`SolverRequestsProofs`, about the composed model `MCSpec`

* `JobsSafe`. `JobsInvariant`: a key's row and the job that stands for it point to each
  other; of the requests that have written a key's row and not ended there is one at
  most, and it either deletes the row it found expired or found none (the unique index
  and the row lock). `GradingInvariant`: an item that was graded on a completed
  submission stays justified because completed is final.
* `LineagesSafe`. `TemplatesInvariant`: what a request is about to insert was derived
  from a committed row, a request that has numbered its version holds the advisory lock
  of the lineage, in which no number is as large, and a root about to be committed is
  the only one of its name. That the lineage has a largest number, and that among the
  candidates of a migration one comes first, follows from well-foundedness.
  `VouchersInvariant`: every voucher has the task and the solver of the provider it
  locks, which are those of the first. `ExitInvariant`: the users an exit call inserts
  requests for have none and are no other call's, and the users it is done with have
  one or will get one from it; the count of an announcement needs a finite set of users.
* `AdmissionAlwaysJustified`. The limit counts requests in an interval of readings, and
  the sorted set knows only those it still holds. `RateInvariant` says that a request a
  set does not hold any more was read a window ago, that one it holds keeps the set
  from expiring for a window, and that fewer than the limit will still be in the window
  named by the last refusal when its time has come. A request that is let in then finds
  every request near it in the set, and the set held less than the limit.
  `UseInvariant`: what a request has read of a key, or will write, is already covered
  by the user's score and the evidence against the key; while no two requests with a
  key overlap it is what the key has. `RiskScoreNeverFalls` follows from it.
* `ExecutionAlwaysSound`. `RouteInvariant`: the plan names public algorithms only, what
  was tried is the plan's beginning, every attempt was given what the ones before it
  left of the budget, and whether the request is exhausted can be read off the last
  attempt.

`CapabilityCatalogProofs`

* `CatalogAlwaysResolvable` holds however handlers overlap. `CatalogResolvable` is not
  inductive: a capability commits with a provider and tags its handler looked up before.
  `CatalogInv` adds what a handler in flight may still rely on (`PendingSound`: a
  capability about to be committed names a provider that exists and is effective, and
  its tags are existing terms) to the same statement about stored rows (`StoredSound`);
  a commit keeps both because no handler removes a provider or a term. That the
  equivalence of two capabilities is mutual is a lemma about `rejection`, the first of
  the reasons that apply: those that compare the two rows read the same from either
  side, and the others are the ones the property excepts.
* `CacheAlwaysCoherent`: as long as nothing overlaps and Redis answers, `CacheInv` says
  that an entry is absent or what the database says, that a read in flight is about to
  store what the database says, and that the cache is empty while a write is in flight.
  The last part is the one a missing invalidation breaks.

`ProviderOnboardingProofs`

* `VersionReviewAlwaysSound`, `TimelineAlwaysExplainsRollout`, `RolloutAlwaysEarned`.
  `OnboardingInv` holds however requests overlap: the types of all rows and copies, that
  no run stores more samples than asked for, and that a summary which let a rollout
  through was clean. `Serial` holds as long as nothing overlaps: the copy a session
  loaded is the stored row, so that a flush writes what the handler decided. From that
  follow the links between the rows (evaluation, run and rollout name the applicant's
  provider), the history of the rollout as a chain from its creation to its present
  stage, and the verdict as a function of the stored samples. That the dashboard, which
  computes the thresholds a second time, shows no violation rests on a lemma that the two
  computations agree over any window that leaves no sample out.

`AccountsProofs`, about the composed model `Spec` of `MCAccounts`

* `FreezesAndMergesAlwaysSound`, `AccessAlwaysSound`. However requests overlap,
  `Sessions` says what a request in flight may write (rows of the right user, a consent
  for the person who signs up, a proposal that does not name its requester) and `Tables`
  that appeals point to their user's proposals, that a confirmed consent belongs to one
  registered account, and that each notification has one event. As long as nothing
  overlaps, `Serial` adds that what the one request in flight has decided on is still so:
  nobody it is about to merge is retired, the pair of passwords it presents is unused,
  the rules it counted are the rules of the account. `SomeoneRemains` is proved in the
  form `NoCycle`: among any set of accounts one is not merged into the set; a merge keeps
  this because its primary is not retired.

The contract. `ContractImplemented` (in `BillingChargesProofs`) is the refinement of
`ChargeContract` by the unrestricted `Spec`: a commit that was overtaken disputes its
own saga and changes no other (`DisputeStep`); any other step changes the phase of one
saga along the contract, or nothing of it, because `Books` ties the ledger to the state.

Only model-checked:

* Liveness (`EveryRowSent`, `EveryFailureDecided`, `TrialEnds`, `CacheBecomesFresh`,
  `StreamEnds`): the prover does not handle fairness.
* `ReportedOnce`: `OneIssuePerPaper` and `NoCitationLost` rest on folds and filters of
  sequences, and `AlternativesAreBest` compares an enumeration with a reference
  definition. `RevenueAccounted` and `WatchedBatchMovesForward` (the other part of
  `ObservedMovesForward`) rest on sums over sets that change with the state; the lemmas
  on sums of `BillingChargesProofs` would carry over, but are not repeated there. Each
  is checked over the values of its instance.
* `DaysAddUp` is a sum over the days of a dashboard. `ExportsAndPagesSound` rests on the
  sorted sequence of a set (`SetToSortSeq`), whose existence for every set is induction.
* `PipelineSound` and `StreamSound` are conjunctions with parts of these kinds; their
  other parts are not proved either.

## 6. Disagreements and observations

Two disagreements have a run of their own, which TLC must find violated;
`PROJECT.json` quotes the lines.

* `billing_double_charge`: two requests on one charge both apply `service_success`,
  because the locked row is not re-read (AC10 says no double charge). In the same way a
  terminal saga is moved on, against ADR-0001, I3.
* `solver_given_up`: a row the reconciler gave up is fetched again by its next run,
  because `_mark_given_up` does not raise the count `_fetch_pending` asks for (the
  story says that the reconciler stops touching it). As many such rows as a batch
  holds keep every younger row from being fetched: that is the exception `Starved` in
  `EveryFailureDecided`, without which TLC refutes it.

The models show further behaviour a maintainer may want to know. These are
consequences of the code as modelled, without a run.

Billing and relayer:
* admitted charges may together overdraw the balance (`routes.py:1885`, story 5.A.2);
* rows that cannot be published fill every batch; the retry limit of the story is not
  implemented (relayer `db.py:54`);
* a late finalize of a lost attempt charges a job that a second attempt stores as
  failed (`solver-orchestrator/routes.py:2697`);
* a charge whose key has expired meets the unique index on
  `saga_instances.idempotency_key` outside the `try` and fails with 500; the same
  index keeps the `IntegrityError` branch of `start` from returning another tenant's
  saga;
* a subscription request may overwrite a live key row of another request; two legal
  requests that both read an expired row both submit, and the row left may pair one's
  answer with the other's user;
* two overlapping first requests of a user both write the demo credits;
* when two finalizes of one charge overlap with cancellations, the second cancellation
  reverses the partial refunds of the first once more; the spend rises without an
  evaluation, so a budget may be reached and not paused (the exception in
  `BudgetEnforced`);
* `refill-due` takes `as_of` from the request (`routes.py:1488`) without comparing it
  with the clock.

Accounts and registry:
* two overlapping flags each count one rule and freeze nobody; a stale review can put
  an accepted proposal back to approved;
* an API key whose creation overlaps with the deletion or the merge of its account
  (`auth-service/routes.py:996`) is committed after the keys were revoked;
* a rollout that is advanced and paused or cancelled at once keeps the stage, and the
  history entry, of the later commit's stale copy
  (`capability-registry/routes.py:4636`);
* overlapping requests can leave a version update approved with content that was not
  reviewed, and a batch whose stored totals no longer add up;
* a read that started before a write may store its old answer after the write dropped
  the cache; it stays until its time to live ends.

Solver:
* overlapping uses of a key may record an anomaly that no score counts;
* the enumeration of corners stops at `MAX_TOP_K_VERTEX_COMBINATIONS` and may then
  miss better alternatives;
* the citation tracker's state file keeps only what the last run saw, so that a source
  that fails once makes the next run open its papers again; a run without
  `--create-linear` writes the state and opens nothing.

Chat:
* some inputs that a preview's schema accepts fail a later schema and end in a 500:
  validation errors whose text matches the wider leak pattern, a vehicle count moved
  past the largest number, a completion that reads as a secret;
* the sandbox also runs when the human review has been escalated; the availability of
  the fallback alias is not checked;
* a client that reconnects after the answer changed gets a splice of two answers, and a
  cursor past the end gets heartbeats only.

## 7. Not modelled

* The web application and SDKs: user interface and thin HTTP clients in TypeScript.
* Governance scripts and tools: offline validators of documents and manifests.
* Read-only views: listings and their filters, invoices, trends, estimates, legal
  pages, health endpoints, metrics.
* HiGHS and the forecasting engines (numerical libraries), the reports of the bitwise
  audit, cryptography (signing and hashing), the operating system's isolation of a
  sandbox, the wording of mails, events and prompts.
* Calendar months of different length; the key of `create_topup`; rows whose retry
  context cannot be parsed, which the reconciler gives up without a call.
* Field validation of request bodies, except the chat's contracts, whose failure ends
  a request half way.

## 8. Plan

Built: all modules of section 2, and the proofs of section 5. Worth doing next, in
this order:

1. Proofs: `StreamHasNoGapOrRepeat`, `ExportedAsReviewed` and the other parts of the
   remaining properties that are no induction over data; the sums of `RevenueShare`.
2. Composition: `SolverBilling` with `BillingCharges` requests instead of atomic
   endpoints, to show which overlaps the solver itself causes.
3. Requests that overlap: bounds for keys of retired accounts and for the history of a
   rollout in the manner of `overtaken`, in place of "as long as no requests overlap".
4. The chat's client in the browser, whose fallback from stream to post repeats a
   message.
