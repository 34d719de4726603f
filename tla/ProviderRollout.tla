--------------------------- MODULE ProviderRollout ---------------------------
(***************************************************************************)
(* From an evaluation request to live traffic: the shadow validation run,  *)
(* its samples, the summary that decides it, the gradient rollout that     *)
(* needs a clean summary, and the two dashboards that report on them.      *)
(***************************************************************************)
EXTENDS ProviderApplications

CONSTANTS
    Baselines,      \* values of baseline_provider_id
    SampleIds,      \* values of sample_id
    Samples,        \* bodies of samples
    Classes,        \* the required coverage classes
    Evidence,       \* values of a rollout's evidence_refs
    TicksPerDay,    \* ticks of observed_at in a day
    MinSamples,     \* _SHADOW_MIN_SAMPLE_COUNT
    MinDays,        \* _SHADOW_MIN_OBSERVED_DAYS
    MinPerClass,    \* _SHADOW_MIN_SAMPLES_PER_COVERAGE_CLASS
    Quantum,        \* ratios are counted in 1 / Quantum
    MinSuccess, MaxDeviation, MaxLatencyRatio,  \* the other thresholds, in 1 / Quantum
    MaxHistory      \* bound: the entries of a stage history

Stages == <<0, 5, 50, 100>>

ASSUME SampleAssumption ==
    Samples \subseteq [class : Classes, at : Nat, ok : BOOLEAN, timed_out : BOOLEAN,
                       deviation : Nat, provider_ms : Nat \ {0}, baseline_ms : Nat \ {0}]
ASSUME ThresholdAssumption ==
    /\ {TicksPerDay, MinSamples, MinPerClass, Quantum} \subseteq Nat \ {0}
    /\ {MinDays, MinSuccess, MaxDeviation, MaxLatencyRatio, MaxHistory} \subseteq Nat

VARIABLES
    run,      \* the provider_shadow_validation_runs row
    samples,  \* the provider_shadow_validation_samples rows of the run
    rollout   \* the provider_gradient_rollouts row

rolloutVars == <<run, samples, rollout>>

NoSummary == [count |-> 0, reasons |-> {"not finalized"}]
NoSample == [status |-> "none"]
NoRun == [status |-> "none", provider |-> NoProvider, count |-> 0, baseline |-> "none",
          summary |-> NoSummary]
NoRollout == [status |-> "none", provider |-> NoProvider, stage |-> 0, history |-> <<>>,
              summary |-> NoSummary, evidence |-> "none"]

RolloutInit ==
    /\ run = NoRun
    /\ samples = [i \in SampleIds |-> NoSample]
    /\ rollout = NoRollout

-----------------------------------------------------------------------------
(* The summary of a run, from the samples that are stored. *)
Stored(s) == {i \in SampleIds : s[i] # NoSample}

_sample_passed(x) == x.ok /\ ~x.timed_out /\ x.deviation <= MaxDeviation

(* x / y in whole quanta, half to even. *)
Quantized(x, y) ==
    LET q == x \div y
        r == 2 * (x % y)
    IN  IF r > y \/ (r = y /\ q % 2 = 1) THEN q + 1 ELSE q

_decimal_ratio(x, y) == IF y <= 0 THEN 0 ELSE Quantized(x * Quantum, y)

(* The value at the 95% rank of v over ids, 0 over none. *)
_nearest_rank_p95(ids, v) ==
    LET n == Cardinality(ids)
        rank == (95 * n + 99) \div 100
    IN  IF n = 0 THEN 0
        ELSE Min({v[i] : i \in {j \in ids : Cardinality({k \in ids : v[k] <= v[j]}) >= rank}})

DaySpan(s) ==
    IF Stored(s) = {} THEN 0
    ELSE (Max({s[i].at : i \in Stored(s)}) - Min({s[i].at : i \in Stored(s)})) \div TicksPerDay

SuccessRate(s) ==
    _decimal_ratio(Cardinality({i \in Stored(s) : _sample_passed(s[i])}), Cardinality(Stored(s)))

AverageDeviation(s) ==
    IF Stored(s) = {} THEN 0
    ELSE Quantized(MapThenSumSet(LAMBDA i : s[i].deviation, Stored(s)), Cardinality(Stored(s)))

Missing(s) ==
    {c \in Classes : Cardinality({i \in Stored(s) : s[i].class = c}) < MinPerClass}

TooSlow(s) ==
    LET provider == _nearest_rank_p95(Stored(s), [i \in Stored(s) |-> s[i].provider_ms])
        baseline == _nearest_rank_p95(Stored(s), [i \in Stored(s) |-> s[i].baseline_ms])
    IN  baseline <= 0 \/ Quantized(provider * Quantum, baseline) > MaxLatencyRatio

Reason(name, holds) == IF holds THEN {name} ELSE {}

FailedReasons(count, s) ==
    LET n == Cardinality(Stored(s)) IN
    UNION {Reason("evaluation_sample_count_below_required", count # MinSamples),
           Reason("sample_count_mismatch", n # count \/ n # MinSamples),
           Reason("observed_day_span_below_threshold", DaySpan(s) < MinDays),
           Reason("coverage_class_missing", Missing(s) # {}),
           Reason("success_rate_below_threshold", SuccessRate(s) < MinSuccess),
           Reason("average_deviation_above_threshold", AverageDeviation(s) > MaxDeviation),
           Reason("p95_latency_ratio_above_threshold", TooSlow(s))}

(* Mutant: the average deviation is not looked at. *)
summary_without_deviation(count, s) ==
    [count |-> Cardinality(Stored(s)),
     reasons |-> FailedReasons(count, s) \ {"average_deviation_above_threshold"}]

_shadow_summary_from_samples(count, s) ==
    [count |-> Cardinality(Stored(s)), reasons |-> FailedReasons(count, s)]

(* The KPI dashboard computes everything from the samples again, those of  *)
(* a window of time.                                                       *)
_kpi_filter_samples_by_window(s, from, to) ==
    [i \in SampleIds |->
        IF s[i] # NoSample /\ from <= s[i].at /\ s[i].at <= to THEN s[i] ELSE NoSample]

P95Ratio(s) ==
    LET provider == _nearest_rank_p95(Stored(s), [i \in Stored(s) |-> s[i].provider_ms])
        baseline == _nearest_rank_p95(Stored(s), [i \in Stored(s) |-> s[i].baseline_ms])
    IN  IF baseline > 0 THEN Quantized(provider * Quantum, baseline) ELSE 0

_kpi_metrics(s) ==
    [sample_count  |-> Cardinality(Stored(s)),
     success_count |-> Cardinality({i \in Stored(s) : _sample_passed(s[i])}),
     success_rate  |-> SuccessRate(s),
     deviation     |-> AverageDeviation(s),
     empty         |-> Stored(s) = {},
     p95_ratio     |-> P95Ratio(s)]

_kpi_coverage_counts(s) ==
    [c \in Classes |-> Cardinality({i \in Stored(s) : s[i].class = c})]

_kpi_threshold_violations(metrics, coverage, span) ==
    UNION {Reason("sample_count_mismatch", metrics.sample_count # MinSamples),
           Reason("observed_day_span_below_threshold", span < MinDays),
           Reason("coverage_class_missing", \E c \in Classes : coverage[c] < MinPerClass),
           Reason("success_rate_below_threshold", metrics.success_rate < MinSuccess),
           Reason("average_deviation_above_threshold", metrics.deviation > MaxDeviation),
           Reason("p95_latency_ratio_above_threshold",
                  metrics.empty \/ metrics.p95_ratio > MaxLatencyRatio)}

_kpi_run_metric(s) ==
    LET metrics == _kpi_metrics(s) IN
    [metrics    |-> metrics,
     violations |-> _kpi_threshold_violations(metrics, _kpi_coverage_counts(s), DaySpan(s))]

(* Mutant: a sample at midnight counts for the day before as well. *)
points_with_midnight(s) ==
    [day \in {s[i].at \div TicksPerDay : i \in Stored(s)} |->
        _kpi_metrics([i \in SampleIds |->
            IF i \in Stored(s) /\ s[i].at \in day * TicksPerDay .. (day + 1) * TicksPerDay
            THEN s[i] ELSE NoSample])]

(* The days with samples, each with its own metrics. *)
_kpi_timeline_points(s) ==
    [day \in {s[i].at \div TicksPerDay : i \in Stored(s)} |->
        _kpi_metrics([i \in SampleIds |->
            IF i \in Stored(s) /\ s[i].at \div TicksPerDay = day THEN s[i] ELSE NoSample])]

OfProvider(row, provider) == Exists(row) /\ row.provider = provider

_kpi_rollout_summary(provider) ==
    [total_rollouts |-> IF OfProvider(rollout, provider) THEN 1 ELSE 0,
     highest_stage  |-> IF OfProvider(rollout, provider) THEN rollout.stage ELSE 0]

(* What a provider is shown of its run in a window of time. *)
get_provider_kpi_dashboard(provider, from, to) ==
    LET mine == OfProvider(run, provider)
        inside == IF mine THEN _kpi_filter_samples_by_window(samples, from, to)
                  ELSE [i \in SampleIds |-> NoSample]
    IN  [run_metrics     |-> IF mine THEN <<_kpi_run_metric(inside)>> ELSE <<>>,
         aggregate       |-> _kpi_metrics(inside),
         timeline        |-> _kpi_timeline_points(inside),
         rollout_summary |-> _kpi_rollout_summary(provider)]

-----------------------------------------------------------------------------
(* The checks every route below an evaluation begins with. *)
_resolve_shadow_evaluation ==
    /\ application.status = "submitted"
    /\ evaluation.status \in {"requested", "queued"}

Finalized == {"passed", "failed"}

ProviderShadowRunUpsertRequest ==
    [status : {"draft", "running", "cancelled"}, baseline : Baselines]

CreatedRun(body) ==
    [status |-> body.status, provider |-> evaluation.provider, count |-> evaluation.count,
     baseline |-> body.baseline, summary |-> NoSummary]

(* A run that is over is not written again. *)
upsert_provider_shadow_run(w, body) ==
    /\ _resolve_shadow_evaluation
    /\ run.status \in {"none", "draft", "running"}
    /\ run.status = "running" => body.status # "draft" /\ body.baseline = run.baseline
    /\ Holds(w, "run", run,
             IF Exists(run) THEN [run EXCEPT !.status = body.status, !.baseline = body.baseline]
             ELSE CreatedRun(body))
    /\ UNCHANGED <<application, evaluation, rolloutVars>>

CommitRun(w) ==
    /\ req[w].table = "run"
    /\ Insertable(run, req[w].loaded)
    /\ run' = Flushed(run, req[w].loaded, req[w].new)
    /\ Done(w)
    /\ UNCHANGED <<application, evaluation, samples, rollout>>

upsert_provider_shadow_sample(w, i, x) ==
    /\ _resolve_shadow_evaluation
    /\ run.status = "running"
    /\ Holds(w, "sample", run, [id |-> i, sample |-> x])
    /\ UNCHANGED <<application, evaluation, rolloutVars>>

RoomForSample(count, s) == Cardinality(Stored(s)) < count

(* The samples are read under the run's lock, so they are the stored ones;  *)
(* the run is the copy loaded before.                                       *)
CommitSample(w) ==
    /\ req[w].table = "sample"
    /\ samples[req[w].new.id] = NoSample => RoomForSample(req[w].loaded.count, samples)
    /\ samples' = [samples EXCEPT ![req[w].new.id] = req[w].new.sample]
    /\ Done(w)
    /\ UNCHANGED <<application, evaluation, run, rollout>>

finalize_provider_shadow_run(w) ==
    /\ _resolve_shadow_evaluation
    /\ run.status = "running"
    /\ Holds(w, "finalize", run, [id |-> "all"])
    /\ UNCHANGED <<application, evaluation, rolloutVars>>

(* The samples, again, are read under the lock. *)
CommitFinalize(w) ==
    LET loaded == req[w].loaded
        summary == _shadow_summary_from_samples(loaded.count, samples)
        new == [loaded EXCEPT !.summary = summary,
                              !.status = IF summary.reasons = {} THEN "passed" ELSE "failed"]
    IN
    /\ req[w].table = "finalize"
    /\ run' = Flushed(run, loaded, new)
    /\ Done(w)
    /\ UNCHANGED <<application, evaluation, samples, rollout>>

-----------------------------------------------------------------------------
CleanPassedRun(r) == r.status = "passed" /\ r.summary.reasons = {}

CreatedRollout(evidence) ==
    [status |-> "draft", provider |-> run.provider, stage |-> 0, history |-> <<>>,
     summary |-> run.summary, evidence |-> evidence]

HoldsRollout(w, new) ==
    /\ Holds(w, "rollout", rollout, new)
    /\ UNCHANGED <<application, evaluation, rolloutVars>>

upsert_provider_rollout(w, evidence) ==
    /\ _resolve_shadow_evaluation
    /\ CleanPassedRun(run)
    /\ rollout.status \in {"none", "draft"}
    /\ HoldsRollout(w, IF Exists(rollout) THEN [rollout EXCEPT !.evidence = evidence]
                       ELSE CreatedRollout(evidence))

_next_rollout_stage(stage) ==
    Stages[1 + (CHOOSE k \in 1..Len(Stages) - 1 : Stages[k] = stage)]

(* The rollout after an action, with its entry in the stage history. *)
_append_stage_history(action, stage, to) ==
    [rollout EXCEPT !.status = to, !.stage = stage,
                    !.history = Append(@, [action |-> action, stage |-> stage,
                                           from |-> rollout.status, to |-> to])]

Resolved ==
    /\ _resolve_shadow_evaluation
    /\ Exists(run) /\ Exists(rollout)
    /\ Len(rollout.history) < MaxHistory

(* Mutant: a rollout can be advanced after it was cancelled. *)
advance_cancelled_rollout(w) ==
    /\ Resolved
    /\ rollout.status \in {"draft", "active", "paused", "cancelled"}
    /\ rollout.stage < 100
    /\ LET stage == _next_rollout_stage(rollout.stage) IN
       HoldsRollout(w, [rollout EXCEPT !.status = "active", !.stage = stage])

advance_provider_rollout(w) ==
    /\ Resolved
    /\ rollout.status \in {"draft", "active", "paused"}
    /\ rollout.stage < 100
    /\ LET stage == _next_rollout_stage(rollout.stage) IN
       HoldsRollout(w, _append_stage_history("advance", stage,
                                             IF stage = 100 THEN "completed" ELSE "active"))

pause_provider_rollout(w) ==
    /\ Resolved
    /\ rollout.status = "active" /\ rollout.stage \in {5, 50}
    /\ HoldsRollout(w, _append_stage_history("pause", rollout.stage, "paused"))

cancel_provider_rollout(w) ==
    /\ Resolved
    /\ rollout.status \in {"draft", "active", "paused"}
    /\ HoldsRollout(w, _append_stage_history("cancel", rollout.stage, "cancelled"))

CommitRollout(w) ==
    /\ req[w].table = "rollout"
    /\ Insertable(rollout, req[w].loaded)
    /\ rollout' = Flushed(rollout, req[w].loaded, req[w].new)
    /\ Done(w)
    /\ UNCHANGED <<application, evaluation, run, samples>>

RolloutNext(w) ==
    \/ \E body \in ProviderShadowRunUpsertRequest : upsert_provider_shadow_run(w, body)
    \/ CommitRun(w)
    \/ \E i \in SampleIds, x \in Samples : upsert_provider_shadow_sample(w, i, x)
    \/ CommitSample(w)
    \/ finalize_provider_shadow_run(w)
    \/ CommitFinalize(w)
    \/ \E e \in Evidence : upsert_provider_rollout(w, e)
    \/ advance_provider_rollout(w)
    \/ pause_provider_rollout(w)
    \/ cancel_provider_rollout(w)
    \/ CommitRollout(w)

-----------------------------------------------------------------------------
(* The points the route-share dashboard draws for the rollout. *)
_route_share_timeline_points(r) ==
    << [action |-> "created", stage |-> 0, from |-> "none", to |-> "draft"] >> \o r.history

(* What a provider is shown of its rollout, over all of its time. *)
get_provider_route_share_dashboard(provider) ==
    LET mine == OfProvider(rollout, provider)
    IN  [total_rollouts |-> IF mine THEN 1 ELSE 0,
         highest_stage  |-> IF mine THEN rollout.stage ELSE 0,
         timeline       |-> IF mine THEN _route_share_timeline_points(rollout) ELSE <<>>]

(* A run never has more samples than its evaluation asked for, however the  *)
(* uploads interleave: each counts the stored ones under the run's lock.    *)
SampleCountBounded == Exists(run) => Cardinality(Stored(samples)) <= run.count

(* No rollout exists without a clean summary over the required number of    *)
(* samples, however finalization, late uploads and cancellations interleave.*)
RolloutHasCleanSummary ==
    Exists(rollout) => rollout.summary = [count |-> MinSamples, reasons |-> {}]

Covers(from, to) == \A i \in Stored(samples) : from <= samples[i].at /\ samples[i].at <= to

(* As long as no requests overlap, the verdict on a run stays the one       *)
(* its stored samples justify, and the KPI dashboard, which computes the    *)
(* thresholds again, shows a provider that is rolled out its run without a  *)
(* violation over any time that covers its samples, and the rollout the     *)
(* other dashboard shows.                                                   *)
VerdictMatchesSamples ==
    overlaps = 0 =>
      /\ run.status \in Finalized =>
            run.summary = _shadow_summary_from_samples(run.count, samples)
      /\ Exists(rollout) =>
            /\ run.status = "passed"
            /\ \A from, to \in {x.at : x \in Samples} : Covers(from, to) =>
                  LET shown == get_provider_kpi_dashboard(application.provider, from, to) IN
                  /\ Len(shown.run_metrics) = 1 /\ Head(shown.run_metrics).violations = {}
                  /\ shown.rollout_summary.highest_stage =
                        get_provider_route_share_dashboard(application.provider).highest_stage

(* From the verdict on a run until it is rolled out, the days the KPI       *)
(* dashboard draws for its provider add up to the totals it shows, and over *)
(* a time that leaves no sample out to the samples stored and those that    *)
(* passed: no sample is lost or drawn twice where a day ends.               *)
DaysAddUp ==
    run.status \in Finalized /\ ~Exists(rollout) =>
      \A from, to \in {x.at : x \in Samples} :
        LET shown == get_provider_kpi_dashboard(run.provider, from, to)
            Drawn(field) ==
                MapThenSumSet(LAMBDA d : shown.timeline[d][field], DOMAIN shown.timeline)
        IN  /\ \A field \in {"sample_count", "success_count"} :
                  Drawn(field) = shown.aggregate[field]
            /\ Covers(from, to) =>
                  /\ Drawn("sample_count") = Cardinality(Stored(samples))
                  /\ Drawn("success_count") =
                        Cardinality({i \in Stored(samples) : _sample_passed(samples[i])})

(* As long as no requests overlap, the timeline a provider is shown is the  *)
(* whole story of the rollout: each point begins in the status the point    *)
(* before left, it climbs the stages one by one, nothing follows completion *)
(* or cancellation, and it ends in the rollout's present status and stage.  *)
TimelineExplainsRollout ==
    overlaps = 0 /\ Exists(rollout) =>
      LET shown == get_provider_route_share_dashboard(application.provider)
          points == shown.timeline
      IN
      /\ \A k \in 2..Len(points) :
            /\ points[k].from = points[k - 1].to
            /\ points[k].from \notin {"completed", "cancelled"}
            /\ points[k].stage = IF points[k].action = "advance"
                                 THEN _next_rollout_stage(points[k - 1].stage)
                                 ELSE points[k - 1].stage
      /\ points # <<>>
      /\ Last(points).to = rollout.status
      /\ Last(points).stage = shown.highest_stage

(* As long as no requests overlap, the provider id that was copied from     *)
(* row to row is the application's in every one of them.                    *)
CopiedProviderAgrees ==
    overlaps = 0 => \A row \in {evaluation, run, rollout} :
                 Exists(row) => row.provider = application.provider

(* A rollout is earned: by this applicant, with the samples that were asked *)
(* for, on a verdict they justify.                                          *)
RolloutEarned ==
    SampleCountBounded /\ RolloutHasCleanSummary /\ VerdictMatchesSamples /\ CopiedProviderAgrees
=============================================================================
