----------------------- MODULE ProviderOnboardingProofs -----------------------
(***************************************************************************)
(* Proofs about provider onboarding: the intake, the version updates and   *)
(* the rollout of one provider, for any number of workers, samples,        *)
(* overlapping requests and record versions and any thresholds.            *)
(***************************************************************************)
EXTENDS MCProviderOnboarding, TLAPS, FiniteSetTheorems, WellFoundedInduction

(* The rows of the tables. *)
ProviderNames == Providers \cup {NoProvider}
ApplicationRow ==
    [status : {"none", "draft", "submitted"}, provider : ProviderNames,
     material : Materials \cup {"none"}]
EvaluationRow ==
    [status : {"none", "requested", "queued", "cancelled"}, provider : ProviderNames, count : Nat]
VersionRow ==
    [status : {"none", "draft", "submitted", "under_review", "approved", "rejected", "cancelled"},
     provider : ProviderNames, current : Semvers \cup {NoSemver},
     proposed : Semvers \cup {NoSemver}, kind : {"none", "patch", "minor", "major"},
     notes : BOOLEAN, metadata : MetadataIds \cup {"none"}, record_version : Nat]
ReasonNames ==
    {"not finalized", "evaluation_sample_count_below_required", "sample_count_mismatch",
     "observed_day_span_below_threshold", "coverage_class_missing", "success_rate_below_threshold",
     "average_deviation_above_threshold", "p95_latency_ratio_above_threshold"}
Summary == [count : Nat, reasons : SUBSET ReasonNames]
RunRow ==
    [status : {"none", "draft", "running", "cancelled", "passed", "failed"},
     provider : ProviderNames, count : Nat, baseline : Baselines \cup {"none"}, summary : Summary]
RolloutStatus == {"none", "draft", "active", "paused", "completed", "cancelled"}
Point == [action : {"created", "advance", "pause", "cancel"}, stage : {0, 5, 50, 100},
          from : RolloutStatus, to : RolloutStatus]
RolloutRow ==
    [status : RolloutStatus, provider : ProviderNames, stage : {0, 5, 50, 100},
     history : Seq(Point), summary : Summary, evidence : Evidence \cup {"none"}]

-----------------------------------------------------------------------------
(* Sessions.                                                                *)

(* A flush over the copy that is still stored writes the new row. *)
LEMMA FlushWhole ==
    ASSUME NEW D, NEW stored, NEW new,
           stored = [f \in D |-> stored[f]], new = [f \in D |-> new[f]]
    PROVE  Flushed(stored, stored, new) = new
  <1>1. DOMAIN stored = D
    OBVIOUS
  <1>2. CASE Exists(stored)
    <2>1. Flushed(stored, stored, new)
             = [f \in D |-> IF new[f] # stored[f] THEN new[f] ELSE stored[f]]
      BY <1>1, <1>2 DEF Flushed
    <2> QED BY <2>1
  <1>3. CASE ~Exists(stored)
    BY <1>3 DEF Flushed
  <1> QED BY <1>2, <1>3

LEMMA FlushApplication ==
    ASSUME NEW stored \in ApplicationRow, NEW loaded \in ApplicationRow, NEW new \in ApplicationRow
    PROVE  /\ Flushed(stored, loaded, new) \in ApplicationRow
           /\ stored = loaded => Flushed(stored, loaded, new) = new
  BY FlushWhole DEF Flushed, ApplicationRow, Exists

LEMMA FlushEvaluation ==
    ASSUME NEW stored \in EvaluationRow, NEW loaded \in EvaluationRow, NEW new \in EvaluationRow
    PROVE  /\ Flushed(stored, loaded, new) \in EvaluationRow
           /\ stored = loaded => Flushed(stored, loaded, new) = new
  BY FlushWhole DEF Flushed, EvaluationRow, Exists

LEMMA FlushVersion ==
    ASSUME NEW stored \in VersionRow, NEW loaded \in VersionRow, NEW new \in VersionRow
    PROVE  /\ Flushed(stored, loaded, new) \in VersionRow
           /\ stored = loaded => Flushed(stored, loaded, new) = new
  BY FlushWhole DEF Flushed, VersionRow, Exists

LEMMA FlushRun ==
    ASSUME NEW stored \in RunRow, NEW loaded \in RunRow, NEW new \in RunRow
    PROVE  /\ Flushed(stored, loaded, new) \in RunRow
           /\ stored = loaded => Flushed(stored, loaded, new) = new
           /\ ~Exists(loaded) => Flushed(stored, loaded, new) = new
           /\ Exists(stored) /\ Exists(new) => Exists(Flushed(stored, loaded, new))
           /\ Exists(loaded) /\ new.count = loaded.count
                 => Flushed(stored, loaded, new).count = stored.count
           /\ Exists(loaded) /\ new.summary = loaded.summary
                 => Flushed(stored, loaded, new).summary = stored.summary
           /\ Flushed(stored, loaded, new).summary \in {stored.summary, new.summary}
  <1>1. Flushed(stored, loaded, new) \in RunRow
    BY DEF Flushed, RunRow, Exists
  <1>2. stored = loaded => Flushed(stored, loaded, new) = new
    BY FlushWhole DEF RunRow
  <1>3. ~Exists(loaded) => Flushed(stored, loaded, new) = new
    BY DEF Flushed
  <1>4. Exists(stored) /\ Exists(new) => Exists(Flushed(stored, loaded, new))
    BY DEF Flushed, RunRow, Exists
  <1>5. Exists(loaded) /\ new.count = loaded.count => Flushed(stored, loaded, new).count = stored.count
    BY DEF Flushed, RunRow
  <1>6. Exists(loaded) /\ new.summary = loaded.summary
           => Flushed(stored, loaded, new).summary = stored.summary
    BY DEF Flushed, RunRow
  <1>7. Flushed(stored, loaded, new).summary \in {stored.summary, new.summary}
    BY DEF Flushed, RunRow
  <1> QED BY <1>1, <1>2, <1>3, <1>4, <1>5, <1>6, <1>7

LEMMA FlushRollout ==
    ASSUME NEW stored \in RolloutRow, NEW loaded \in RolloutRow, NEW new \in RolloutRow
    PROVE  /\ Flushed(stored, loaded, new) \in RolloutRow
           /\ stored = loaded => Flushed(stored, loaded, new) = new
           /\ ~Exists(loaded) => Flushed(stored, loaded, new) = new
           /\ Flushed(stored, loaded, new).summary \in {stored.summary, new.summary}
           /\ Exists(stored) /\ Exists(new) => Exists(Flushed(stored, loaded, new))
  BY FlushWhole DEF Flushed, RolloutRow, Exists

-----------------------------------------------------------------------------
(* What holds however the handlers interleave.                              *)
Typed ==
    /\ overlaps \in Nat
    /\ application \in ApplicationRow /\ evaluation \in EvaluationRow
    /\ version \in VersionRow /\ seen \in [Workers -> VersionRow]
    /\ run \in RunRow /\ rollout \in RolloutRow
    /\ samples \in [SampleIds -> Samples \cup {NoSample}]
    /\ req = [w \in Workers |-> req[w]]

Clean == [count |-> MinSamples, reasons |-> {}]

(* What a session holds.  The number of samples a run asks for is fixed     *)
(* when it is created, and no update of a run touches its verdict.          *)
SessionRow(r) ==
    /\ r.table \in {"none", "application", "evaluation", "version", "run", "sample", "finalize",
                    "rollout"}
    /\ r.table = "none" => r = Idle
    /\ r.table = "application" => r.loaded \in ApplicationRow /\ r.new \in ApplicationRow
    /\ r.table = "evaluation" => r.loaded \in EvaluationRow /\ r.new \in EvaluationRow
    /\ r.table = "version" => r.loaded \in VersionRow /\ r.new \in VersionRow
    /\ r.table = "run" =>
          /\ r.loaded \in RunRow /\ r.new \in RunRow /\ Exists(r.new)
          /\ Exists(r.loaded) => /\ Exists(run) /\ r.loaded.count = run.count
                                 /\ r.new.count = r.loaded.count /\ r.new.summary = r.loaded.summary
          /\ ~Exists(r.loaded) => r.new.summary = NoSummary
    /\ r.table \in {"sample", "finalize"} =>
          r.loaded \in RunRow /\ Exists(r.loaded) /\ Exists(run) /\ r.loaded.count = run.count
    /\ r.table = "sample" => r.new.id \in SampleIds /\ r.new.sample \in Samples
    /\ r.table = "rollout" =>
          /\ r.loaded \in RolloutRow /\ r.new \in RolloutRow /\ r.new.summary = Clean
          /\ Exists(r.new) /\ (Exists(r.loaded) => Exists(rollout))

Sessions == \A w \in Workers : SessionRow(req[w])

(* The samples and the verdict on them. *)
SamplesSound ==
    /\ IsFiniteSet(Stored(samples))
    /\ ~Exists(run) => Stored(samples) = {}
    /\ SampleCountBounded
    /\ run.summary.reasons = {} => run.summary = Clean
    /\ RolloutHasCleanSummary

OnboardingInv == Typed /\ Sessions /\ SamplesSound

LEMMA OnboardingInit == Init => OnboardingInv
  <1> SUFFICES ASSUME Init PROVE OnboardingInv
    OBVIOUS
  <1> USE DEF Init, IntakeInit, VersionInit, RolloutInit
  <1>1. Typed
    <2>1. application \in ApplicationRow /\ evaluation \in EvaluationRow
      BY DEF NoApplication, NoEvaluation, ApplicationRow, EvaluationRow, ProviderNames
    <2>2. NoVersion \in VersionRow
      BY DEF NoVersion, VersionRow, ProviderNames
    <2>3. NoSummary \in Summary
      BY DEF NoSummary, Summary, ReasonNames
    <2>4. run \in RunRow
      BY <2>3 DEF NoRun, RunRow, ProviderNames
    <2>5. rollout \in RolloutRow
      BY <2>3 DEF NoRollout, RolloutRow, ProviderNames, RolloutStatus
    <2> QED BY <2>1, <2>2, <2>4, <2>5 DEF Typed
  <1>2. Sessions
    BY DEF Sessions, SessionRow, Idle
  <1>3. SamplesSound
    <2>1. Stored(samples) = {}
      BY DEF Stored
    <2>2. IsFiniteSet(Stored(samples))
      BY <2>1, FS_EmptySet
    <2>3. ~Exists(run) /\ ~Exists(rollout)
      BY DEF NoRun, NoRollout, Exists
    <2>4. run.summary.reasons # {}
      BY DEF NoRun, NoSummary
    <2> QED BY <2>1, <2>2, <2>3, <2>4 DEF SamplesSound, SampleCountBounded, RolloutHasCleanSummary
  <1> QED BY <1>1, <1>2, <1>3 DEF OnboardingInv

-----------------------------------------------------------------------------
(* What holds as long as no requests overlap: a session holds the row that *)
(* is stored, and what its handler checked of the other rows is still so.  *)
Linked(provider) == application.status = "submitted" /\ provider = application.provider

(* The timeline of r tells how r came to its status and stage. *)
Explained(r) ==
    LET points == _route_share_timeline_points(r) IN
    /\ \A k \in 2..Len(points) :
          /\ points[k].from = points[k - 1].to
          /\ points[k].from \notin {"completed", "cancelled"}
          /\ points[k].stage = IF points[k].action = "advance"
                               THEN _next_rollout_stage(points[k - 1].stage)
                               ELSE points[k - 1].stage
    /\ points[Len(points)].to = r.status /\ points[Len(points)].stage = r.stage

VersionSound(row) ==
    /\ Linked(row.provider)
    /\ _validate_version_delta(row.current, row.proposed, row.kind)
    /\ row.status \in {"approved", "rejected"} => row.notes

SerialVersion ==
    /\ ~Exists(version) => version = NoVersion
    /\ Exists(version) => VersionSound(version)
    /\ Material(version) = reviewed
    /\ \A w \in Workers :
          /\ seen[w].record_version <= version.record_version
          /\ seen[w].record_version = version.record_version => seen[w] = version

SerialRollout ==
    /\ Exists(evaluation) => Linked(evaluation.provider)
    /\ Exists(run) => Linked(run.provider)
    /\ run.status \in Finalized => run.summary = _shadow_summary_from_samples(run.count, samples)
    /\ Exists(rollout) => Linked(rollout.provider) /\ CleanPassedRun(run) /\ Explained(rollout)

SerialSession(r) ==
    /\ r.table = "application" =>
          r.loaded = application /\ application.status # "submitted"
    /\ r.table = "evaluation" => r.loaded = evaluation /\ Linked(r.new.provider)
    /\ r.table = "version" =>
          /\ r.loaded = version /\ Exists(r.new) /\ VersionSound(r.new)
          /\ r.new.record_version = version.record_version + 1
          /\ \/ version.status \in {"none", "draft"} \/ r.new.status = "draft"
             \/ Material(r.new) = Material(version)
    /\ r.table = "run" =>
          /\ r.loaded = run /\ run.status \in {"none", "draft", "running"}
          /\ Linked(r.new.provider) /\ r.new.status \in {"draft", "running", "cancelled"}
    /\ r.table \in {"sample", "finalize"} => r.loaded = run /\ run.status = "running"
    /\ r.table = "rollout" =>
          /\ r.loaded = rollout /\ CleanPassedRun(run)
          /\ Linked(r.new.provider) /\ Explained(r.new)

Serial ==
    /\ \A v, w \in Workers : req[v] # Idle /\ req[w] # Idle => v = w
    /\ \A w \in Workers : SerialSession(req[w])
    /\ SerialVersion /\ SerialRollout

IInv == OnboardingInv /\ (overlaps = 0 => Serial)

LEMMA SerialInit == Init => Serial
  <1> SUFFICES ASSUME Init PROVE Serial
    OBVIOUS
  <1> USE DEF Init, IntakeInit, VersionInit, RolloutInit
  <1>1. \A w \in Workers : req[w] = Idle
    OBVIOUS
  <1>2. \A w \in Workers : SerialSession(req[w])
    BY <1>1 DEF SerialSession, Idle
  <1>3. SerialVersion
    BY DEF SerialVersion, NoVersion, Exists
  <1>4. SerialRollout
    BY DEF SerialRollout, Exists, NoEvaluation, NoRun, NoRollout, Finalized
  <1> QED BY <1>1, <1>2, <1>3, <1>4 DEF Serial

-----------------------------------------------------------------------------
(* Steps that write no table.                                               *)
tableVars == <<application, evaluation, version, reviewed, run, samples, rollout>>

LEMMA SessionRowStays ==
    ASSUME UNCHANGED tableVars, NEW r
    PROVE  /\ SessionRow(r) => SessionRow(r)'
           /\ SerialSession(r) => SerialSession(r)'
  <1>1. SessionRow(r) => SessionRow(r)'
    BY DEF SessionRow, tableVars
  <1>2. \A x : Linked(x) => Linked(x)'
    BY DEF Linked, tableVars
  <1>3. SerialSession(r) => SerialSession(r)'
    BY <1>2 DEF SerialSession, VersionSound, tableVars
  <1> QED BY <1>1, <1>3

LEMMA TablesStay ==
    ASSUME UNCHANGED <<tableVars, seen>>
    PROVE  /\ SamplesSound => SamplesSound'
           /\ SerialVersion => SerialVersion'
           /\ SerialRollout => SerialRollout'
  <1> USE DEF tableVars
  <1>1. SamplesSound => SamplesSound'
    BY DEF SamplesSound, SampleCountBounded, RolloutHasCleanSummary
  <1>2. \A x : Linked(x) => Linked(x)'
    BY DEF Linked
  <1>3. SerialVersion => SerialVersion'
    BY <1>2 DEF SerialVersion, VersionSound
  <1>4. SerialRollout => SerialRollout'
    BY <1>2 DEF SerialRollout
  <1> QED BY <1>1, <1>3, <1>4

(* A session is opened. *)
LEMMA Opened ==
    ASSUME IInv, NEW w \in Workers, NEW table, NEW loaded, NEW new,
           Holds(w, table, loaded, new), UNCHANGED <<tableVars, seen>>,
           SessionRow([table |-> table, loaded |-> loaded, new |-> new]),
           Serial => SerialSession([table |-> table, loaded |-> loaded, new |-> new])
    PROVE  IInv'
  <1> DEFINE row == [table |-> table, loaded |-> loaded, new |-> new]
  <1>1. PICK r : r = row
    OBVIOUS
  <1>2. req' = [req EXCEPT ![w] = r] /\ SessionRow(r) /\ (Serial => SerialSession(r))
    BY <1>1 DEF Holds
  <1> HIDE DEF row
  <1>3. Typed'
    BY DEF IInv, OnboardingInv, Typed, tableVars, Holds
  <1>4. \A v \in Workers : req'[v] = IF v = w THEN r ELSE req[v]
    BY <1>2 DEF IInv, OnboardingInv, Typed
  <1>5. Sessions'
    <2> SUFFICES ASSUME NEW v \in Workers PROVE SessionRow(req[v])'
      BY DEF Sessions
    <2>1. PICK x : x = req'[v]
      OBVIOUS
    <2>2. SessionRow(x)
      BY <2>1, <1>2, <1>4 DEF IInv, OnboardingInv, Sessions
    <2> QED BY <2>1, <2>2, SessionRowStays
  <1>6. SamplesSound'
    BY TablesStay DEF IInv, OnboardingInv
  <1>7. ASSUME overlaps' = 0 PROVE Serial'
    <2>1. overlaps = 0 /\ Pending = {}
      BY <1>7 DEF Holds, IInv, OnboardingInv, Typed
    <2>2. Serial
      BY <2>1 DEF IInv
    <2>3. \A v \in Workers : req[v] = Idle
      BY <2>1 DEF Pending
    <2>4. \A v \in Workers : SerialSession(req[v])'
      <3> SUFFICES ASSUME NEW v \in Workers PROVE SerialSession(req[v])'
        OBVIOUS
      <3>1. PICK x : x = req'[v]
        OBVIOUS
      <3>2. SerialSession(x)
        BY <3>1, <1>2, <1>4, <2>2 DEF Serial
      <3> QED BY <3>1, <3>2, SessionRowStays
    <2>5. \A u, v \in Workers : req'[u] # Idle /\ req'[v] # Idle => u = v
      BY <1>4, <2>3
    <2> QED BY <2>2, <2>4, <2>5, TablesStay DEF Serial
  <1> QED BY <1>3, <1>5, <1>6, <1>7 DEF IInv, OnboardingInv

(* A session is lost. *)
LEMMA RolledBack ==
    ASSUME IInv, NEW w \in Workers, Done(w), UNCHANGED <<tableVars, seen>>
    PROVE  IInv'
  <1>1. Typed'
    BY DEF IInv, OnboardingInv, Typed, tableVars, Done
  <1>2. \A v \in Workers : req'[v] = IF v = w THEN Idle ELSE req[v]
    BY DEF IInv, OnboardingInv, Typed, Done
  <1>3. SessionRow(Idle) /\ SerialSession(Idle)
    BY DEF SessionRow, SerialSession, Idle
  <1>4. Sessions'
    <2> SUFFICES ASSUME NEW v \in Workers PROVE SessionRow(req[v])'
      BY DEF Sessions
    <2>1. PICK x : x = req'[v]
      OBVIOUS
    <2>2. SessionRow(x)
      BY <2>1, <1>2, <1>3 DEF IInv, OnboardingInv, Sessions
    <2> QED BY <2>1, <2>2, SessionRowStays
  <1>5. SamplesSound'
    BY TablesStay DEF IInv, OnboardingInv
  <1>6. ASSUME overlaps' = 0 PROVE Serial'
    <2>1. Serial
      BY <1>6 DEF IInv, Done
    <2>2. \A v \in Workers : SerialSession(req[v])'
      <3> SUFFICES ASSUME NEW v \in Workers PROVE SerialSession(req[v])'
        OBVIOUS
      <3>1. PICK x : x = req'[v]
        OBVIOUS
      <3>2. SerialSession(x)
        BY <3>1, <1>2, <1>3, <2>1 DEF Serial
      <3> QED BY <3>1, <3>2, SessionRowStays
    <2>3. \A u, v \in Workers : req'[u] # Idle /\ req'[v] # Idle => u = v
      BY <1>2, <2>1 DEF Serial
    <2> QED BY <2>1, <2>2, <2>3, TablesStay DEF Serial
  <1> QED BY <1>1, <1>4, <1>5, <1>6 DEF IInv, OnboardingInv

-----------------------------------------------------------------------------
(* Steps that flush a session.  The samples a run asks for never change,    *)
(* and no run or rollout is deleted.                                        *)
RowsStay ==
    /\ Exists(run) => Exists(run)' /\ run'.count = run.count
    /\ Exists(rollout) => Exists(rollout)'

LEMMA Closed ==
    ASSUME IInv, NEW w \in Workers, req[w] # Idle, Done(w), RowsStay, Typed', SamplesSound',
           Serial => SerialVersion' /\ SerialRollout'
    PROVE  IInv'
  <1>1. \A v \in Workers : req'[v] = IF v = w THEN Idle ELSE req[v]
    BY DEF IInv, OnboardingInv, Typed, Done
  <1>2. \A r : SessionRow(r) => SessionRow(r)'
    BY DEF SessionRow, RowsStay
  <1>3. SessionRow(Idle) /\ SerialSession(Idle)'
    BY DEF SessionRow, SerialSession, Idle
  <1>4. Sessions'
    <2> SUFFICES ASSUME NEW v \in Workers PROVE SessionRow(req[v])'
      BY DEF Sessions
    <2>1. PICK x : x = req'[v]
      OBVIOUS
    <2>2. SessionRow(x)
      BY <2>1, <1>1, <1>3 DEF IInv, OnboardingInv, Sessions
    <2> QED BY <2>1, <2>2, <1>2
  <1>5. ASSUME overlaps' = 0 PROVE Serial'
    <2>1. Serial
      BY <1>5 DEF IInv, Done
    <2>2. \A v \in Workers : req'[v] = Idle
      BY <1>1, <2>1 DEF Serial
    <2>3. \A v \in Workers : SerialSession(req[v])'
      BY <2>2, <1>3
    <2> QED BY <2>1, <2>2, <2>3 DEF Serial
  <1> QED BY <1>4, <1>5 DEF IInv, OnboardingInv

LEMMA ApplicationCommitted ==
    ASSUME IInv, NEW w \in Workers, CommitApplication(w), UNCHANGED <<versionVars, rolloutVars>>
    PROVE  IInv'
  <1> USE DEF versionVars, rolloutVars
  <1>1. SessionRow(req[w])
    BY DEF IInv, OnboardingInv, Sessions
  <1>2. req[w].table = "application" /\ req[w].loaded \in ApplicationRow
        /\ req[w].new \in ApplicationRow /\ req[w] # Idle
    BY <1>1 DEF CommitApplication, SessionRow, Idle
  <1>3. application' \in ApplicationRow
    BY <1>2, FlushApplication DEF CommitApplication, IInv, OnboardingInv, Typed
  <1>4. Typed'
    BY <1>3 DEF CommitApplication, Done, IInv, OnboardingInv, Typed
  <1>5. SamplesSound'
    BY DEF CommitApplication, IInv, OnboardingInv, SamplesSound, SampleCountBounded,
           RolloutHasCleanSummary
  <1>6. ASSUME Serial PROVE SerialVersion' /\ SerialRollout'
    <2>1. application.status # "submitted"
      BY <1>2, <1>6 DEF Serial, SerialSession
    <2>2. ~Exists(evaluation) /\ ~Exists(version) /\ ~Exists(run) /\ ~Exists(rollout)
      BY <1>6, <2>1 DEF Serial, SerialVersion, SerialRollout, VersionSound, Linked
    <2>3. UNCHANGED <<evaluation, version, reviewed, seen, run, rollout>>
      BY DEF CommitApplication
    <2>4. SerialVersion'
      BY <1>6, <2>2, <2>3 DEF Serial, SerialVersion
    <2>5. SerialRollout'
      BY <2>2, <2>3 DEF SerialRollout, Exists, Finalized
    <2> QED BY <2>4, <2>5
  <1> QED BY <1>2, <1>4, <1>5, <1>6, Closed DEF CommitApplication, RowsStay

LEMMA EvaluationCommitted ==
    ASSUME IInv, NEW w \in Workers, CommitEvaluation(w), UNCHANGED <<versionVars, rolloutVars>>
    PROVE  IInv'
  <1> USE DEF versionVars, rolloutVars
  <1>1. SessionRow(req[w])
    BY DEF IInv, OnboardingInv, Sessions
  <1>2. req[w].table = "evaluation" /\ req[w].loaded \in EvaluationRow
        /\ req[w].new \in EvaluationRow /\ req[w] # Idle
    BY <1>1 DEF CommitEvaluation, SessionRow, Idle
  <1>3. evaluation' \in EvaluationRow
    BY <1>2, FlushEvaluation DEF CommitEvaluation, IInv, OnboardingInv, Typed
  <1>4. Typed'
    BY <1>3 DEF CommitEvaluation, Done, IInv, OnboardingInv, Typed
  <1>5. SamplesSound'
    BY DEF CommitEvaluation, IInv, OnboardingInv, SamplesSound, SampleCountBounded,
           RolloutHasCleanSummary
  <1>6. ASSUME Serial PROVE SerialVersion' /\ SerialRollout'
    <2>1. req[w].loaded = evaluation /\ Linked(req[w].new.provider)
      BY <1>2, <1>6 DEF Serial, SerialSession
    <2>2. evaluation' = req[w].new
      BY <1>2, <2>1, FlushEvaluation DEF CommitEvaluation, IInv, OnboardingInv, Typed
    <2>3. UNCHANGED <<application, version, reviewed, seen, run, samples, rollout>>
      BY DEF CommitEvaluation
    <2>4. \A x : Linked(x) => Linked(x)'
      BY <2>3 DEF Linked
    <2>5. SerialVersion'
      BY <1>6, <2>3, <2>4 DEF Serial, SerialVersion, VersionSound
    <2>6. SerialRollout'
      BY <1>6, <2>1, <2>2, <2>3, <2>4 DEF Serial, SerialRollout
    <2> QED BY <2>5, <2>6
  <1> QED BY <1>2, <1>4, <1>5, <1>6, Closed DEF CommitEvaluation, RowsStay

LEMMA VersionCommitted ==
    ASSUME IInv, NEW w \in Workers, CommitVersion(w), UNCHANGED rolloutVars
    PROVE  IInv'
  <1> USE DEF rolloutVars
  <1>1. SessionRow(req[w])
    BY DEF IInv, OnboardingInv, Sessions
  <1>2. req[w].table = "version" /\ req[w].loaded \in VersionRow
        /\ req[w].new \in VersionRow /\ req[w] # Idle
    BY <1>1 DEF CommitVersion, SessionRow, Idle
  <1>3. version' \in VersionRow
    BY <1>2, FlushVersion DEF CommitVersion, IInv, OnboardingInv, Typed
  <1>4. Typed'
    BY <1>3 DEF CommitVersion, Done, IInv, OnboardingInv, Typed
  <1>5. SamplesSound'
    BY DEF CommitVersion, IInv, OnboardingInv, SamplesSound, SampleCountBounded,
           RolloutHasCleanSummary
  <1>6. ASSUME Serial PROVE SerialVersion' /\ SerialRollout'
    <2>1. PICK new : new = req[w].new
      OBVIOUS
    <2>2. /\ req[w].loaded = version /\ Exists(new) /\ VersionSound(new)
          /\ new.record_version = version.record_version + 1
          /\ \/ version.status \in {"none", "draft"} \/ new.status = "draft"
             \/ Material(new) = Material(version)
      BY <1>2, <1>6, <2>1 DEF Serial, SerialSession
    <2>3. version' = new
      BY <1>2, <2>1, <2>2, FlushVersion DEF CommitVersion, IInv, OnboardingInv, Typed
    <2>4. UNCHANGED <<application, evaluation, seen, run, samples, rollout>>
      BY DEF CommitVersion
    <2>5. \A x : Linked(x) => Linked(x)'
      BY <2>4 DEF Linked
    <2>6. Material(new) = reviewed'
      <3>1. Material(version) = reviewed
        BY <1>6 DEF Serial, SerialVersion
      <3>2. Material(version)' = Material(new)
        BY <2>3 DEF Material
      <3> QED BY <2>2, <2>3, <3>1, <3>2 DEF CommitVersion
    <2>7. \A v \in Workers : seen[v].record_version < new.record_version
      BY <1>2, <1>6, <2>1, <2>2 DEF Serial, SerialVersion, IInv, OnboardingInv, Typed, VersionRow
    <2>8. \A v \in Workers : seen[v].record_version \in Nat /\ new.record_version \in Nat
      BY <1>2, <2>1 DEF IInv, OnboardingInv, Typed, VersionRow
    <2>9. VersionSound(new)'
      BY <2>2, <2>5 DEF VersionSound
    <2>10. SerialVersion'
      BY <2>2, <2>3, <2>4, <2>6, <2>7, <2>8, <2>9 DEF SerialVersion, Material
    <2>11. SerialRollout'
      BY <1>6, <2>4, <2>5 DEF Serial, SerialRollout
    <2> QED BY <2>10, <2>11
  <1> QED BY <1>2, <1>4, <1>5, <1>6, Closed DEF CommitVersion, RowsStay

LEMMA RunCommitted ==
    ASSUME IInv, NEW w \in Workers, CommitRun(w), UNCHANGED versionVars
    PROVE  IInv'
  <1> USE DEF versionVars
  <1>1. SessionRow(req[w])
    BY DEF IInv, OnboardingInv, Sessions
  <1>2. PICK loaded, new : loaded = req[w].loaded /\ new = req[w].new
    OBVIOUS
  <1>3. /\ req[w].table = "run" /\ req[w] # Idle
        /\ loaded \in RunRow /\ new \in RunRow /\ Exists(new)
        /\ Exists(loaded) => /\ Exists(run) /\ loaded.count = run.count
                             /\ new.count = loaded.count /\ new.summary = loaded.summary
        /\ ~Exists(loaded) => new.summary = NoSummary /\ ~Exists(run)
    BY <1>1, <1>2 DEF CommitRun, SessionRow, Idle, Insertable
  <1>4. run \in RunRow /\ run' = Flushed(run, loaded, new)
    BY <1>2 DEF CommitRun, IInv, OnboardingInv, Typed
  <1>5. UNCHANGED <<application, evaluation, samples, rollout, version, seen, reviewed>>
    BY DEF CommitRun
  <1>6. Typed'
    BY <1>3, <1>4, <1>5, FlushRun DEF CommitRun, Done, IInv, OnboardingInv, Typed
  <1>7. RowsStay
    BY <1>3, <1>4, <1>5, FlushRun DEF RowsStay, Exists
  <1>8. SamplesSound'
    <2>1. SamplesSound
      BY DEF IInv, OnboardingInv
    <2>2. CASE Exists(loaded)
      <3>1. run'.summary = run.summary
        BY <1>3, <1>4, <2>2, FlushRun
      <3>2. Exists(run) /\ Exists(run)' /\ run'.count = run.count
        BY <1>3, <1>7, <2>2 DEF RowsStay
      <3> QED BY <1>5, <2>1, <3>1, <3>2 DEF SamplesSound, SampleCountBounded, RolloutHasCleanSummary
    <2>3. CASE ~Exists(loaded)
      <3>1. run' = new
        BY <1>3, <1>4, <2>3, FlushRun
      <3>2. Stored(samples) = {} /\ Cardinality(Stored(samples)) = 0
        BY <1>3, <2>1, <2>3, FS_EmptySet DEF SamplesSound
      <3>3. run'.summary.reasons # {} /\ run'.count \in Nat
        <4>1. NoSummary.reasons # {}
          BY DEF NoSummary
        <4> QED BY <1>3, <2>3, <3>1, <4>1 DEF RunRow
      <3> QED BY <1>5, <2>1, <3>2, <3>3 DEF SamplesSound, SampleCountBounded, RolloutHasCleanSummary
    <2> QED BY <2>2, <2>3
  <1>9. ASSUME Serial PROVE SerialVersion' /\ SerialRollout'
    <2>1. /\ loaded = run /\ run.status \in {"none", "draft", "running"}
          /\ Linked(new.provider) /\ new.status \in {"draft", "running", "cancelled"}
      BY <1>2, <1>3, <1>9 DEF Serial, SerialSession
    <2>2. run' = new
      BY <1>3, <1>4, <2>1, FlushRun
    <2>3. \A x : Linked(x) => Linked(x)'
      BY <1>5 DEF Linked
    <2>4. SerialVersion'
      BY <1>5, <1>9, <2>3 DEF Serial, SerialVersion, VersionSound
    <2>5. ~Exists(rollout)
      BY <1>9, <2>1 DEF Serial, SerialRollout, CleanPassedRun
    <2>6. SerialRollout'
      BY <1>5, <1>9, <2>1, <2>2, <2>3, <2>5 DEF Serial, SerialRollout, Finalized
    <2> QED BY <2>4, <2>6
  <1> QED BY <1>3, <1>6, <1>7, <1>8, <1>9, Closed DEF CommitRun

LEMMA SampleCommitted ==
    ASSUME IInv, NEW w \in Workers, CommitSample(w), UNCHANGED versionVars
    PROVE  IInv'
  <1> USE DEF versionVars
  <1>1. SessionRow(req[w])
    BY DEF IInv, OnboardingInv, Sessions
  <1>2. PICK loaded, id, x : loaded = req[w].loaded /\ id = req[w].new.id /\ x = req[w].new.sample
    OBVIOUS
  <1>3. /\ req[w].table = "sample" /\ req[w] # Idle
        /\ loaded \in RunRow /\ Exists(run) /\ loaded.count = run.count
        /\ id \in SampleIds /\ x \in Samples
    BY <1>1, <1>2 DEF CommitSample, SessionRow, Idle
  <1>4. /\ samples' = [samples EXCEPT ![id] = x]
        /\ samples[id] = NoSample => Cardinality(Stored(samples)) < run.count
    BY <1>2, <1>3 DEF CommitSample, RoomForSample
  <1>5. UNCHANGED <<application, evaluation, run, rollout, version, seen, reviewed>>
    BY DEF CommitSample
  <1>6. Typed'
    BY <1>3, <1>4, <1>5 DEF CommitSample, Done, IInv, OnboardingInv, Typed
  <1>7. x # NoSample
    <2>1. x \in [class : Classes, at : Nat, ok : BOOLEAN, timed_out : BOOLEAN,
                 deviation : Nat, provider_ms : Nat \ {0}, baseline_ms : Nat \ {0}]
      BY <1>3, SampleAssumption
    <2>2. "at" \in DOMAIN x /\ "at" \notin DOMAIN NoSample
      BY <2>1 DEF NoSample
    <2> QED BY <2>2
  <1>8. SamplesSound'
    <2>1. SamplesSound /\ samples \in [SampleIds -> Samples \cup {NoSample}] /\ run \in RunRow
      BY DEF IInv, OnboardingInv, Typed
    <2>2. Stored(samples)' = Stored(samples) \cup {id}
      BY <1>3, <1>4, <1>7, <2>1 DEF Stored
    <2>3. IsFiniteSet(Stored(samples)) /\ Cardinality(Stored(samples)) \in Nat
      BY <2>1, FS_CardinalityType DEF SamplesSound
    <2>4. IsFiniteSet(Stored(samples)')
      BY <2>2, <2>3, FS_AddElement
    <2>5. Cardinality(Stored(samples)') <= run.count
      <3>1. CASE samples[id] = NoSample
        <4>1. id \notin Stored(samples)
          BY <3>1 DEF Stored
        <4>2. Cardinality(Stored(samples)') = Cardinality(Stored(samples)) + 1
          BY <2>2, <2>3, <4>1, FS_AddElement
        <4>3. run.count \in Nat
          BY <2>1 DEF RunRow
        <4> QED BY <1>4, <2>3, <3>1, <4>2, <4>3
      <3>2. CASE samples[id] # NoSample
        <4>1. Stored(samples)' = Stored(samples)
          BY <1>3, <2>2, <3>2 DEF Stored
        <4> QED BY <1>3, <2>1, <4>1 DEF SamplesSound, SampleCountBounded
      <3> QED BY <3>1, <3>2
    <2>6. SampleCountBounded'
      BY <2>5, <1>5 DEF SampleCountBounded
    <2> QED BY <1>3, <1>5, <2>1, <2>4, <2>6 DEF SamplesSound, RolloutHasCleanSummary
  <1>9. ASSUME Serial PROVE SerialVersion' /\ SerialRollout'
    <2>1. loaded = run /\ run.status = "running"
      BY <1>2, <1>3, <1>9 DEF Serial, SerialSession
    <2>2. \A y : Linked(y) => Linked(y)'
      BY <1>5 DEF Linked
    <2>3. SerialVersion'
      BY <1>5, <1>9, <2>2 DEF Serial, SerialVersion, VersionSound
    <2>4. SerialRollout'
      BY <1>5, <1>9, <2>1, <2>2 DEF Serial, SerialRollout, Finalized
    <2> QED BY <2>3, <2>4
  <1> QED BY <1>3, <1>5, <1>6, <1>8, <1>9, Closed DEF CommitSample, RowsStay

(* A summary names its reasons, and only enough samples leave none. *)
LEMMA SummaryType ==
    ASSUME NEW count, NEW s, IsFiniteSet(Stored(s))
    PROVE  /\ _shadow_summary_from_samples(count, s) \in Summary
           /\ _shadow_summary_from_samples(count, s).reasons = {}
                 => _shadow_summary_from_samples(count, s) = Clean
  <1>1. Cardinality(Stored(s)) \in Nat
    BY FS_CardinalityType
  <1>2. FailedReasons(count, s) \subseteq ReasonNames
    BY DEF FailedReasons, Reason, ReasonNames
  <1>3. ASSUME FailedReasons(count, s) = {} PROVE Cardinality(Stored(s)) = MinSamples
    <2>1. Reason("sample_count_mismatch",
                 Cardinality(Stored(s)) # count \/ Cardinality(Stored(s)) # MinSamples)
             \subseteq FailedReasons(count, s)
      BY DEF FailedReasons
    <2> QED BY <1>3, <2>1 DEF Reason
  <1> QED BY <1>1, <1>2, <1>3 DEF _shadow_summary_from_samples, Summary, Clean

LEMMA FinalizeCommitted ==
    ASSUME IInv, NEW w \in Workers, CommitFinalize(w), UNCHANGED versionVars
    PROVE  IInv'
  <1> USE DEF versionVars
  <1>1. SessionRow(req[w])
    BY DEF IInv, OnboardingInv, Sessions
  <1>2. PICK loaded, summary : /\ loaded = req[w].loaded
                               /\ summary = _shadow_summary_from_samples(req[w].loaded.count, samples)
    OBVIOUS
  <1>3. PICK new : new = [loaded EXCEPT !.summary = summary,
                              !.status = IF summary.reasons = {} THEN "passed" ELSE "failed"]
    OBVIOUS
  <1>4. /\ req[w].table = "finalize" /\ req[w] # Idle
        /\ loaded \in RunRow /\ Exists(loaded) /\ Exists(run) /\ loaded.count = run.count
    BY <1>1, <1>2 DEF CommitFinalize, SessionRow, Idle
  <1>5. summary \in Summary /\ (summary.reasons = {} => summary = Clean)
    BY <1>2, SummaryType DEF IInv, OnboardingInv, SamplesSound
  <1>6. new \in RunRow /\ Exists(new) /\ new.count = loaded.count /\ new.summary = summary
    BY <1>3, <1>4, <1>5 DEF RunRow, Exists
  <1>7. run \in RunRow /\ run' = Flushed(run, loaded, new)
    BY <1>2, <1>3 DEF CommitFinalize, IInv, OnboardingInv, Typed
  <1>8. UNCHANGED <<application, evaluation, samples, rollout, version, seen, reviewed>>
    BY DEF CommitFinalize
  <1>9. Typed'
    BY <1>4, <1>6, <1>7, <1>8, FlushRun DEF CommitFinalize, Done, IInv, OnboardingInv, Typed
  <1>10. Exists(run)' /\ run'.count = run.count
    BY <1>4, <1>6, <1>7, FlushRun DEF Exists
  <1>11. run'.summary \in {run.summary, summary}
    BY <1>4, <1>6, <1>7, FlushRun
  <1>12. SamplesSound'
    BY <1>4, <1>5, <1>8, <1>10, <1>11
    DEF SamplesSound, SampleCountBounded, RolloutHasCleanSummary, IInv, OnboardingInv
  <1>13. ASSUME Serial PROVE SerialVersion' /\ SerialRollout'
    <2>1. loaded = run /\ run.status = "running"
      BY <1>2, <1>4, <1>13 DEF Serial, SerialSession
    <2>2. run' = new
      BY <1>6, <1>7, <2>1, FlushRun
    <2>3. \A x : Linked(x) => Linked(x)'
      BY <1>8 DEF Linked
    <2>4. SerialVersion'
      BY <1>8, <1>13, <2>3 DEF Serial, SerialVersion, VersionSound
    <2>5. ~Exists(rollout)
      BY <1>13, <2>1 DEF Serial, SerialRollout, CleanPassedRun
    <2>6. Linked(run.provider) /\ new.provider = run.provider
      BY <1>3, <1>4, <1>13, <2>1 DEF Serial, SerialRollout, RunRow
    <2>7. new.summary = _shadow_summary_from_samples(new.count, samples)
      BY <1>2, <1>6
    <2>8. (new.summary = _shadow_summary_from_samples(new.count, samples))'
      BY <1>2, <1>6, <1>8, <2>7
    <2>9. SerialRollout'
      BY <1>8, <1>13, <2>2, <2>3, <2>5, <2>6, <2>8 DEF Serial, SerialRollout
    <2> QED BY <2>4, <2>9
  <1> QED BY <1>4, <1>8, <1>9, <1>10, <1>12, <1>13, Closed DEF CommitFinalize, RowsStay

LEMMA RolloutCommitted ==
    ASSUME IInv, NEW w \in Workers, CommitRollout(w), UNCHANGED versionVars
    PROVE  IInv'
  <1> USE DEF versionVars
  <1>1. SessionRow(req[w])
    BY DEF IInv, OnboardingInv, Sessions
  <1>2. PICK loaded, new : loaded = req[w].loaded /\ new = req[w].new
    OBVIOUS
  <1>3. /\ req[w].table = "rollout" /\ req[w] # Idle
        /\ loaded \in RolloutRow /\ new \in RolloutRow /\ new.summary = Clean
        /\ Exists(new) /\ (Exists(loaded) => Exists(rollout))
    BY <1>1, <1>2 DEF CommitRollout, SessionRow, Idle
  <1>4. rollout \in RolloutRow /\ rollout' = Flushed(rollout, loaded, new)
    BY <1>2 DEF CommitRollout, IInv, OnboardingInv, Typed
  <1>5. UNCHANGED <<application, evaluation, samples, run, version, seen, reviewed>>
    BY DEF CommitRollout
  <1>6. Typed'
    BY <1>3, <1>4, <1>5, FlushRollout DEF CommitRollout, Done, IInv, OnboardingInv, Typed
  <1>7. Exists(rollout) => Exists(rollout)'
    BY <1>3, <1>4, FlushRollout DEF Exists
  <1>8. rollout'.summary = Clean
    <2>1. CASE Exists(loaded)
      BY <1>3, <1>4, <2>1, FlushRollout
      DEF IInv, OnboardingInv, SamplesSound, RolloutHasCleanSummary, Clean
    <2>2. CASE ~Exists(loaded)
      BY <1>3, <1>4, <2>2, FlushRollout
    <2> QED BY <2>1, <2>2
  <1>9. SamplesSound'
    BY <1>5, <1>8
    DEF SamplesSound, SampleCountBounded, RolloutHasCleanSummary, Clean, IInv, OnboardingInv
  <1>10. ASSUME Serial PROVE SerialVersion' /\ SerialRollout'
    <2>1. loaded = rollout /\ CleanPassedRun(run) /\ Linked(new.provider) /\ Explained(new)
      BY <1>2, <1>3, <1>10 DEF Serial, SerialSession
    <2>2. rollout' = new
      BY <1>3, <1>4, <2>1, FlushRollout
    <2>3. \A x : Linked(x) => Linked(x)'
      BY <1>5 DEF Linked
    <2>4. SerialVersion'
      BY <1>5, <1>10, <2>3 DEF Serial, SerialVersion, VersionSound
    <2>5. SerialRollout'
      BY <1>5, <1>10, <2>1, <2>2, <2>3 DEF Serial, SerialRollout
    <2> QED BY <2>4, <2>5
  <1> QED BY <1>3, <1>5, <1>6, <1>7, <1>9, <1>10, Closed DEF CommitRollout, RowsStay

-----------------------------------------------------------------------------
(* The handlers that open a session.                                        *)

LEMMA ApplicationOpened ==
    ASSUME IInv, NEW w \in Workers, UNCHANGED <<versionVars, rolloutVars>>,
           \/ \E body \in ProviderApplicationUpsertRequest : upsert_provider_application(w, body)
           \/ submit_provider_application(w)
    PROVE  IInv'
  <1> USE DEF versionVars, rolloutVars
  <1>1. application \in ApplicationRow
    BY DEF IInv, OnboardingInv, Typed
  <1>2. PICK new : /\ Holds(w, "application", application, new)
                   /\ new \in ApplicationRow /\ UNCHANGED <<application, evaluation>>
                   /\ application.status # "submitted"
    <2>1. CASE submit_provider_application(w)
      BY <1>1, <2>1 DEF submit_provider_application, ApplicationRow
    <2>2. ASSUME NEW body \in ProviderApplicationUpsertRequest, upsert_provider_application(w, body)
          PROVE  /\ Holds(w, "application", application, body)
                 /\ body \in ApplicationRow /\ UNCHANGED <<application, evaluation>>
                 /\ application.status # "submitted"
      <3>1. body \in ApplicationRow
        BY DEF ProviderApplicationUpsertRequest, ApplicationRow, ProviderNames
      <3>2. application.status = "submitted" => application = body
        BY <1>1, <2>2, <3>1
        DEF upsert_provider_application, _assert_submitted_application_immutable, ApplicationRow
      <3> QED BY <2>2, <3>1, <3>2 DEF upsert_provider_application, Holds
    <2> QED BY <2>1, <2>2
  <1>3. SessionRow([table |-> "application", loaded |-> application, new |-> new])
    BY <1>1, <1>2 DEF SessionRow
  <1>4. SerialSession([table |-> "application", loaded |-> application, new |-> new])
    BY <1>2 DEF SerialSession
  <1> QED BY <1>2, <1>3, <1>4, Opened DEF tableVars

LEMMA EvaluationOpened ==
    ASSUME IInv, NEW w \in Workers, UNCHANGED <<versionVars, rolloutVars>>,
           NEW body \in ProviderEvaluationUpsertRequest,
           upsert_provider_application_evaluation(w, body)
    PROVE  IInv'
  <1> USE DEF versionVars, rolloutVars, upsert_provider_application_evaluation
  <1>1. PICK new : new = [status |-> body.status, count |-> body.count,
                          provider |-> IF Exists(evaluation) THEN evaluation.provider
                                       ELSE application.provider]
    OBVIOUS
  <1>2. application \in ApplicationRow /\ evaluation \in EvaluationRow
    BY DEF IInv, OnboardingInv, Typed
  <1>3. new \in EvaluationRow
    BY <1>1, <1>2, SampleCountsAssumption
    DEF ProviderEvaluationUpsertRequest, EvaluationRow, ApplicationRow
  <1>4. SessionRow([table |-> "evaluation", loaded |-> evaluation, new |-> new])
    BY <1>2, <1>3 DEF SessionRow
  <1>5. Serial => SerialSession([table |-> "evaluation", loaded |-> evaluation, new |-> new])
    BY <1>1 DEF Serial, SerialRollout, SerialSession, Linked
  <1> QED BY <1>1, <1>4, <1>5, Opened DEF tableVars

LEMMA VersionOpened ==
    ASSUME IInv, NEW w \in Workers, UNCHANGED rolloutVars, NEW new \in VersionRow,
           HoldsVersion(w, new),
           Serial => /\ Exists(new) /\ VersionSound(new)
                     /\ new.record_version = version.record_version + 1
                     /\ \/ version.status \in {"none", "draft"} \/ new.status = "draft"
                        \/ Material(new) = Material(version)
    PROVE  IInv'
  <1> USE DEF versionVars, rolloutVars, HoldsVersion
  <1>1. version \in VersionRow
    BY DEF IInv, OnboardingInv, Typed
  <1>2. SessionRow([table |-> "version", loaded |-> version, new |-> new])
    BY <1>1 DEF SessionRow
  <1>3. Serial => SerialSession([table |-> "version", loaded |-> version, new |-> new])
    BY DEF SerialSession
  <1> QED BY <1>2, <1>3, Opened DEF tableVars

(* A handler writes only a row that is different, and counts the change. *)
LEMMA RecordedRow ==
    ASSUME NEW row \in VersionRow, NEW new \in VersionRow, Recorded(row, new) # row,
           new.record_version = row.record_version
    PROVE  /\ Recorded(row, new) \in VersionRow
           /\ Recorded(row, new) = [new EXCEPT !.record_version = row.record_version + 1]
  <1>1. Recorded(row, new) = [new EXCEPT !.record_version = row.record_version + 1]
    <2>1. CASE Changed(row, new)
      BY <2>1 DEF Recorded
    <2>2. CASE ~Changed(row, new)
      <3>1. Recorded(row, new) = [row EXCEPT !.record_version = row.record_version]
        BY <2>2 DEF Recorded, Changed
      <3>2. Recorded(row, new) = row
        BY <3>1 DEF VersionRow
      <3> QED BY <3>2
    <2> QED BY <2>1, <2>2
  <1> QED BY <1>1 DEF VersionRow

LEMMA VersionCreated ==
    ASSUME IInv, NEW w \in Workers, UNCHANGED rolloutVars,
           NEW body \in ProviderVersionUpdateUpsertRequest, create_provider_version_update(w, body)
    PROVE  IInv'
  <1>1. application \in ApplicationRow
    BY DEF IInv, OnboardingInv, Typed
  <1>2. PICK new : new = CreatedVersion(body)
    OBVIOUS
  <1>3. /\ body.status \in {"draft", "submitted"} /\ body.current \in Semvers
        /\ body.proposed \in Semvers /\ body.kind \in {"patch", "minor", "major"}
        /\ body.metadata \in MetadataIds
        /\ _validate_version_delta(body.current, body.proposed, body.kind)
    BY DEF ProviderVersionUpdateUpsertRequest
  <1>4. new = [status |-> body.status, provider |-> application.provider,
               current |-> body.current, proposed |-> body.proposed, kind |-> body.kind,
               notes |-> FALSE, metadata |-> body.metadata, record_version |-> 1]
    BY <1>2 DEF CreatedVersion, NoVersion
  <1>5. new \in VersionRow
    BY <1>1, <1>3, <1>4 DEF VersionRow, ApplicationRow
  <1>6. VersionSound(new)
    <2>1. application.status = "submitted"
      BY DEF create_provider_version_update
    <2> QED BY <1>3, <1>4, <2>1 DEF VersionSound, Linked
  <1>7. Serial => version.status = "none" /\ version.record_version = 0
    BY DEF create_provider_version_update, Serial, SerialVersion, NoVersion
  <1>8. Exists(new) /\ new.record_version = 1
    BY <1>3, <1>4 DEF Exists
  <1> QED BY <1>2, <1>5, <1>6, <1>7, <1>8, VersionOpened DEF create_provider_version_update

LEMMA VersionEdited ==
    ASSUME IInv, NEW w \in Workers, UNCHANGED rolloutVars,
           NEW body \in ProviderVersionUpdateUpsertRequest, upsert_provider_version_update(w, body)
    PROVE  IInv'
  <1>1. version \in VersionRow
    BY DEF IInv, OnboardingInv, Typed
  <1>2. PICK edited : edited = [version EXCEPT !.status = body.status, !.current = body.current,
                                  !.proposed = body.proposed, !.kind = body.kind,
                                  !.metadata = body.metadata]
    OBVIOUS
  <1>3. /\ body.status \in {"draft", "submitted"} /\ body.current \in Semvers
        /\ body.proposed \in Semvers /\ body.kind \in {"patch", "minor", "major"}
        /\ body.metadata \in MetadataIds
        /\ _validate_version_delta(body.current, body.proposed, body.kind)
    BY DEF ProviderVersionUpdateUpsertRequest
  <1>4. edited \in VersionRow /\ edited.record_version = version.record_version
    BY <1>1, <1>2, <1>3 DEF VersionRow
  <1>5. PICK new : new = Recorded(version, edited)
    OBVIOUS
  <1>6. HoldsVersion(w, new) /\ new # version
    BY <1>2, <1>5 DEF upsert_provider_version_update, EditedVersion, HoldsVersion, Holds
  <1>7. new \in VersionRow /\ new = [edited EXCEPT !.record_version = version.record_version + 1]
    BY <1>1, <1>4, <1>5, <1>6, RecordedRow
  <1>8. /\ new.status = body.status /\ new.provider = version.provider
        /\ new.current = body.current /\ new.proposed = body.proposed /\ new.kind = body.kind
        /\ new.record_version = version.record_version + 1
    BY <1>1, <1>2, <1>4, <1>7 DEF VersionRow
  <1>9. Exists(version) /\ _validate_version_update_row(version)
        /\ (version.status = "draft" \/ Material(version) = Material(body))
    BY DEF upsert_provider_version_update, _assert_submitted_version_material_unchanged
  <1>10. Material(new) = Material(body)
    BY <1>8 DEF Material
  <1>11. ASSUME Serial PROVE VersionSound(new)
    <2>1. Linked(new.provider)
      BY <1>8, <1>9, <1>11 DEF Serial, SerialVersion, VersionSound
    <2> QED BY <1>3, <1>8, <2>1 DEF VersionSound
  <1>12. Exists(new)
    BY <1>3, <1>8 DEF Exists
  <1> QED BY <1>6, <1>7, <1>8, <1>9, <1>10, <1>11, <1>12, VersionOpened

LEMMA VersionPatched ==
    ASSUME IInv, NEW w \in Workers, UNCHANGED rolloutVars,
           NEW body \in ProviderVersionUpdateStatusPatchRequest,
           patch_provider_version_update_status(w, body)
    PROVE  IInv'
  <1>1. version \in VersionRow
    BY DEF IInv, OnboardingInv, Typed
  <1>2. PICK edited : edited = [version EXCEPT !.status = body.status, !.notes = body.notes,
                                               !.metadata = body.metadata]
    OBVIOUS
  <1>3. /\ body.status \in {"draft", "submitted", "under_review", "approved", "rejected", "cancelled"}
        /\ body.notes \in BOOLEAN /\ body.metadata \in MetadataIds
    BY DEF ProviderVersionUpdateStatusPatchRequest
  <1>4. edited \in VersionRow /\ edited.record_version = version.record_version
    BY <1>1, <1>2, <1>3 DEF VersionRow
  <1>5. PICK new : new = Recorded(version, edited)
    OBVIOUS
  <1>6. HoldsVersion(w, new) /\ new # version
    BY <1>2, <1>5 DEF patch_provider_version_update_status, HoldsVersion, Holds
  <1>7. new \in VersionRow /\ new = [edited EXCEPT !.record_version = version.record_version + 1]
    BY <1>1, <1>4, <1>5, <1>6, RecordedRow
  <1>8. /\ new.status = body.status /\ new.provider = version.provider /\ new.notes = body.notes
        /\ new.current = version.current /\ new.proposed = version.proposed
        /\ new.kind = version.kind /\ new.record_version = version.record_version + 1
    BY <1>1, <1>2, <1>4, <1>7 DEF VersionRow
  <1>9. Exists(version)
    BY DEF patch_provider_version_update_status
  <1>10. Material(new) = Material(version)
    BY <1>8 DEF Material
  <1>11. ASSUME Serial, body.status \in {"approved", "rejected"} PROVE body.notes
    <2>1. CASE version.status = body.status
      <3>1. version.notes
        BY <1>9, <1>11, <2>1 DEF Serial, SerialVersion, VersionSound
      <3>2. body.notes = version.notes
        BY <1>11, <2>1
        DEF patch_provider_version_update_status, _assert_terminal_version_patch_idempotent
      <3> QED BY <3>1, <3>2
    <2>2. CASE version.status # body.status
      BY <1>11, <2>2 DEF patch_provider_version_update_status, _assert_version_status_transition
    <2> QED BY <2>1, <2>2
  <1>12. ASSUME Serial PROVE VersionSound(new)
    <2>1. VersionSound(version)
      BY <1>9, <1>12 DEF Serial, SerialVersion
    <2> QED BY <1>8, <1>11, <1>12, <2>1 DEF VersionSound
  <1>13. Exists(new)
    BY <1>3, <1>8 DEF Exists
  <1> QED BY <1>6, <1>7, <1>8, <1>10, <1>12, <1>13, VersionOpened

LEMMA VersionRead ==
    ASSUME IInv, NEW w \in Workers, UNCHANGED rolloutVars, get_provider_version_update(w)
    PROVE  IInv'
  <1> USE DEF rolloutVars, intakeVars, get_provider_version_update
  <1>1. /\ UNCHANGED <<overlaps, application, evaluation, req, version, reviewed, run, samples, rollout>>
        /\ seen' = [seen EXCEPT ![w] = version]
    OBVIOUS
  <1>2. seen \in [Workers -> VersionRow] /\ version \in VersionRow
    BY DEF IInv, OnboardingInv, Typed
  <1>3. Typed'
    BY <1>1, <1>2 DEF IInv, OnboardingInv, Typed
  <1>4. Sessions' /\ SamplesSound'
    BY <1>1 DEF IInv, OnboardingInv, Sessions, SessionRow, SamplesSound, SampleCountBounded,
                RolloutHasCleanSummary
  <1>5. ASSUME Serial PROVE Serial'
    <2>1. \A x : Linked(x) => Linked(x)'
      BY <1>1 DEF Linked
    <2>2. SerialVersion'
      BY <1>1, <1>2, <1>5, <2>1 DEF Serial, SerialVersion, VersionSound, VersionRow
    <2>3. SerialRollout'
      BY <1>1, <1>5, <2>1 DEF Serial, SerialRollout
    <2>4. \A v \in Workers : SerialSession(req[v])'
      <3> SUFFICES ASSUME NEW v \in Workers PROVE SerialSession(req[v])'
        OBVIOUS
      <3>1. PICK x : x = req[v]
        OBVIOUS
      <3>2. SerialSession(x)
        BY <1>5, <3>1 DEF Serial
      <3>3. SerialSession(x)'
        BY <1>1, <3>2, SessionRowStays DEF tableVars
      <3> QED BY <1>1, <3>1, <3>3
    <2> QED BY <1>1, <1>5, <2>2, <2>3, <2>4 DEF Serial
  <1> QED BY <1>1, <1>3, <1>4, <1>5 DEF IInv, OnboardingInv

LEMMA RunOpened ==
    ASSUME IInv, NEW w \in Workers, UNCHANGED versionVars,
           NEW body \in ProviderShadowRunUpsertRequest, upsert_provider_shadow_run(w, body)
    PROVE  IInv'
  <1> USE DEF versionVars, rolloutVars
  <1>1. run \in RunRow /\ evaluation \in EvaluationRow
    BY DEF IInv, OnboardingInv, Typed
  <1>2. PICK new : new = IF Exists(run)
                         THEN [run EXCEPT !.status = body.status, !.baseline = body.baseline]
                         ELSE CreatedRun(body)
    OBVIOUS
  <1>3. body.status \in {"draft", "running", "cancelled"} /\ body.baseline \in Baselines
    BY DEF ProviderShadowRunUpsertRequest
  <1>4. /\ Holds(w, "run", run, new) /\ UNCHANGED <<application, evaluation, run, samples, rollout>>
        /\ application.status = "submitted" /\ Exists(evaluation)
        /\ run.status \in {"none", "draft", "running"}
    BY <1>2 DEF upsert_provider_shadow_run, _resolve_shadow_evaluation, Exists
  <1>5. NoSummary \in Summary
    BY DEF NoSummary, Summary, ReasonNames
  <1>6. /\ new \in RunRow /\ new.status = body.status
        /\ Exists(run) => new.count = run.count /\ new.summary = run.summary
                          /\ new.provider = run.provider
        /\ ~Exists(run) => new.summary = NoSummary /\ new.provider = evaluation.provider
    <2>1. CASE Exists(run)
      <3>1. new = [run EXCEPT !.status = body.status, !.baseline = body.baseline]
        BY <1>2, <2>1
      <3> QED BY <1>1, <1>3, <2>1, <3>1 DEF RunRow
    <2>2. CASE ~Exists(run)
      <3>1. new = [status |-> body.status, provider |-> evaluation.provider,
                   count |-> evaluation.count, baseline |-> body.baseline, summary |-> NoSummary]
        BY <1>2, <2>2 DEF CreatedRun
      <3> QED BY <1>1, <1>3, <1>5, <2>2, <3>1 DEF RunRow, EvaluationRow
    <2> QED BY <2>1, <2>2
  <1>7. SessionRow([table |-> "run", loaded |-> run, new |-> new])
    BY <1>1, <1>3, <1>6 DEF SessionRow, Exists
  <1>8. Serial => SerialSession([table |-> "run", loaded |-> run, new |-> new])
    BY <1>3, <1>4, <1>6 DEF SerialSession, Serial, SerialRollout
  <1> QED BY <1>4, <1>7, <1>8, Opened DEF tableVars

LEMMA SampleOpened ==
    ASSUME IInv, NEW w \in Workers, UNCHANGED versionVars,
           NEW i \in SampleIds, NEW x \in Samples, upsert_provider_shadow_sample(w, i, x)
    PROVE  IInv'
  <1> USE DEF versionVars, rolloutVars, upsert_provider_shadow_sample
  <1>1. run \in RunRow
    BY DEF IInv, OnboardingInv, Typed
  <1>2. PICK new : new = [id |-> i, sample |-> x]
    OBVIOUS
  <1>3. SessionRow([table |-> "sample", loaded |-> run, new |-> new])
    BY <1>1, <1>2 DEF SessionRow, Exists
  <1>4. SerialSession([table |-> "sample", loaded |-> run, new |-> new])
    BY DEF SerialSession
  <1> QED BY <1>2, <1>3, <1>4, Opened DEF tableVars

LEMMA FinalizeOpened ==
    ASSUME IInv, NEW w \in Workers, UNCHANGED versionVars, finalize_provider_shadow_run(w)
    PROVE  IInv'
  <1> USE DEF versionVars, rolloutVars, finalize_provider_shadow_run
  <1>1. run \in RunRow
    BY DEF IInv, OnboardingInv, Typed
  <1>2. PICK new : new = [id |-> "all"]
    OBVIOUS
  <1>3. SessionRow([table |-> "finalize", loaded |-> run, new |-> new])
    BY <1>1 DEF SessionRow, Exists
  <1>4. SerialSession([table |-> "finalize", loaded |-> run, new |-> new])
    BY DEF SerialSession
  <1> QED BY <1>2, <1>3, <1>4, Opened DEF tableVars

LEMMA RolloutOpened ==
    ASSUME IInv, NEW w \in Workers, UNCHANGED versionVars, NEW new \in RolloutRow,
           HoldsRollout(w, new), Exists(new), new.summary = Clean,
           Serial => CleanPassedRun(run) /\ Linked(new.provider) /\ Explained(new)
    PROVE  IInv'
  <1> USE DEF versionVars, rolloutVars, HoldsRollout
  <1>1. rollout \in RolloutRow
    BY DEF IInv, OnboardingInv, Typed
  <1>2. SessionRow([table |-> "rollout", loaded |-> rollout, new |-> new])
    BY <1>1 DEF SessionRow
  <1>3. Serial => SerialSession([table |-> "rollout", loaded |-> rollout, new |-> new])
    BY DEF SerialSession
  <1> QED BY <1>2, <1>3, Opened DEF tableVars

(* The stages are climbed one by one. *)
LEMMA NextStage ==
    ASSUME NEW stage \in {0, 5, 50}
    PROVE  _next_rollout_stage(stage) \in {5, 50, 100}
  <1>1. \E k \in 1..Len(Stages) - 1 : Stages[k] = stage
    BY DEF Stages
  <1>2. PICK k : /\ k = (CHOOSE j \in 1..Len(Stages) - 1 : Stages[j] = stage)
                 /\ k \in 1..Len(Stages) - 1
    BY <1>1
  <1>3. k \in 1..3
    BY <1>2 DEF Stages
  <1>4. Stages[1 + k] \in {5, 50, 100}
    BY <1>3 DEF Stages
  <1> QED BY <1>2, <1>4 DEF _next_rollout_stage

Created == [action |-> "created", stage |-> 0, from |-> "none", to |-> "draft"]

LEMMA TimelinePoints ==
    ASSUME NEW r \in RolloutRow
    PROVE  /\ _route_share_timeline_points(r) \in Seq(Point)
           /\ Len(_route_share_timeline_points(r)) = Len(r.history) + 1
           /\ _route_share_timeline_points(r)[1] = Created
           /\ \A k \in 1..Len(r.history) : _route_share_timeline_points(r)[k + 1] = r.history[k]
  <1>1. r.history \in Seq(Point)
    BY DEF RolloutRow
  <1>2. Created \in Point
    BY DEF Created, Point, RolloutStatus
  <1>3. _route_share_timeline_points(r) = <<Created>> \o r.history
    BY DEF _route_share_timeline_points, Created
  <1> QED BY <1>1, <1>2, <1>3

(* A rollout that is created, or moved on from where it is, is explained. *)
LEMMA ExplainedCreated ==
    ASSUME NEW r \in RolloutRow, r.status = "draft", r.stage = 0, r.history = <<>>
    PROVE  Explained(r)
  BY TimelinePoints DEF Explained, Created

LEMMA ExplainedAppend ==
    ASSUME NEW r \in RolloutRow, NEW new \in RolloutRow, Explained(r),
           r.status \notin {"completed", "cancelled"},
           NEW point \in Point, new.history = Append(r.history, point),
           point.from = r.status, point.to = new.status, point.stage = new.stage,
           new.stage = IF point.action = "advance" THEN _next_rollout_stage(r.stage) ELSE r.stage
    PROVE  Explained(new)
  <1> DEFINE n == Len(r.history)
  <1>1. PICK old : old = _route_share_timeline_points(r)
    OBVIOUS
  <1>2. PICK points : points = _route_share_timeline_points(new)
    OBVIOUS
  <1>3. r.history \in Seq(Point) /\ n \in Nat /\ Len(new.history) = n + 1
    BY DEF RolloutRow
  <1>4. Len(old) = n + 1 /\ Len(points) = n + 2
    BY <1>1, <1>2, <1>3, TimelinePoints
  <1>5. ASSUME NEW k \in 1..n + 1 PROVE points[k] = old[k]
    <2>1. CASE k = 1
      BY <1>1, <1>2, <2>1, TimelinePoints
    <2>2. CASE k # 1
      <3>1. k - 1 \in 1..n /\ k - 1 \in 1..n + 1 /\ (k - 1) + 1 = k
        BY <1>3, <2>2
      <3>2. new.history[k - 1] = r.history[k - 1]
        BY <1>3, <3>1
      <3>3. points[k] = new.history[k - 1]
        BY <1>2, <1>3, <3>1, TimelinePoints
      <3>4. old[k] = r.history[k - 1]
        BY <1>1, <3>1, TimelinePoints
      <3> QED BY <3>2, <3>3, <3>4
    <2> QED BY <2>1, <2>2
  <1>6. points[n + 2] = point
    <2>1. n + 1 \in 1..Len(new.history) /\ new.history[n + 1] = point
      BY <1>3
    <2>2. points[(n + 1) + 1] = new.history[n + 1]
      BY <1>2, <2>1, TimelinePoints
    <2> QED BY <1>3, <2>1, <2>2
  <1>7. old[n + 1].to = r.status /\ old[n + 1].stage = r.stage
    BY <1>1, <1>4 DEF Explained
  <1> DEFINE Follows(s, k) ==
          /\ s[k].from = s[k - 1].to
          /\ s[k].from \notin {"completed", "cancelled"}
          /\ s[k].stage = IF s[k].action = "advance"
                          THEN _next_rollout_stage(s[k - 1].stage) ELSE s[k - 1].stage
  <1>8. ASSUME NEW k \in 2..n + 2 PROVE Follows(points, k)
    <2>1. CASE k = n + 2
      <3>1. points[k] = point /\ points[k - 1] = old[n + 1]
        BY <1>3, <1>5, <1>6, <2>1
      <3> QED BY <1>7, <3>1
    <2>2. CASE k # n + 2
      <3>1. k \in 2..n + 1 /\ k - 1 \in 1..n + 1 /\ k \in 1..n + 1
        BY <1>3, <2>2
      <3>2. Follows(old, k)
        BY <1>1, <1>4, <3>1 DEF Explained
      <3>3. points[k] = old[k] /\ points[k - 1] = old[k - 1]
        BY <1>5, <3>1
      <3> QED BY <3>2, <3>3
    <2> QED BY <2>1, <2>2
  <1> QED BY <1>2, <1>4, <1>6, <1>8 DEF Explained

LEMMA RolloutUpserted ==
    ASSUME IInv, NEW w \in Workers, UNCHANGED versionVars,
           NEW evidence \in Evidence, upsert_provider_rollout(w, evidence)
    PROVE  IInv'
  <1>1. rollout \in RolloutRow /\ run \in RunRow /\ SamplesSound
    BY DEF IInv, OnboardingInv, Typed
  <1>2. CleanPassedRun(run) /\ rollout.status \in {"none", "draft"}
    BY DEF upsert_provider_rollout
  <1>3. CASE Exists(rollout)
    <2>1. PICK new : new = [rollout EXCEPT !.evidence = evidence]
      OBVIOUS
    <2>2. HoldsRollout(w, new)
      BY <1>3, <2>1 DEF upsert_provider_rollout
    <2>3. /\ new \in RolloutRow /\ Exists(new) /\ new.summary = rollout.summary
          /\ new.provider = rollout.provider /\ new.history = rollout.history
          /\ new.status = rollout.status /\ new.stage = rollout.stage
      BY <1>1, <1>3, <2>1 DEF RolloutRow, Exists
    <2>4. new.summary = Clean
      BY <1>1, <1>3, <2>3 DEF SamplesSound, RolloutHasCleanSummary, Clean
    <2>5. Serial => Linked(new.provider) /\ Explained(new)
      BY <1>3, <2>3 DEF Serial, SerialRollout, Explained, _route_share_timeline_points
    <2> QED BY <1>2, <2>2, <2>3, <2>4, <2>5, RolloutOpened
  <1>4. CASE ~Exists(rollout)
    <2>1. PICK new : new = CreatedRollout(evidence)
      OBVIOUS
    <2>2. HoldsRollout(w, new)
      BY <1>4, <2>1 DEF upsert_provider_rollout
    <2>3. new = [status |-> "draft", provider |-> run.provider, stage |-> 0, history |-> <<>>,
                 summary |-> run.summary, evidence |-> evidence]
      BY <2>1 DEF CreatedRollout
    <2>4. new \in RolloutRow
      BY <1>1, <2>3 DEF RolloutRow, RunRow, RolloutStatus
    <2>5. new.summary = Clean
      BY <1>1, <1>2, <2>3 DEF SamplesSound, CleanPassedRun
    <2>6. Serial => Linked(new.provider)
      BY <1>2, <2>3 DEF Serial, SerialRollout, CleanPassedRun, Exists
    <2>7. Explained(new)
      BY <2>3, <2>4, ExplainedCreated
    <2>8. Exists(new)
      BY <2>3 DEF Exists
    <2> QED BY <1>2, <2>2, <2>4, <2>5, <2>6, <2>7, <2>8, RolloutOpened
  <1> QED BY <1>3, <1>4

(* Advance, pause and cancel append one point. *)
LEMMA RolloutMoved ==
    ASSUME IInv, NEW w \in Workers, UNCHANGED versionVars,
           NEW action \in {"advance", "pause", "cancel"}, NEW stage \in {0, 5, 50, 100},
           NEW to \in RolloutStatus \ {"none"}, Exists(rollout),
           rollout.status \notin {"completed", "cancelled"},
           stage = IF action = "advance" THEN _next_rollout_stage(rollout.stage) ELSE rollout.stage,
           HoldsRollout(w, _append_stage_history(action, stage, to))
    PROVE  IInv'
  <1>1. rollout \in RolloutRow /\ SamplesSound
    BY DEF IInv, OnboardingInv, Typed
  <1>2. PICK point : point = [action |-> action, stage |-> stage, from |-> rollout.status, to |-> to]
    OBVIOUS
  <1>3. PICK new : new = _append_stage_history(action, stage, to)
    OBVIOUS
  <1>4. point \in Point
    BY <1>1, <1>2 DEF Point, RolloutRow
  <1>5. PICK history : history = Append(rollout.history, point)
    OBVIOUS
  <1>6. history \in Seq(Point)
    BY <1>1, <1>4, <1>5 DEF RolloutRow
  <1>7. new = [rollout EXCEPT !.status = to, !.stage = stage, !.history = history]
    BY <1>1, <1>2, <1>3, <1>5 DEF _append_stage_history, RolloutRow
  <1>8. /\ new \in RolloutRow /\ new.status = to /\ new.stage = stage /\ new.history = history
        /\ new.summary = rollout.summary /\ new.provider = rollout.provider
    BY <1>1, <1>6, <1>7 DEF RolloutRow
  <1>9. new.summary = Clean /\ Exists(new)
    BY <1>1, <1>8 DEF SamplesSound, RolloutHasCleanSummary, Clean, Exists
  <1>10. ASSUME Serial PROVE CleanPassedRun(run) /\ Linked(new.provider) /\ Explained(new)
    <2>1. CleanPassedRun(run) /\ Linked(rollout.provider) /\ Explained(rollout)
      BY <1>10 DEF Serial, SerialRollout
    <2>2. /\ point.from = rollout.status /\ point.to = new.status /\ point.stage = new.stage
          /\ point.action = action
      BY <1>2, <1>8
    <2>3. Explained(new)
      BY <1>1, <1>4, <1>5, <1>8, <2>1, <2>2, ExplainedAppend
    <2> QED BY <1>8, <2>1, <2>3
  <1> QED BY <1>3, <1>8, <1>9, <1>10, RolloutOpened

LEMMA RolloutAdvanced ==
    ASSUME IInv, NEW w \in Workers, UNCHANGED versionVars,
           \/ advance_provider_rollout(w) \/ pause_provider_rollout(w) \/ cancel_provider_rollout(w)
    PROVE  IInv'
  <1>1. rollout.stage \in {0, 5, 50, 100}
    BY DEF IInv, OnboardingInv, Typed, RolloutRow
  <1>2. CASE advance_provider_rollout(w)
    <2>1. PICK stage : stage = _next_rollout_stage(rollout.stage)
      OBVIOUS
    <2>2. stage \in {5, 50, 100}
      BY <1>1, <1>2, <2>1, NextStage DEF advance_provider_rollout
    <2>3. PICK to : to = IF stage = 100 THEN "completed" ELSE "active"
      OBVIOUS
    <2>4. to \in RolloutStatus \ {"none"}
      BY <2>3 DEF RolloutStatus
    <2>5. /\ Exists(rollout) /\ rollout.status \in {"draft", "active", "paused"}
          /\ HoldsRollout(w, _append_stage_history("advance", stage, to))
      BY <1>2, <2>1, <2>3 DEF advance_provider_rollout, Resolved
    <2> QED BY <2>1, <2>2, <2>4, <2>5, RolloutMoved
  <1>3. CASE pause_provider_rollout(w)
    BY <1>1, <1>3, RolloutMoved DEF pause_provider_rollout, Resolved, RolloutStatus
  <1>4. CASE cancel_provider_rollout(w)
    BY <1>1, <1>4, RolloutMoved DEF cancel_provider_rollout, Resolved, RolloutStatus
  <1> QED BY <1>2, <1>3, <1>4

-----------------------------------------------------------------------------
LEMMA IInvStep == IInv /\ [Next]_vars => IInv'
  <1> SUFFICES ASSUME IInv, [Next]_vars PROVE IInv'
    OBVIOUS
  <1>1. CASE UNCHANGED vars
    <2>1. UNCHANGED <<tableVars, seen, req, overlaps>>
      BY <1>1 DEF vars, intakeVars, versionVars, rolloutVars, tableVars
    <2>2. Typed' /\ SamplesSound'
      BY <2>1, TablesStay DEF IInv, OnboardingInv, Typed, tableVars
    <2>3. ASSUME NEW v \in Workers
          PROVE  SessionRow(req[v])' /\ (Serial => SerialSession(req[v])')
      <3>1. PICK x : x = req[v]
        OBVIOUS
      <3>2. SessionRow(x) /\ (Serial => SerialSession(x))
        BY <3>1 DEF IInv, OnboardingInv, Sessions, Serial
      <3>3. SessionRow(x)' /\ (Serial => SerialSession(x)')
        BY <2>1, <3>2, SessionRowStays
      <3> QED BY <2>1, <3>1, <3>3
    <2>4. Serial => Serial'
      BY <2>1, <2>3, TablesStay DEF Serial
    <2> QED BY <2>1, <2>2, <2>3, <2>4 DEF IInv, OnboardingInv, Sessions
  <1>2. ASSUME NEW w \in Workers, IntakeNext(w), UNCHANGED <<versionVars, rolloutVars>>
        PROVE  IInv'
    <2>1. CASE Rollback(w)
      BY <1>2, <2>1, RolledBack DEF Rollback, versionVars, rolloutVars, tableVars
    <2> QED BY <1>2, <2>1, ApplicationOpened, ApplicationCommitted, EvaluationOpened,
               EvaluationCommitted DEF IntakeNext
  <1>3. ASSUME NEW w \in Workers, VersionNext(w), UNCHANGED rolloutVars
        PROVE  IInv'
    BY <1>3, VersionCreated, VersionEdited, VersionPatched, VersionRead, VersionCommitted
    DEF VersionNext
  <1>4. ASSUME NEW w \in Workers, RolloutNext(w), UNCHANGED versionVars
        PROVE  IInv'
    BY <1>4, RunOpened, RunCommitted, SampleOpened, SampleCommitted, FinalizeOpened,
       FinalizeCommitted, RolloutUpserted, RolloutAdvanced, RolloutCommitted
    DEF RolloutNext
  <1> QED BY <1>1, <1>2, <1>3, <1>4 DEF Next

LEMMA IInvAlways == Spec => []IInv
  <1>1. Init => IInv
    BY OnboardingInit, SerialInit DEF IInv
  <1> QED BY <1>1, IInvStep, PTL DEF Spec

(* Version updates, for any number of clients and record versions: as long *)
(* as no requests overlap, an ETag that matches stands for the row as it   *)
(* was seen, what is approved is what was submitted, and the stored update *)
(* never drifts from its application.                                      *)
THEOREM VersionReviewAlwaysSound == Spec => []VersionReviewSound
  <1>1. IInv => VersionReviewSound
    <2> SUFFICES ASSUME IInv PROVE VersionReviewSound
      OBVIOUS
    <2>1. ASSUME overlaps = 0
          PROVE  /\ \A w \in Workers :
                       seen[w].record_version = version.record_version => seen[w] = version
                 /\ Material(version) = reviewed
                 /\ version.status \in {"approved", "rejected"} => version.notes
                 /\ Exists(version) => _validate_version_update_row(version)
      <3>1. SerialVersion
        BY <2>1 DEF IInv, Serial
      <3> QED BY <3>1 DEF SerialVersion, VersionSound, Linked, _validate_version_update_row, Exists
    <2> QED BY <2>1 DEF VersionReviewSound, EtagIdentifiesContent, ApprovedAsSubmitted,
                        VersionNeverDrifts
  <1> QED BY <1>1, IInvAlways, PTL

(* The route-share timeline, for a stage history of any length: as long as *)
(* no requests overlap, it is the whole story of the rollout.              *)
THEOREM TimelineAlwaysExplainsRollout == Spec => []TimelineExplainsRollout
  <1>1. IInv => TimelineExplainsRollout
    <2> SUFFICES ASSUME IInv, overlaps = 0, Exists(rollout)
                 PROVE  TimelineExplainsRollout
      BY DEF TimelineExplainsRollout
    <2>1. Linked(rollout.provider) /\ Explained(rollout)
      BY DEF IInv, Serial, SerialRollout
    <2>2. rollout \in RolloutRow
      BY DEF IInv, OnboardingInv, Typed
    <2>3. PICK points : points = _route_share_timeline_points(rollout)
      OBVIOUS
    <2>4. /\ get_provider_route_share_dashboard(application.provider).timeline = points
          /\ get_provider_route_share_dashboard(application.provider).highest_stage = rollout.stage
      BY <2>1, <2>3 DEF get_provider_route_share_dashboard, OfProvider, Linked
    <2>5. points \in Seq(Point) /\ Len(points) = Len(rollout.history) + 1
      BY <2>2, <2>3, TimelinePoints
    <2>6. points # <<>>
      <3>1. Len(rollout.history) \in Nat
        BY <2>2 DEF RolloutRow
      <3> QED BY <2>5, <3>1
    <2>7. Last(points).to = rollout.status /\ Last(points).stage = rollout.stage
      BY <2>1, <2>3 DEF Explained, Last
    <2>8. \A k \in 2..Len(points) :
            /\ points[k].from = points[k - 1].to
            /\ points[k].from \notin {"completed", "cancelled"}
            /\ points[k].stage = IF points[k].action = "advance"
                                 THEN _next_rollout_stage(points[k - 1].stage)
                                 ELSE points[k - 1].stage
      BY <2>1, <2>3 DEF Explained
    <2> QED BY <2>4, <2>6, <2>7, <2>8 DEF TimelineExplainsRollout
  <1> QED BY <1>1, IInvAlways, PTL

-----------------------------------------------------------------------------
(* The thresholds the KPI dashboard computes again.                         *)

LEMMA Least ==
    ASSUME NEW S \in SUBSET Nat, S # {}
    PROVE  Min(S) \in S
  <1>1. IsWellFoundedOn(OpToRel(<, Nat), Nat)
    BY NatLessThanWellFounded
  <1>2. PICK x \in S : \A y \in S : ~(<<y, x>> \in OpToRel(<, Nat))
    BY <1>1, WFMin
  <1>3. \A y \in S : ~(y < x)
    BY <1>2 DEF OpToRel
  <1>4. \A y \in S : x =< y
    BY <1>3
  <1> QED BY <1>2, <1>4 DEF Min

(* The rank is reached: by the greatest value at the latest. *)
LEMMA P95Type ==
    ASSUME NEW ids, IsFiniteSet(ids), NEW v \in [ids -> Nat]
    PROVE  _nearest_rank_p95(ids, v) \in Nat
  <1> DEFINE n == Cardinality(ids)
             rank == (95 * n + 99) \div 100
             below(j) == {k \in ids : v[k] <= v[j]}
             reach == {j \in ids : Cardinality(below(j)) >= rank}
             values == {v[i] : i \in reach}
  <1>1. n \in Nat
    BY FS_CardinalityType
  <1>2. CASE n = 0
    BY <1>2 DEF _nearest_rank_p95
  <1>3. CASE n # 0
    <2>1. ids # {}
      BY <1>3, FS_EmptySet
    <2>2. \A j \in ids : IsFiniteSet(below(j)) /\ Cardinality(below(j)) \in 0..n
      <3> SUFFICES ASSUME NEW j \in ids
                   PROVE  IsFiniteSet(below(j)) /\ Cardinality(below(j)) \in 0..n
        OBVIOUS
      <3>1. below(j) \in SUBSET ids
        OBVIOUS
      <3>2. IsFiniteSet(below(j)) /\ Cardinality(below(j)) <= n
        BY <3>1, FS_Subset
      <3>3. Cardinality(below(j)) \in Nat
        BY <3>2, FS_CardinalityType
      <3> QED BY <1>1, <3>2, <3>3
    <2>3. PICK j \in ids : \A k \in ids : Cardinality(below(k)) <= Cardinality(below(j))
      <3> DEFINE gaps == {n - Cardinality(below(k)) : k \in ids}
      <3> HIDE DEF n, below
      <3>1. gaps \in SUBSET Nat /\ gaps # {}
        BY <1>1, <2>1, <2>2
      <3>2. IsWellFoundedOn(OpToRel(<, Nat), Nat)
        BY NatLessThanWellFounded
      <3>3. PICK g \in gaps : \A h \in gaps : ~(<<h, g>> \in OpToRel(<, Nat))
        BY <3>1, <3>2, WFMin
      <3>4. \A h \in gaps : g <= h
        <4> HIDE DEF gaps
        <4>1. \A h \in gaps : ~(h < g)
          BY <3>1, <3>3 DEF OpToRel
        <4> QED BY <3>1, <4>1
      <3>5. PICK j \in ids : g = n - Cardinality(below(j))
        OBVIOUS
      <3>6. \A k \in ids : n - Cardinality(below(j)) <= n - Cardinality(below(k))
        BY <3>4, <3>5
      <3> QED BY <1>1, <2>2, <3>6
    <2>4. \A k \in ids : v[k] <= v[j]
      <3> SUFFICES ASSUME NEW k \in ids, ~(v[k] <= v[j]) PROVE FALSE
        OBVIOUS
      <3>1. v[k] \in Nat /\ v[j] \in Nat /\ \A i \in ids : v[i] \in Nat
        OBVIOUS
      <3>2. k \notin below(j) /\ below(j) \cup {k} \in SUBSET below(k)
        BY <3>1
      <3>3. Cardinality(below(j) \cup {k}) = Cardinality(below(j)) + 1
        BY <2>2, <3>2, FS_AddElement
      <3>4. Cardinality(below(j) \cup {k}) <= Cardinality(below(k))
        BY <2>2, <3>2, FS_Subset
      <3> HIDE DEF below, n
      <3>5. Cardinality(below(k)) <= Cardinality(below(j))
        BY <2>3
      <3>6. Cardinality(below(k)) \in Nat /\ Cardinality(below(j)) \in Nat
        BY <1>1, <2>2
      <3> QED BY <3>3, <3>4, <3>5, <3>6
    <2>5. below(j) = ids
      BY <2>4
    <2>6. n >= rank
      <3> HIDE DEF n
      <3> QED BY <1>1, <1>3
    <2>7. j \in reach
      BY <2>5, <2>6
    <2>8. values \in SUBSET Nat /\ values # {}
      BY <2>7
    <2>9. Min(values) \in Nat
      BY <2>8, Least
    <2> QED BY <1>3, <2>9 DEF _nearest_rank_p95
  <1> QED BY <1>2, <1>3

(* A run without a reason against it shows no violation. *)
LEMMA NoViolations ==
    ASSUME NEW count, NEW s \in [SampleIds -> Samples \cup {NoSample}], IsFiniteSet(Stored(s)),
           FailedReasons(count, s) = {}
    PROVE  _kpi_run_metric(s).violations = {}
  <1>1. /\ Cardinality(Stored(s)) = MinSamples
        /\ ~(DaySpan(s) < MinDays) /\ Missing(s) = {} /\ ~(SuccessRate(s) < MinSuccess)
        /\ ~(AverageDeviation(s) > MaxDeviation) /\ ~TooSlow(s)
    <2> DEFINE n == Cardinality(Stored(s))
    <2>1. /\ Reason("sample_count_mismatch", n # count \/ n # MinSamples) = {}
          /\ Reason("observed_day_span_below_threshold", DaySpan(s) < MinDays) = {}
          /\ Reason("coverage_class_missing", Missing(s) # {}) = {}
          /\ Reason("success_rate_below_threshold", SuccessRate(s) < MinSuccess) = {}
          /\ Reason("average_deviation_above_threshold", AverageDeviation(s) > MaxDeviation) = {}
          /\ Reason("p95_latency_ratio_above_threshold", TooSlow(s)) = {}
      BY DEF FailedReasons
    <2>2. \A name, holds : Reason(name, holds) = {} => ~holds
      BY DEF Reason
    <2> QED BY <2>1, <2>2
  <1>2. Stored(s) # {}
    <2>1. MinSamples # 0
      BY ThresholdAssumption
    <2> QED BY <1>1, <2>1, FS_EmptySet
  <1>3. ~(P95Ratio(s) > MaxLatencyRatio)
    <2>1. PICK provider, baseline :
            /\ provider = _nearest_rank_p95(Stored(s), [i \in Stored(s) |-> s[i].provider_ms])
            /\ baseline = _nearest_rank_p95(Stored(s), [i \in Stored(s) |-> s[i].baseline_ms])
      OBVIOUS
    <2>2. [i \in Stored(s) |-> s[i].baseline_ms] \in [Stored(s) -> Nat]
      <3> SUFFICES ASSUME NEW i \in Stored(s) PROVE s[i].baseline_ms \in Nat
        OBVIOUS
      <3>1. s[i] \in Samples
        BY DEF Stored
      <3>2. s[i] \in [class : Classes, at : Nat, ok : BOOLEAN, timed_out : BOOLEAN,
                      deviation : Nat, provider_ms : Nat \ {0}, baseline_ms : Nat \ {0}]
        BY <3>1, SampleAssumption
      <3> QED BY <3>2
    <2>3. baseline \in Nat
      BY <2>1, <2>2, P95Type
    <2>4. ~(baseline <= 0) /\ ~(Quantized(provider * Quantum, baseline) > MaxLatencyRatio)
      BY <1>1, <2>1 DEF TooSlow
    <2>5. baseline > 0
      BY <2>3, <2>4
    <2>6. P95Ratio(s) = Quantized(provider * Quantum, baseline)
      BY <2>1, <2>5 DEF P95Ratio
    <2> QED BY <2>4, <2>6
  <1>4. PICK metrics : metrics = _kpi_metrics(s)
    OBVIOUS
  <1>5. /\ metrics.sample_count = MinSamples /\ metrics.success_rate = SuccessRate(s)
        /\ metrics.deviation = AverageDeviation(s) /\ ~metrics.empty
        /\ metrics.p95_ratio = P95Ratio(s)
    BY <1>1, <1>2, <1>4 DEF _kpi_metrics
  <1>6. \A c \in Classes : ~(_kpi_coverage_counts(s)[c] < MinPerClass)
    BY <1>1 DEF Missing, _kpi_coverage_counts
  <1>7. \A name, holds : ~holds => Reason(name, holds) = {}
    BY DEF Reason
  <1>8. _kpi_threshold_violations(metrics, _kpi_coverage_counts(s), DaySpan(s)) = {}
    <2>1. PICK a, b, c, d, e, f :
            /\ a = Reason("sample_count_mismatch", metrics.sample_count # MinSamples)
            /\ b = Reason("observed_day_span_below_threshold", DaySpan(s) < MinDays)
            /\ c = Reason("coverage_class_missing",
                          \E x \in Classes : _kpi_coverage_counts(s)[x] < MinPerClass)
            /\ d = Reason("success_rate_below_threshold", metrics.success_rate < MinSuccess)
            /\ e = Reason("average_deviation_above_threshold", metrics.deviation > MaxDeviation)
            /\ f = Reason("p95_latency_ratio_above_threshold",
                          metrics.empty \/ metrics.p95_ratio > MaxLatencyRatio)
      OBVIOUS
    <2>2. a = {} /\ b = {} /\ c = {} /\ d = {} /\ e = {} /\ f = {}
      BY <1>1, <1>3, <1>5, <1>6, <1>7, <2>1
    <2>3. _kpi_threshold_violations(metrics, _kpi_coverage_counts(s), DaySpan(s))
             = UNION {a, b, c, d, e, f}
      BY <2>1, Zenon DEF _kpi_threshold_violations
    <2> QED BY <2>2, <2>3
  <1> QED BY <1>4, <1>8 DEF _kpi_run_metric

(* A rollout, for any thresholds, samples and interleaving: it exists only *)
(* with a clean summary over the required number of samples; and as long   *)
(* as no requests overlap, the verdict is the one the stored samples       *)
(* justify, the dashboard that computes the thresholds again shows no      *)
(* violation, and the provider is the applicant.                           *)
THEOREM RolloutAlwaysEarned == Spec => []RolloutEarned
  <1>1. IInv => RolloutEarned
    <2> SUFFICES ASSUME IInv PROVE RolloutEarned
      OBVIOUS
    <2>1. SampleCountBounded /\ RolloutHasCleanSummary /\ IsFiniteSet(Stored(samples))
          /\ samples \in [SampleIds -> Samples \cup {NoSample}]
      BY DEF IInv, OnboardingInv, Typed, SamplesSound
    <2>2. overlaps = 0 => SerialRollout
      BY DEF IInv, Serial
    <2>3. CopiedProviderAgrees
      BY <2>2 DEF CopiedProviderAgrees, SerialRollout, Linked
    <2>4. ASSUME overlaps = 0, Exists(rollout), NEW from, NEW to, Covers(from, to)
          PROVE  LET shown == get_provider_kpi_dashboard(application.provider, from, to) IN
                 /\ Len(shown.run_metrics) = 1 /\ Head(shown.run_metrics).violations = {}
                 /\ shown.rollout_summary.highest_stage =
                       get_provider_route_share_dashboard(application.provider).highest_stage
      <3>1. /\ Linked(rollout.provider) /\ CleanPassedRun(run) /\ Exists(run) /\ Linked(run.provider)
            /\ run.summary = _shadow_summary_from_samples(run.count, samples)
        BY <2>2, <2>4 DEF SerialRollout, CleanPassedRun, Finalized, Exists
      <3>2. FailedReasons(run.count, samples) = {}
        BY <3>1 DEF CleanPassedRun, _shadow_summary_from_samples
      <3>3. _kpi_filter_samples_by_window(samples, from, to) = samples
        BY <2>1, <2>4 DEF _kpi_filter_samples_by_window, Covers, Stored
      <3>4. PICK shown : shown = get_provider_kpi_dashboard(application.provider, from, to)
        OBVIOUS
      <3>5. shown.run_metrics = <<_kpi_run_metric(samples)>>
            /\ shown.rollout_summary = _kpi_rollout_summary(application.provider)
        BY <3>1, <3>3, <3>4 DEF get_provider_kpi_dashboard, OfProvider, Linked
      <3>6. _kpi_run_metric(samples).violations = {}
        BY <2>1, <3>2, NoViolations
      <3>7. Len(shown.run_metrics) = 1 /\ Head(shown.run_metrics).violations = {}
        BY <3>5, <3>6
      <3>8. shown.rollout_summary.highest_stage =
               get_provider_route_share_dashboard(application.provider).highest_stage
        BY <3>5 DEF _kpi_rollout_summary, get_provider_route_share_dashboard
      <3> QED BY <3>4, <3>7, <3>8
    <2>5. VerdictMatchesSamples
      BY <2>2, <2>4 DEF VerdictMatchesSamples, SerialRollout, CleanPassedRun
    <2> QED BY <2>1, <2>3, <2>5 DEF RolloutEarned
  <1> QED BY <1>1, IInvAlways, PTL
=============================================================================
