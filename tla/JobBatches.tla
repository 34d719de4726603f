----------------------------- MODULE JobBatches -----------------------------
(***************************************************************************)
(* A batch of async optimizations as its owner sees it: the status and     *)
(* progress that are computed from the children on every read, while a     *)
(* worker (external) moves the children on and the owner cancels some; and *)
(* the grading of a class's optimizations, which reads them one by one     *)
(* while they change.                                                      *)
(***************************************************************************)
EXTENDS Integers, Sequences, SequencesExt, FiniteSets, FiniteSetsExt

CONSTANTS
    BatchSize,      \* children of the batch
    RawProgress     \* values a worker writes as progress_pct, in any range

ASSUME BatchAssumption == BatchSize \in Nat /\ RawProgress \subseteq Int

VARIABLES
    children,       \* index -> [status, raw, teaching, solution]
    grading,        \* the items graded so far, while a grading is under way
    graded          \* the stored grading: its items and two counts

batchVars == <<children, grading, graded>>

Unfinished == {"queued", "in_progress"}
Failures == {"failed", "timeout", "cancelled"}
CRITERION_POINTS == 25
MAX_SCORE == 100

NotGrading == <<[status |-> "none", score |-> 0]>>
NoGrades == [items |-> <<>>, graded_count |-> 0, not_gradable_count |-> 0]

(* The children are queued together with the batch, or none is. *)
BatchInit ==
    /\ children \in [1..BatchSize -> {[status |-> "queued", raw |-> 0, teaching |-> t, solution |-> FALSE] :
                                        t \in BOOLEAN}]
    /\ grading = NotGrading /\ graded = NoGrades

(***************************************************************************)
(* The children.                                                           *)
(***************************************************************************)
(* A worker starts a child, reports progress, or ends it (external). *)
WorkerStarts(i) ==
    /\ children[i].status = "queued"
    /\ children' = [children EXCEPT ![i].status = "in_progress"]
    /\ UNCHANGED <<grading, graded>>

WorkerReports(i) ==
    /\ children[i].status = "in_progress"
    /\ \E raw \in RawProgress : raw > children[i].raw /\ children' = [children EXCEPT ![i].raw = raw]
    /\ UNCHANGED <<grading, graded>>

WorkerEnds(i) ==
    /\ children[i].status = "in_progress"
    /\ \E status \in {"completed", "failed", "timeout"} :
         children' = [children EXCEPT ![i].status = status, ![i].solution = (status = "completed")]
    /\ UNCHANGED <<grading, graded>>

(* DELETE on a child, which is locked, cancels it while it is active. *)
CancelChild(i) ==
    /\ children[i].status \in Unfinished
    /\ children' = [children EXCEPT ![i].status = "cancelled"]
    /\ UNCHANGED <<grading, graded>>

(***************************************************************************)
(* What a read of the batch shows.                                         *)
(***************************************************************************)
Count(cs, statuses) == Cardinality({i \in DOMAIN cs : cs[i].status \in statuses})

_batch_status_from_counts(cs) ==
    LET total == Cardinality(DOMAIN cs)
    IN  IF Count(cs, {"queued"}) = total THEN "queued"
        ELSE IF Count(cs, Unfinished) > 0 THEN "in_progress"
        ELSE IF Count(cs, {"completed"}) = total THEN "completed"
        ELSE IF Count(cs, {"cancelled"}) = total THEN "cancelled"
        ELSE IF Count(cs, {"completed"}) > 0 /\ Count(cs, Failures) > 0 THEN "partial_failed"
        ELSE "failed"

(* The progress of a failed child is dropped. *)
_status_progress_fieldsReset(c) ==
    IF c.status = "completed" THEN 100
    ELSE IF c.status = "in_progress" THEN Max({0, Min({99, c.raw})})
    ELSE 0

_status_progress_fields(c) ==
    IF c.status = "completed" THEN 100
    ELSE IF c.status = "in_progress" THEN Max({0, Min({99, c.raw})})
    ELSE IF c.status \in Failures THEN Max({0, Min({100, c.raw})})
    ELSE 0

_batch_progress_pct(cs) ==
    IF _batch_status_from_counts(cs) = "completed" THEN 100
    ELSE Min({99, MapThenSumSet(LAMBDA i : _status_progress_fields(cs[i]), DOMAIN cs)
                    \div Cardinality(DOMAIN cs)})

(***************************************************************************)
(* Grading.                                                                *)
(***************************************************************************)
(* An optimization is graded when all four criteria are met, and then gets *)
(* the points of all four.                                                 *)
Criteria(c) == <<c.teaching, c.status = "completed", c.solution, c.teaching>>

_build_teaching_grading_result(c) ==
    LET can_grade == \A k \in DOMAIN Criteria(c) : Criteria(c)[k]
    IN  [status |-> IF can_grade THEN "graded" ELSE "not_gradable",
         score |-> IF can_grade THEN CRITERION_POINTS * Len(Criteria(c)) ELSE 0]

StartGrading ==
    /\ grading = NotGrading /\ graded = NoGrades
    /\ grading' = <<>> /\ UNCHANGED <<children, graded>>

(* The next submission is read and graded. *)
GradeNext ==
    /\ grading # NotGrading /\ Len(grading) < BatchSize
    /\ grading' = Append(grading, _build_teaching_grading_result(children[Len(grading) + 1]))
    /\ UNCHANGED <<children, graded>>

(* Items, counts and key row are committed together. *)
create_teaching_grading_batch ==
    /\ grading # NotGrading /\ Len(grading) = BatchSize
    /\ graded' = [items |-> grading,
                  graded_count |-> Cardinality({i \in DOMAIN grading : grading[i].status = "graded"}),
                  not_gradable_count |-> Cardinality({i \in DOMAIN grading : grading[i].status # "graded"})]
    /\ grading' = NotGrading /\ UNCHANGED children

BatchNext ==
    \/ \E i \in 1..BatchSize :
         WorkerStarts(i) \/ WorkerReports(i) \/ WorkerEnds(i) \/ CancelChild(i)
    \/ StartGrading \/ GradeNext \/ create_teaching_grading_batch

-----------------------------------------------------------------------------
(* A terminal answer about a batch is final, a batch never looks queued    *)
(* again after it moved, and the progress an owner watches never falls,    *)
(* reaches 100 exactly when every child completed, and is 99 at most while *)
(* anything is still running or has failed.                                *)
WatchedBatchMovesForward ==
    [][LET before == _batch_status_from_counts(children)
           after == _batch_status_from_counts(children')
       IN  /\ before \notin Unfinished => after = before
           /\ after = "queued" => before = "queued"
           /\ after \notin Unfinished <=> \A i \in DOMAIN children' : children'[i].status \notin Unfinished
           /\ _batch_progress_pct(children') >= _batch_progress_pct(children)
           /\ _batch_progress_pct(children') = 100 <=> after = "completed"]_batchVars

(* A grade stays justified after it was given although the optimizations   *)
(* were read at different moments: graded items are completed with a       *)
(* solution, they have the full score and the others none, and the counts  *)
(* account for every submission.                                           *)
GradesStayJustified ==
    graded # NoGrades =>
        /\ graded.graded_count + graded.not_gradable_count = BatchSize
        /\ graded.graded_count = Cardinality({i \in 1..BatchSize : graded.items[i].score = MAX_SCORE})
        /\ \A i \in 1..BatchSize :
             IF graded.items[i].status = "graded"
             THEN /\ graded.items[i].score = MAX_SCORE
                  /\ children[i].status = "completed" /\ children[i].solution /\ children[i].teaching
             ELSE graded.items[i].score = 0
=============================================================================
