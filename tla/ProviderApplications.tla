------------------------ MODULE ProviderApplications ------------------------
(***************************************************************************)
(* Provider onboarding in capability-registry, its first part: one         *)
(* provider application and one evaluation request of it.                  *)
(*                                                                         *)
(* A handler takes two steps.  In the first it loads what it needs and     *)
(* makes every check; the row it is about to write is then in its session. *)
(* In the second the session is flushed and committed (OrmSession).        *)
(* Other handlers run in between; overlaps counts how often a request      *)
(* began while another was being handled, so that as long as it is 0 every *)
(* client has waited for the answers of the others.  A request that is     *)
(* refused, or would write nothing, leaves no trace and is left out.       *)
(***************************************************************************)
EXTENDS OrmSession, Integers, FiniteSetsExt, SequencesExt

CONSTANTS
    Workers,       \* handlers that can run at the same time
    Providers,     \* values of requested_provider_id
    Taken,         \* those another application of the scope has requested
    Materials,     \* everything else a submitted application freezes
    SampleCounts,  \* values of an evaluation's sample_count
    MaxOverlaps    \* bound: requests that begin while another is handled

ASSUME TakenAssumption == Taken \subseteq Providers
ASSUME SampleCountsAssumption == SampleCounts \subseteq Nat \ {0} /\ MaxOverlaps \in Nat

VARIABLES
    overlaps,     \* requests that began while another was handled
    application,  \* the provider_applications row
    evaluation,   \* the provider_application_evaluation_requests row
    req           \* what each worker's session holds

intakeVars == <<overlaps, application, evaluation, req>>

NoProvider == "no provider"

NoApplication == [status |-> "none", provider |-> NoProvider, material |-> "none"]
NoEvaluation == [status |-> "none", provider |-> NoProvider, count |-> 0]

Idle == [table |-> "none"]

IntakeInit ==
    /\ overlaps = 0
    /\ application = NoApplication
    /\ evaluation = NoEvaluation
    /\ req = [w \in Workers |-> Idle]

-----------------------------------------------------------------------------
Pending == {w \in Workers : req[w] # Idle}

(* The session of w holds new, made from the copy it has loaded. *)
Holds(w, table, loaded, new) ==
    /\ req[w] = Idle
    /\ new # loaded
    /\ overlaps' = IF Pending = {} THEN overlaps ELSE overlaps + 1
    /\ overlaps' <= MaxOverlaps
    /\ req' = [req EXCEPT ![w] = [table |-> table, loaded |-> loaded, new |-> new]]

Done(w) ==
    /\ req' = [req EXCEPT ![w] = Idle]
    /\ UNCHANGED overlaps

(* The handler raised, lost its connection or died: the transaction is     *)
(* rolled back.                                                            *)
Rollback(w) ==
    /\ req[w] # Idle
    /\ Done(w)
    /\ UNCHANGED <<application, evaluation>>

-----------------------------------------------------------------------------
ProviderApplicationUpsertRequest ==
    [status : {"draft", "submitted"}, provider : Providers, material : Materials]

_assert_submitted_application_immutable(row, body) ==
    row.provider = body.provider /\ row.material = body.material

upsert_provider_application(w, body) ==
    /\ body.provider \notin Taken
    /\ application.status = "submitted" =>
          /\ body.status = "submitted"
          /\ _assert_submitted_application_immutable(application, body)
    /\ Holds(w, "application", application, body)
    /\ UNCHANGED <<application, evaluation>>

submit_provider_application(w) ==
    /\ application.status = "draft"
    /\ Holds(w, "application", application, [application EXCEPT !.status = "submitted"])
    /\ UNCHANGED <<application, evaluation>>

CommitApplication(w) ==
    /\ req[w].table = "application"
    /\ Insertable(application, req[w].loaded)
    /\ application' = Flushed(application, req[w].loaded, req[w].new)
    /\ Done(w)
    /\ UNCHANGED evaluation

-----------------------------------------------------------------------------
ProviderEvaluationUpsertRequest ==
    [status : {"requested", "queued", "cancelled"}, count : SampleCounts]

(* Only a request that is still "requested" can be edited. *)
_assert_locked_evaluation_unchanged(row, body) ==
    row.status = "requested" \/ (row.status = body.status /\ row.count = body.count)

upsert_provider_application_evaluation(w, body) ==
    /\ application.status = "submitted"
    /\ Exists(evaluation) => _assert_locked_evaluation_unchanged(evaluation, body)
    /\ Holds(w, "evaluation", evaluation,
             [status |-> body.status, count |-> body.count,
              provider |-> IF Exists(evaluation) THEN evaluation.provider
                           ELSE application.provider])
    /\ UNCHANGED <<application, evaluation>>

CommitEvaluation(w) ==
    /\ req[w].table = "evaluation"
    /\ Insertable(evaluation, req[w].loaded)
    /\ evaluation' = Flushed(evaluation, req[w].loaded, req[w].new)
    /\ Done(w)
    /\ UNCHANGED application

IntakeNext(w) ==
    \/ \E body \in ProviderApplicationUpsertRequest : upsert_provider_application(w, body)
    \/ submit_provider_application(w)
    \/ CommitApplication(w)
    \/ \E body \in ProviderEvaluationUpsertRequest :
          upsert_provider_application_evaluation(w, body)
    \/ CommitEvaluation(w)
    \/ Rollback(w)
=============================================================================
