-------------------------- MODULE ProviderVersions --------------------------
(***************************************************************************)
(* Version updates of an onboarded provider: one update request, its       *)
(* review, and the ETag that guards its edits.                             *)
(***************************************************************************)
EXTENDS ProviderApplications

CONSTANTS
    Semvers,     \* values of current_version and proposed_version
    MetadataIds, \* values of metadata
    MaxRecord    \* bound: the last record_version

ASSUME SemverAssumption == Semvers \subseteq Nat \X Nat \X Nat
ASSUME MaxRecordAssumption == MaxRecord \in Nat

VARIABLES
    version,  \* the provider_version_update_requests row
    seen,     \* what each client's last GET returned
    reviewed  \* history: the material at the last submission

versionVars == <<version, seen, reviewed>>

NoSemver == <<0, 0, 0>>

NoVersion ==
    [status |-> "none", provider |-> NoProvider, current |-> NoSemver, proposed |-> NoSemver,
     kind |-> "none", notes |-> FALSE, metadata |-> "none", record_version |-> 0]

Material(row) == [current |-> row.current, proposed |-> row.proposed, kind |-> row.kind]

VersionInit ==
    /\ version = NoVersion
    /\ seen = [w \in Workers |-> NoVersion]
    /\ reviewed = Material(NoVersion)

-----------------------------------------------------------------------------
(* proposed is what a change of this kind may turn current into. *)
_validate_version_delta(current, proposed, kind) ==
    CASE kind = "patch" ->
            proposed[1] = current[1] /\ proposed[2] = current[2] /\ proposed[3] > current[3]
      [] kind = "minor" ->
            proposed[1] = current[1] /\ proposed[2] > current[2] /\ proposed[3] = 0
      [] OTHER ->
            proposed[1] > current[1] /\ proposed[2] = 0 /\ proposed[3] = 0

ProviderVersionUpdateUpsertRequest ==
    {b \in [status : {"draft", "submitted"}, current : Semvers, proposed : Semvers,
            kind : {"patch", "minor", "major"}, metadata : MetadataIds] :
        _validate_version_delta(b.current, b.proposed, b.kind)}

ProviderVersionUpdateStatusPatchRequest ==
    [status : {"draft", "submitted", "under_review", "approved", "rejected", "cancelled"},
     notes : BOOLEAN, metadata : MetadataIds]

(* A stored row that fails this is answered with a conflict by every route. *)
_validate_version_update_row(row) ==
    /\ row.provider = application.provider
    /\ _validate_version_delta(row.current, row.proposed, row.kind)

(* The ETag is the id and the record_version. *)
_require_matching_etag(w) == seen[w].record_version = version.record_version

_assert_submitted_version_material_unchanged(row, body) ==
    row.status = "draft" \/ Material(row) = Material(body)

Allowed ==
    [draft        |-> {"submitted", "cancelled"},
     submitted    |-> {"under_review", "cancelled"},
     under_review |-> {"approved", "rejected", "cancelled"},
     approved     |-> {}, rejected |-> {}, cancelled |-> {}]

_assert_version_status_transition(current, next, notes) ==
    \/ current = next
    \/ /\ next \in Allowed[current]
       /\ next \in {"approved", "rejected"} => notes

_assert_terminal_version_patch_idempotent(row, body) ==
    row.status \in {"approved", "rejected", "cancelled"} =>
        /\ body.status = row.status
        /\ body.notes = row.notes
        /\ body.metadata = row.metadata

-----------------------------------------------------------------------------
(* Mutant: a change of the metadata alone does not count as a change. *)
material_changed(row, new) == [new EXCEPT !.metadata = row.metadata] # row

Changed(row, new) == new # row

(* The row a handler writes: record_version counts the changes. *)
Recorded(row, new) ==
    [new EXCEPT !.record_version =
        IF Changed(row, new) THEN row.record_version + 1 ELSE row.record_version]

CreatedVersion(body) ==
    [NoVersion EXCEPT !.status = body.status, !.provider = application.provider,
                      !.current = body.current, !.proposed = body.proposed,
                      !.kind = body.kind, !.metadata = body.metadata,
                      !.record_version = 1]

EditedVersion(body) ==
    Recorded(version,
             [version EXCEPT !.status = body.status, !.current = body.current,
                             !.proposed = body.proposed, !.kind = body.kind,
                             !.metadata = body.metadata])

HoldsVersion(w, new) ==
    /\ version.record_version < MaxRecord
    /\ Holds(w, "version", version, new)
    /\ UNCHANGED <<application, evaluation, versionVars>>

create_provider_version_update(w, body) ==
    /\ application.status = "submitted"
    /\ ~Exists(version)
    /\ HoldsVersion(w, CreatedVersion(body))

upsert_provider_version_update(w, body) ==
    /\ application.status = "submitted"
    /\ Exists(version)
    /\ _validate_version_update_row(version)
    /\ _require_matching_etag(w)
    /\ _assert_submitted_version_material_unchanged(version, body)
    /\ _assert_version_status_transition(version.status, body.status, version.notes)
    /\ HoldsVersion(w, EditedVersion(body))

patch_provider_version_update_status(w, body) ==
    /\ Exists(version)
    /\ _validate_version_update_row(version)
    /\ _require_matching_etag(w)
    /\ _assert_terminal_version_patch_idempotent(version, body)
    /\ _assert_version_status_transition(version.status, body.status, body.notes)
    /\ HoldsVersion(w, Recorded(version, [version EXCEPT !.status = body.status,
                                                         !.notes = body.notes,
                                                         !.metadata = body.metadata]))

get_provider_version_update(w) ==
    /\ req[w] = Idle
    /\ Exists(version)
    /\ _validate_version_update_row(version)
    /\ seen' = [seen EXCEPT ![w] = version]
    /\ UNCHANGED <<intakeVars, version, reviewed>>

CommitVersion(w) ==
    /\ req[w].table = "version"
    /\ Insertable(version, req[w].loaded)
    /\ version' = Flushed(version, req[w].loaded, req[w].new)
    /\ reviewed' = IF version'.status = "draft" \/ version.status \in {"none", "draft"}
                   THEN Material(version') ELSE reviewed
    /\ Done(w)
    /\ UNCHANGED <<application, evaluation, seen>>

VersionNext(w) ==
    \/ \E body \in ProviderVersionUpdateUpsertRequest :
          create_provider_version_update(w, body) \/ upsert_provider_version_update(w, body)
    \/ \E body \in ProviderVersionUpdateStatusPatchRequest :
          patch_provider_version_update_status(w, body)
    \/ get_provider_version_update(w)
    \/ CommitVersion(w)

-----------------------------------------------------------------------------
(* As long as no requests overlap, an ETag stands for one content: a        *)
(* client whose ETag still matches has seen the row as it is.               *)
EtagIdentifiesContent ==
    overlaps = 0 => \A w \in Workers :
                 seen[w].record_version = version.record_version => seen[w] = version

(* As long as no requests overlap, what is reviewed and approved is what    *)
(* was submitted, and a verdict has its notes.                              *)
ApprovedAsSubmitted ==
    overlaps = 0 =>
      /\ Material(version) = reviewed
      /\ version.status \in {"approved", "rejected"} => version.notes

(* As long as no requests overlap, no route ever answers that the stored    *)
(* update has drifted: its provider is the application's and its versions   *)
(* fit its change_kind.                                                     *)
VersionNeverDrifts ==
    overlaps = 0 /\ Exists(version) => _validate_version_update_row(version)

(* The review of a version update can be trusted: the ETag, the approval    *)
(* and the stored versions stand for what was submitted.                    *)
VersionReviewSound == EtagIdentifiesContent /\ ApprovedAsSubmitted /\ VersionNeverDrifts
=============================================================================
