---------------------------- MODULE JobTemplates ----------------------------
(***************************************************************************)
(* Job templates of one user: a root made from a completed task, versions  *)
(* that change one parameter of any active row of the lineage, and soft    *)
(* deletion.  The rows sit behind two partial unique indexes that ignore   *)
(* deleted rows; a version is numbered under an advisory lock on its       *)
(* lineage.  Requests run in concurrent transactions: an insert waits for  *)
(* a conflicting insert of another one, and what a request read may be     *)
(* deleted by the time it writes.                                          *)
(***************************************************************************)
EXTENDS Integers, Sequences, SequencesExt, FiniteSets, FiniteSetsExt

CONSTANTS
    Editors,        \* concurrent requests
    Names,          \* template names, each for one completed source task
    MaxTemplates    \* bound on the rows ever written

ASSUME TemplateAssumption == MaxTemplates \in Nat /\ "nobody" \notin Editors

VARIABLES
    templates,      \* the committed rows
    edit,           \* editor -> its request: [step, ...]
    lineage_lock    \* root -> the editor whose transaction holds the advisory lock

templateVars == <<templates, edit, lineage_lock>>

NoEdit == [step |-> "idle"]
Nobody == "nobody"

(* What a request may carry besides the fields of a problem. *)
Fields == {"minimize", "maximize", "st", "options", "solver"}
Internal == {"_system", "solution", "idempotency_key"}

Root(name, payload) ==
    [name |-> name, root |-> 0, parent |-> 0, version |-> 1, payload |-> payload, deleted |-> FALSE]

(* A root is its own lineage; rows are numbered in the order of commits.   *)
RootOf(i) == IF templates[i].root = 0 THEN i ELSE templates[i].root

Active(i) == i \in DOMAIN templates /\ ~templates[i].deleted

_find_active_job_template(name) ==
    {i \in DOMAIN templates : Active(i) /\ templates[i].name = name /\ templates[i].parent = 0}

(***************************************************************************)
(* Payloads, as the set of the fields they have.                           *)
(***************************************************************************)
(* A payload is kept only with one objective, and only its problem fields. *)
Templateable(payload) == ("minimize" \in payload) # ("maximize" \in payload) /\ "st" \in payload

_normalize_optimization_payload(payload) == payload \cap Fields

(* Setting a path creates the object it leads through; the value itself    *)
(* may hold anything, and is refused when it holds an internal field.      *)
apply_template_parameter_override(payload, path, value) ==
    payload \cup {path} \cup value

reject_internal_template_payload_fields(payload) == payload \cap Internal = {}

(***************************************************************************)
(* Roots.                                                                  *)
(***************************************************************************)
TemplateInit ==
    /\ templates = <<>>
    /\ edit = [e \in Editors |-> NoEdit]
    /\ lineage_lock = [i \in 1..MaxTemplates |-> Nobody]

(* A template of this source and name that exists is returned; otherwise   *)
(* the payload of the completed source is prepared.                        *)
create_job_template(e, name, payload) ==
    /\ edit[e] = NoEdit
    /\ _find_active_job_template(name) = {}
    /\ Templateable(payload)
    /\ edit' = [edit EXCEPT ![e] =
          [step |-> "insert", tries |-> 1,
           row |-> Root(name, _normalize_optimization_payload(payload))]]
    /\ UNCHANGED <<templates, lineage_lock>>

(* Another transaction has inserted a row of the same name and not ended.  *)
BlockedBy(e, name) ==
    \E d \in Editors \ {e} : edit[d].step = "commit" /\ edit[d].row.parent = 0 /\ edit[d].row.name = name

(* INSERT ... ON CONFLICT DO NOTHING, on the index over active roots. *)
InsertRoot(e) ==
    /\ edit[e].step = "insert"
    /\ ~BlockedBy(e, edit[e].row.name)
    /\ edit' = [edit EXCEPT ![e].step =
          IF _find_active_job_template(edit[e].row.name) = {} THEN "commit" ELSE "find"]
    /\ UNCHANGED <<templates, lineage_lock>>

(* The row in the way is returned, unless it was deleted meanwhile: then   *)
(* the insert is tried once more.                                          *)
FindConflicting(e) ==
    /\ edit[e].step = "find"
    /\ edit' = [edit EXCEPT ![e] =
          IF _find_active_job_template(@.row.name) # {} \/ @.tries = 2 THEN NoEdit
          ELSE [@ EXCEPT !.step = "insert", !.tries = 2]]
    /\ UNCHANGED <<templates, lineage_lock>>

(***************************************************************************)
(* Versions.                                                               *)
(***************************************************************************)
create_job_template_version(e, i, path, value) ==
    /\ edit[e] = NoEdit /\ Active(i)
    /\ LET merged == apply_template_parameter_override(templates[i].payload, path, value)
       IN  /\ reject_internal_template_payload_fields(merged)
           /\ Templateable(merged)
           /\ edit' = [edit EXCEPT ![e] =
                [step |-> "lock", tries |-> 1,
                 row |-> [templates[i] EXCEPT !.root = RootOf(i), !.parent = i,
                                              !.payload = _normalize_optimization_payload(merged)]]]
    /\ UNCHANGED <<templates, lineage_lock>>

(* The lineage is not locked. *)
LockLineageMissing(e) ==
    /\ edit[e].step = "lock"
    /\ edit' = [edit EXCEPT ![e].step = "number"]
    /\ UNCHANGED <<templates, lineage_lock>>

(* pg_advisory_xact_lock, released when the transaction ends.  (The lock   *)
(* key mixes 64 bits of the user and root; lineages that collide would     *)
(* only wait for each other.)                                              *)
LockLineage(e) ==
    /\ edit[e].step = "lock"
    /\ lineage_lock[edit[e].row.root] = Nobody
    /\ lineage_lock' = [lineage_lock EXCEPT ![edit[e].row.root] = e]
    /\ edit' = [edit EXCEPT ![e].step = "number"]
    /\ UNCHANGED templates

(* The number after the largest of the lineage, deleted rows included. *)
_next_job_template_version(root) ==
    1 + Max({0} \cup {templates[i].version : i \in {j \in DOMAIN templates : RootOf(j) = root}})

NumberVersion(e) ==
    /\ edit[e].step = "number"
    /\ edit' = [edit EXCEPT ![e].step = "insert_version",
                            ![e].row.version = _next_job_template_version(edit[e].row.root)]
    /\ UNCHANGED <<templates, lineage_lock>>

(* The index over active versions: a number that is taken is computed      *)
(* again, three times at most.                                             *)
_insert_job_template_version(e) ==
    /\ edit[e].step = "insert_version"
    /\ LET row == edit[e].row
           taken == \E i \in DOMAIN templates :
                        Active(i) /\ RootOf(i) = row.root /\ templates[i].version = row.version
       IN  edit' = [edit EXCEPT ![e] =
              IF ~taken THEN [@ EXCEPT !.step = "commit"]
              ELSE IF @.tries < 3 THEN [@ EXCEPT !.step = "number", !.tries = edit[e].tries + 1]
              ELSE NoEdit]
    /\ UNCHANGED <<templates, lineage_lock>>

(***************************************************************************)
(* Ends of transactions, and deletion.                                     *)
(***************************************************************************)
Release(e) == [i \in DOMAIN lineage_lock |-> IF lineage_lock[i] = e THEN Nobody ELSE lineage_lock[i]]

CommitTemplate(e) ==
    /\ edit[e].step = "commit" /\ Len(templates) < MaxTemplates
    /\ templates' = Append(templates, edit[e].row)
    /\ edit' = [edit EXCEPT ![e] = NoEdit]
    /\ lineage_lock' = Release(e)

(* The process or its connection dies, or the insert gave up. *)
AbortTemplate(e) ==
    /\ edit[e] # NoEdit \/ \E i \in DOMAIN lineage_lock : lineage_lock[i] = e
    /\ edit' = [edit EXCEPT ![e] = NoEdit]
    /\ lineage_lock' = Release(e)
    /\ UNCHANGED templates

(* One row is deleted; the versions made from it stay. *)
delete_job_template(i) ==
    /\ Active(i)
    /\ templates' = [templates EXCEPT ![i].deleted = TRUE]
    /\ UNCHANGED <<edit, lineage_lock>>

TemplateNext ==
    \/ \E e \in Editors :
         \/ \E name \in Names : \E payload \in SUBSET {"minimize", "maximize", "st", "_system"} :
              create_job_template(e, name, payload)
         \/ InsertRoot(e) \/ FindConflicting(e)
         \/ \E i \in DOMAIN templates : \E path \in {"maximize", "options"} :
              \E value \in {{}, {"solution"}} : create_job_template_version(e, i, path, value)
         \/ LockLineage(e) \/ NumberVersion(e) \/ _insert_job_template_version(e)
         \/ CommitTemplate(e) \/ AbortTemplate(e)
    \/ \E i \in DOMAIN templates : delete_job_template(i)

-----------------------------------------------------------------------------
(* However requests overlap, a version number names one row of its lineage *)
(* for good: it is not given out again after the row was deleted.          *)
VersionsAreFinal ==
    \A i, j \in DOMAIN templates :
        RootOf(i) = RootOf(j) /\ templates[i].version = templates[j].version => i = j

(* However creations and deletions overlap, a source has one active        *)
(* template of a name: a repeated creation finds it.                       *)
OneActiveRoot ==
    \A name \in Names : Cardinality(_find_active_job_template(name)) <= 1

(* A version was made from an older row of its own lineage, by changing    *)
(* nothing but the one parameter, and no row, however derived, holds an    *)
(* internal field or two objectives.                                       *)
LineageIsSound ==
    \A i \in DOMAIN templates :
        LET t == templates[i]
        IN  /\ t.payload \cap Internal = {}
            /\ {"minimize", "maximize"} \cap t.payload # {"minimize", "maximize"}
            /\ t.parent # 0 =>
                 /\ t.parent < i /\ RootOf(t.parent) = t.root
                 /\ templates[t.parent].version < t.version
                 /\ templates[t.parent].payload \subseteq t.payload
                 /\ Cardinality(t.payload \ templates[t.parent].payload) <= 1
=============================================================================
