---------------------------- MODULE ChatContext -----------------------------
(***************************************************************************)
(* What a chat message carries besides its text: the files the browser     *)
(* read and the earlier model a what-if question is about.  A request is   *)
(*   keywords  the task types whose keywords its message holds             *)
(*   secret    where secret-like text stands: none, excerpt, tail          *)
(*   fragment  the message is a piece of the coder's template source       *)
(*   delta     the change of the vehicle count it asks for, 0 for none     *)
(*   files     a sequence of [kind, terms]                                 *)
(*   base      a sequence of at most one what-if context:                  *)
(*             [task, vehicles, objective, constraints, summary]           *)
(* Vehicles is a sequence of at most one number, mappings are functions    *)
(* from keys to numbers.  A term or a summary is "raw" when the request    *)
(* schema accepts it and the sanitiser does not.  The contracts the        *)
(* response has to meet follow at the end.                                 *)
(***************************************************************************)
EXTENDS Integers, Sequences, SequencesExt, FiniteSets, FiniteSetsExt

CONSTANTS
    MaxDelta,       \* _MAX_ABS_DELTA
    NumberMax,      \* _WHAT_IF_NUMBER_ABS_MAX
    MaxDiff,        \* how many fields a diff lists
    OddKeys         \* mapping entries a diff item cannot show, by key

(* The heuristic tries the task types in this order. *)
KeywordRules == <<"vrptw", "lp", "prediction">>

(***************************************************************************)
(* Files.                                                                  *)
(***************************************************************************)
SafeTerms(file) == file.terms \ {"raw"}

(* Sanitising drops terms; a JSON file must keep one of its keys, and the  *)
(* schema raises when it does not.                                         *)
sanitize_file_contexts(files) ==
    [raised |-> \E i \in DOMAIN files : files[i].kind = "json" /\ SafeTerms(files[i]) = {},
     files |-> [i \in DOMAIN files |-> [files[i] EXCEPT !.terms = SafeTerms(files[i])]]]

(* The digest does not depend on the order of the files. *)
canonical_file_context_digest(files) ==
    LET clean == sanitize_file_contexts(files).files
    IN  [f \in ToSet(clean) |-> Cardinality({i \in DOMAIN clean : clean[i] = f})]

(***************************************************************************)
(* What-if.                                                                *)
(***************************************************************************)
(* A summary that loses its text is one the schema refuses. *)
sanitize_what_if_contextRaises(base) == base.summary = "raw"

(* The text put in front of the model names the base's task type, and the  *)
(* words objective and constraints.                                        *)
build_what_if_prompt_summary(base) == {"lp", base.task}

apply_safe_delta(base, delta) ==
    IF delta > MaxDelta \/ -delta > MaxDelta THEN base.vehicles
    ELSE [i \in DOMAIN base.vehicles |-> base.vehicles[i] + delta]

Changed(before, after) ==
    {k \in DOMAIN before \cup DOMAIN after :
        ~ (k \in DOMAIN before /\ k \in DOMAIN after /\ before[k] = after[k])}

(* The first changed fields in key order, and how each changed. *)
build_diff(prefix, before, after) ==
    LET keys == SetToSortSeq(Changed(before, after), <)
    IN  [i \in 1..Min({MaxDiff, Len(keys)}) |->
            [prefix |-> prefix, k |-> keys[i],
             change |-> CASE keys[i] \notin DOMAIN before -> "added"
                          [] keys[i] \notin DOMAIN after -> "removed"
                          [] OTHER -> "modified"]]

CountDiff(base, delta) ==
    LET after == apply_safe_delta(base, delta)
    IN  IF after = base.vehicles THEN <<>>
        ELSE <<[prefix |-> "variables", k |-> after[1], change |-> "modified"]>>

(* The current model is compared only when it may be confirmed and is of   *)
(* the base's task type; variables before objective before constraints.    *)
build_what_if_diff(base, delta, model) ==
    LET count == CountDiff(base, delta)
        comparable == model.status = "ready_to_confirm" /\ model.task = base.task
        objective == build_diff("objective", base.objective, model.objective)
        constraints == build_diff("constraints", base.constraints, model.constraints)
    IN  IF count # <<>> THEN count
        ELSE IF ~comparable THEN <<>>
        ELSE IF objective # <<>> THEN objective
        ELSE constraints

(* A diff item the schema refuses: a vehicle count out of range, a key that *)
(* cannot stand in a field path, or an objective or constraint whose value  *)
(* is out of range or unsafe.  The entries of a model that are odd in one   *)
(* of the last two ways are told apart by their key alone.                  *)
DiffItemRaises(item) ==
    IF item.prefix = "variables" THEN item.k > NumberMax \/ -item.k > NumberMax
    ELSE item.k \in OddKeys

build_what_if_preview(base, delta, model) ==
    LET diff == build_what_if_diff(base, delta, model)
    IN  [status |-> IF diff = <<>> THEN "needs_clarification" ELSE "previewed",
         task |-> base.task, diff |-> diff,
         raised |-> \E i \in DOMAIN diff : DiffItemRaises(diff[i])]

(***************************************************************************)
(* The message.                                                            *)
(***************************************************************************)
(* Keywords in the text, in file fields and in the what-if summary. *)
ContextualKeywords(request) ==
    request.keywords
        \cup UNION {SafeTerms(request.files[i]) : i \in DOMAIN request.files}
        \cup UNION {build_what_if_prompt_summary(request.base[i]) : i \in DOMAIN request.base}

classify_message(request) ==
    LET found == SelectSeq(KeywordRules, LAMBDA t : t \in ContextualKeywords(request))
    IN  IF found = <<>> THEN "unknown" ELSE Head(found)

(* The identity of a message, from what the request says and the digests. *)
message_id(request) ==
    [text |-> <<request.keywords, request.secret, request.fragment, request.delta>>,
     files |-> canonical_file_context_digest(request.files), base |-> request.base]

(***************************************************************************)
(* The contracts of the chat's schemas: what a preview must satisfy to be  *)
(* put in a response.  The schema raises where a contract does not hold,   *)
(* and the request then fails.  Confidences and thresholds are in percent. *)
(***************************************************************************)
Checks == {"schema", "safety", "business_logic"}

NoArtifact == [marks |-> FALSE, source |-> "none", code |-> <<>>]

Tier(score) == IF score >= 85 THEN "high" ELSE IF score >= 60 THEN "mid" ELSE "low"

CoderContract(c) == c.status = "generated" <=> c.artifact # NoArtifact

(* A validated critique is the LLM's, any other the heuristic's. *)
CriticContract(c) ==
    /\ c.checks \subseteq Checks
    /\ c.status = "validated" <=> c.source = "llm"

SandboxContract(s) ==
    /\ s.status = "skipped" <=> s.source = "heuristic"
    /\ s.status = "skipped" => s.exit = <<>> /\ s.files = <<>> /\ s.error = "none"
    /\ s.status = "policy_blocked" => s.exit = <<>> /\ s.files = <<>> /\ s.error # "none"
    /\ s.status \in {"succeeded", "failed"} => s.error = "none"
    /\ s.status = "succeeded" => s.exit = <<0>>
    /\ s.status = "failed" => s.exit # <<>> /\ s.exit # <<0>>
    /\ \A i \in DOMAIN s.files : s.files[i] # "drive"

HumanReviewContract(h) ==
    /\ h.escalated <=> h.source = "threshold"
    /\ h.escalated <=> h.confidence < h.threshold
    /\ h.escalated <=> h.reason # "not_escalated"
    /\ h.escalated <=> h.notice

DisplayContract(d) == d.tier = Tier(d.score)

(* Confirm is enabled exactly for a model that is ready. *)
ModelPreviewContract(m) ==
    /\ m.confirm <=> m.status = "ready_to_confirm"
    /\ m.confirm <=> m.reason = "none"
    /\ m.status = "ready_to_confirm" =>
         m.artifact # NoArtifact /\ ~m.human /\ m.sandbox = "succeeded" /\ m.task # "unknown"

(* Errors copied from upstream may not match the wider leak pattern.       *)
ModelErrorsContract(reports) == "leaky" \notin reports

WatermarkContract(w) ==
    /\ w.trace # "odd"
    /\ w.blocked <=> "blocked_content" \in w.reasons
    /\ ~w.blocked => w.reasons = {}

(* The text shows the marker and hides the watermark the preview names. *)
LanguageContract(l) ==
    /\ l.status = "generated" <=> l.source = "llm"
    /\ l.text.marker
    /\ l.text.mark = [trace |-> l.trace, version |-> l.version]

WhatIfContract(w) == w.status = "previewed" <=> w.diff # <<>>

(* The previews of one response agree with each other. *)
ResponseContract(formulator, critic, sandbox, review, display, model) ==
    /\ sandbox.status = "skipped" <=> ~sandbox.invoked
    /\ display.score = critic.confidence
    /\ display.threshold = critic.threshold
    /\ display.escalated = review.escalated
    /\ model.task = formulator.task
    /\ model.confidence = critic.confidence
    /\ model.human = review.escalated
    /\ model.sandbox = sandbox.status
=============================================================================
