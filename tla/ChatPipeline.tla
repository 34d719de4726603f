---------------------------- MODULE ChatPipeline ----------------------------
(***************************************************************************)
(* The chat's answer to one message: intent, formulation, code, critique,  *)
(* human review, sandbox, model preview, what-if and language, in the      *)
(* order _build_internal_beta_response calls them.  Five of the stages ask *)
(* a language model, whose reply may be anything; every stage has a result *)
(* for a reply it cannot use, and a schema that is not met fails the       *)
(* whole request.                                                          *)
(*                                                                         *)
(* Lists of validation errors are abstracted to a set: "clean" when there  *)
(* are errors, "leaky" when one of them is an error the model preview's    *)
(* schema refuses (its path grows too long, or its words match the wider   *)
(* leak pattern).                                                          *)
(***************************************************************************)
EXTENDS LlmRouter, ChatContext

(***************************************************************************)
(* The sandbox runner's local contract: the policy a request must meet     *)
(* before anything runs, and the executor that reads the code line by      *)
(* line.  A line is what the runner sees in it:                            *)
(*   plain         no directive                                            *)
(*   ok, fail      exit:0, and an exit code that is not 0 or not a code    *)
(*   file          result:path=content within the budget                   *)
(*   drive         a relative path the chat preview does not accept        *)
(*   outside, big  a result path that leaves the root, one over budget     *)
(*   network, llm  a pattern the policy refuses                            *)
(***************************************************************************)
Lines == {"plain", "ok", "fail", "file", "drive", "outside", "big", "network", "llm"}

(* A request is [code, inputs, logs]; an input file is "inside" the root   *)
(* or not.  The first rule broken decides the error.                       *)
validate_request_policy(request) ==
    CASE request.logs -> "logs_stream_deferred"
      [] "outside" \in request.inputs -> "invalid_input_path"
      [] "network" \in ToSet(request.code) -> "network_disabled"
      [] "llm" \in ToSet(request.code) -> "llm_self_loop_blocked"
      [] OTHER -> "none"

validate_result_file(line) ==
    CASE line = "outside" -> "invalid_input_path"
      [] line = "big" -> "result_budget_exceeded"
      [] OTHER -> "none"

(* An exit code that is no code is passed over. *)
ExecuteLineLenient(run, line) ==
    IF run.error # "none" \/ line \notin {"file", "drive", "outside", "big"} THEN run
    ELSE IF validate_result_file(line) # "none"
    THEN [run EXCEPT !.error = validate_result_file(line)]
    ELSE [run EXCEPT !.files = Append(@, line)]

(* One line of the executor: the last exit code stands, and a refused      *)
(* result file ends the run.                                               *)
ExecuteLine(run, line) ==
    IF run.error # "none" THEN run
    ELSE CASE line = "ok" -> [run EXCEPT !.exit = 0]
           [] line = "fail" -> [run EXCEPT !.exit = 1]
           [] line \in {"file", "drive", "outside", "big"} ->
                 IF validate_result_file(line) # "none"
                 THEN [run EXCEPT !.error = validate_result_file(line)]
                 ELSE [run EXCEPT !.files = Append(@, line)]
           [] OTHER -> run

execute_local_contract(code) ==
    FoldLeft(ExecuteLine, [exit |-> 0, files |-> <<>>, error |-> "none"], code)

-----------------------------------------------------------------------------
CONSTANTS
    Tasks,          \* the known task types
    Requests,       \* the messages that may be sent
    Mappings,       \* objectives and constraints a model may answer with
    CodeTexts,      \* sources a model may answer with, as sequences of Lines
    Thresholds      \* calibrated thresholds, in percent

VARIABLES
    down,           \* aliases out of service
    stage,          \* the stage that is next, "answered" or "failed"
    request,        \* the message in work
    sent,           \* prompts that left for a provider: [stage, secret, outcome]
    router, formulator, coder, critic, review, display, sandbox, model, whatIf,
    language        \* the stages' results

stageResults == <<router, formulator, coder, critic, review, display, sandbox, model, whatIf, language>>
pipelineVars == <<down, stage, request, sent, stageResults>>

Alias == "deepseek-v3.5"

NoRouter == [task |-> "none", source |-> "none"]
NoFormulator == [status |-> "none", task |-> "none", variables |-> FALSE, objective |-> <<>>,
                 constraints |-> <<>>, errors |-> {}]
NoCoder == [status |-> "none", task |-> "none", artifact |-> NoArtifact, errors |-> {}]
NoCritic == [status |-> "none", source |-> "none", task |-> "none", confidence |-> 0,
             checks |-> {}, threshold |-> 0]
NoReview == [escalated |-> FALSE, source |-> "none", reason |-> "none", notice |-> FALSE,
             confidence |-> 0, threshold |-> 0]
NoDisplay == [score |-> 0, tier |-> "none", threshold |-> 0, escalated |-> FALSE]
NoSandbox == [status |-> "none", source |-> "none", task |-> "none", exit |-> <<>>,
              files |-> <<>>, error |-> "none", invoked |-> FALSE]
NoModel == [status |-> "none", reason |-> "none", confirm |-> FALSE, task |-> "none",
            objective |-> <<>>, constraints |-> <<>>, artifact |-> NoArtifact,
            human |-> FALSE, confidence |-> 0, sandbox |-> "none"]
NoWhatIf == [status |-> "none", task |-> "none", diff |-> <<>>, raised |-> FALSE]
NoLanguage == [status |-> "none", source |-> "none", text |-> BlockedText, trace |-> "none",
               version |-> "none"]

ClearResults ==
    /\ router' = NoRouter /\ formulator' = NoFormulator /\ coder' = NoCoder
    /\ critic' = NoCritic /\ review' = NoReview /\ display' = NoDisplay
    /\ sandbox' = NoSandbox /\ model' = NoModel /\ whatIf' = NoWhatIf /\ language' = NoLanguage

PipelineInit ==
    /\ down \in Unavailable
    /\ stage = "idle" /\ request = (CHOOSE r \in Requests : TRUE) /\ sent = {}
    /\ router = NoRouter /\ formulator = NoFormulator /\ coder = NoCoder
    /\ critic = NoCritic /\ review = NoReview /\ display = NoDisplay
    /\ sandbox = NoSandbox /\ model = NoModel /\ whatIf = NoWhatIf /\ language = NoLanguage

(* A schema error nobody handles ends the request. *)
Raise == stage' = "failed" /\ UNCHANGED <<down, request, stageResults>>

(* A prompt is asked, and what comes back. *)
Outcome(reply) == complete(Alias, down, reply)
Ask(name, secret, reply) ==
    sent' = IF effective_alias(Alias, down) = NoAlias THEN sent
            ELSE sent \cup {[stage |-> name, secret |-> secret, outcome |-> Outcome(reply)]}

(***************************************************************************)
(* Intent.                                                                 *)
(***************************************************************************)
(* The whole message goes into the prompt. *)
RouterPromptAccepted == PromptAccepted(request.secret # "none")

should_fallback_to_heuristic(task, sure, heuristic) ==
    IF heuristic = "unknown" THEN task # "unknown"
    ELSE task = "unknown" \/ (task # heuristic /\ ~sure)

(* The files are sanitised and the heuristic runs before the model is      *)
(* asked; a reply that does not parse leaves the heuristic's answer.       *)
route_intent_with_llm ==
    /\ stage = "intent"
    /\ LET heuristic == [task |-> classify_message(request), source |-> "heuristic"]
           Kept(r) == router' = r /\ stage' = "formulate"
                      /\ UNCHANGED <<down, request, formulator, coder, critic, review, display,
                                     sandbox, model, whatIf, language>>
       IN  \/ /\ \/ sanitize_file_contexts(request.files).raised
                 \/ \E i \in DOMAIN request.base : sanitize_what_if_contextRaises(request.base[i])
              /\ Raise /\ UNCHANGED sent
           \/ /\ ~sanitize_file_contexts(request.files).raised
              /\ \A i \in DOMAIN request.base : ~sanitize_what_if_contextRaises(request.base[i])
              /\ IF ~RouterPromptAccepted THEN Kept(heuristic) /\ UNCHANGED sent
                 ELSE \E reply \in Replies :
                        /\ Ask("intent", request.secret # "none", reply)
                        /\ \/ Outcome(reply) = "invalid" /\ Raise
                           \/ Outcome(reply) \in {"failed", "unfinished"} /\ Kept(heuristic)
                           \/ /\ Outcome(reply) = "completed"
                              /\ \/ Kept(heuristic)
                                 \/ \E task \in Tasks \cup {"unknown"} : \E sure \in BOOLEAN :
                                      /\ ~should_fallback_to_heuristic(task, sure, heuristic.task)
                                      /\ Kept([task |-> task, source |-> "llm"])

(***************************************************************************)
(* Formulation.                                                            *)
(***************************************************************************)
default_objective(task) == IF task = "lp" THEN <<>> ELSE [k \in {1} |-> 0]

FormulatorClarification(task) ==
    [NoFormulator EXCEPT !.status = "needs_clarification", !.task = task,
                         !.objective = default_objective(task), !.errors = {"clean"}]

FormulatorSkipped ==
    [NoFormulator EXCEPT !.status = "skipped", !.task = "unknown", !.errors = {"clean"}]

has_minimum_extracted_content(variables, objective, constraints) ==
    variables /\ (objective # <<>> \/ constraints # <<>>)

(* An answer for the routed task.  One that is deterministic filler, is no *)
(* JSON, is too large, unsafe, or for another task is a clarification.     *)
parse_formulator_completion(task, variables, objective, constraints, errors) ==
    LET extracted == has_minimum_extracted_content(variables, objective, constraints)
    IN  [status |-> IF extracted THEN "extracted" ELSE "needs_clarification", task |-> task,
         variables |-> variables, objective |-> objective, constraints |-> constraints,
         errors |-> IF extracted \/ errors # {} THEN errors ELSE {"clean"}]

(* Errors the model reports may break the schema here, unguarded. *)
extract_formulation_with_llm ==
    /\ stage = "formulate"
    /\ LET Kept(f) == formulator' = f /\ stage' = "code"
                      /\ UNCHANGED <<down, request, router, coder, critic, review, display,
                                     sandbox, model, whatIf, language>>
       IN  IF router.task = "unknown" THEN Kept(FormulatorSkipped) /\ UNCHANGED sent
           ELSE IF ~RouterPromptAccepted
                THEN Kept(FormulatorClarification(router.task)) /\ UNCHANGED sent
           ELSE \E reply \in Replies :
                  /\ Ask("formulate", request.secret # "none", reply)
                  /\ \/ Outcome(reply) = "invalid" /\ Raise
                     \/ /\ Outcome(reply) \in {"failed", "unfinished"}
                        /\ Kept(FormulatorClarification(router.task))
                     \/ /\ Outcome(reply) = "completed"
                        /\ \/ Raise
                           \/ Kept(FormulatorClarification(router.task))
                           \/ \E variables \in BOOLEAN : \E objective, constraints \in Mappings :
                              \E errors \in {{}, {"clean"}, {"clean", "leaky"}} :
                                Kept(parse_formulator_completion(router.task, variables,
                                         objective, constraints, errors))

(***************************************************************************)
(* Code.  An artifact's source is sound, repeats the message, or is unfit  *)
(* (it does not parse, or imports or calls what is not allowed); marks     *)
(* says that it names the routed task type.                                *)
(***************************************************************************)
Artifact(source, marks, code) == [source |-> source, marks |-> marks, code |-> code]

(* The message is compared with only where it is given. *)
validate_code_artifact(artifact, compared) ==
    (IF artifact.source = "unfit" THEN {"clean"} ELSE {})
        \cup (IF compared /\ artifact.source = "echo" THEN {"clean"} ELSE {})

CoderClarification(task, errors) ==
    [NoCoder EXCEPT !.status = "needs_clarification", !.task = task, !.errors = errors]

CoderSkipped(task) == [NoCoder EXCEPT !.status = "skipped", !.task = task, !.errors = {"clean"}]

template_artifact ==
    Artifact(IF request.fragment THEN "echo" ELSE "sound", TRUE, <<"plain">>)

(* An artifact that does not hold up is dropped with its errors. *)
CoderFrom(task, artifact) ==
    IF validate_code_artifact(artifact, TRUE) # {}
    THEN CoderClarification(task, validate_code_artifact(artifact, TRUE))
    ELSE [NoCoder EXCEPT !.status = "generated", !.task = task, !.artifact = artifact]

formulator_has_codegen_content(f) ==
    has_minimum_extracted_content(f.variables, f.objective, f.constraints)

(* The prompt holds the formulation only, which was found free of secrets. *)
generate_code_with_llm ==
    /\ stage = "code"
    /\ LET task == formulator.task
           Kept(c) == coder' = c /\ stage' = (IF CoderContract(c) THEN "critique" ELSE "failed")
                      /\ UNCHANGED <<down, request, router, formulator, critic, review, display,
                                     sandbox, model, whatIf, language>>
       IN  IF task = "unknown" \/ formulator.status = "skipped"
           THEN Kept(CoderSkipped(task)) /\ UNCHANGED sent
           ELSE IF formulator.status # "extracted" \/ ~formulator_has_codegen_content(formulator)
                THEN Kept(CoderClarification(task, {"clean"})) /\ UNCHANGED sent
           ELSE \E reply \in Replies :
                  /\ Ask("code", FALSE, reply)
                  /\ \/ Outcome(reply) = "invalid" /\ Raise
                     \/ /\ Outcome(reply) \in {"failed", "unfinished"}
                        /\ Kept(CoderClarification(task, {"clean"}))
                     \/ /\ Outcome(reply) = "completed"
                        /\ \/ Kept(CoderClarification(task, {"clean"}))
                           \/ Kept(CoderClarification(task, {"clean", "leaky"}))
                           \/ Kept(CoderFrom(task, template_artifact))
                           \/ \E source \in {"sound", "echo", "unfit"} : \E marks \in BOOLEAN :
                              \E code \in CodeTexts :
                                Kept(CoderFrom(task, Artifact(source, marks, code)))

(***************************************************************************)
(* Critique.  The threshold is read once per process.                      *)
(***************************************************************************)
Critique(status, source, task, confidence, checks, threshold) ==
    [status |-> status, source |-> source, task |-> task, confidence |-> confidence,
     checks |-> checks, threshold |-> threshold]

artifact_task_type_drifted(c) == c.task = "unknown" \/ ~c.artifact.marks

(* What is known without asking: "none" when the model has to be asked. *)
StaticCritique(c, threshold) ==
    IF c.status # "generated" \/ c.artifact = NoArtifact
    THEN Critique("skipped", "heuristic", c.task, 0, {}, threshold)
    ELSE IF validate_code_artifact(c.artifact, FALSE) # {}
    THEN Critique("needs_clarification", "heuristic", c.task, 35, {"schema"}, threshold)
    ELSE IF artifact_task_type_drifted(c)
    THEN Critique("needs_clarification", "heuristic", c.task, 45, {"schema", "safety"}, threshold)
    ELSE NoCritic

(* An answer that reports no errors validates, whatever confidence the     *)
(* model states; any other leaves the business logic unchecked.            *)
generate_critic_validation_with_llm ==
    /\ stage = "critique"
    /\ \E threshold \in Thresholds :
         LET static == StaticCritique(coder, threshold)
             fallback == Critique("needs_clarification", "heuristic", coder.task, 40,
                                  {"schema", "safety"}, threshold)
             Kept(c) == critic' = c /\ stage' = (IF CriticContract(c) THEN "review" ELSE "failed")
                        /\ UNCHANGED <<down, request, router, formulator, coder, review, display,
                                       sandbox, model, whatIf, language>>
         IN  IF static # NoCritic THEN Kept(static) /\ UNCHANGED sent
             ELSE \E reply \in Replies :
                    /\ Ask("critique", FALSE, reply)
                    /\ \/ Outcome(reply) = "invalid" /\ Raise
                       \/ Outcome(reply) \in {"failed", "unfinished"} /\ Kept(fallback)
                       \/ /\ Outcome(reply) = "completed"
                          /\ \/ Kept(fallback)
                             \/ Kept(Critique("validated", "llm", coder.task, 86, Checks, threshold))

(***************************************************************************)
(* Human review and the displayed confidence, which ask nobody.            *)
(***************************************************************************)
Escalated(c) == c.confidence < c.threshold

reason_code(c) ==
    CASE ~Escalated(c) -> "not_escalated"
      [] c.status = "validated" -> "critic_confidence_below_threshold"
      [] c.status = "skipped" -> "critic_skipped_below_threshold"
      [] OTHER -> "critic_not_validated_below_threshold"

HumanReviewOf(c) ==
    [escalated |-> Escalated(c), source |-> IF Escalated(c) THEN "threshold" ELSE "heuristic",
     reason |-> reason_code(c), notice |-> Escalated(c), confidence |-> c.confidence,
     threshold |-> c.threshold]

ConfidenceDisplayOf(c, escalated) ==
    [score |-> c.confidence, tier |-> Tier(c.confidence), threshold |-> c.threshold,
     escalated |-> escalated]

generate_human_review_preview ==
    /\ stage = "review"
    /\ LET h == HumanReviewOf(critic)
           d == ConfidenceDisplayOf(critic, h.escalated)
       IN  IF HumanReviewContract(h) /\ DisplayContract(d)
           THEN /\ review' = h /\ display' = d /\ stage' = "sandbox"
                /\ UNCHANGED <<down, request, router, formulator, coder, critic, sandbox, model,
                               whatIf, language>>
           ELSE Raise
    /\ UNCHANGED sent

(***************************************************************************)
(* Sandbox.                                                                *)
(***************************************************************************)
(* Code goes to the runner once the critic has validated it; whether a     *)
(* human has yet to review it does not matter.                             *)
SandboxSkipped(c, k) ==
    \/ c.task = "unknown"
    \/ c.status # "generated" \/ c.artifact = NoArtifact
    \/ k.status # "validated"
    \/ k.checks # Checks

(* A policy error ends the run before it starts or while it writes files. *)
SandboxRun(task, code) ==
    LET refused == validate_request_policy([code |-> code, inputs |-> {}, logs |-> FALSE])
        run == execute_local_contract(code)
        blocked == [NoSandbox EXCEPT !.status = "policy_blocked", !.source = "runner",
                                     !.task = task, !.invoked = TRUE]
    IN  IF refused # "none" THEN [blocked EXCEPT !.error = refused]
        ELSE IF run.error # "none" THEN [blocked EXCEPT !.error = run.error]
        ELSE [blocked EXCEPT !.status = IF run.exit = 0 THEN "succeeded" ELSE "failed",
                             !.exit = <<run.exit>>, !.files = run.files]

generate_sandbox_preview ==
    /\ stage = "sandbox"
    /\ LET s == IF SandboxSkipped(coder, critic)
                THEN [NoSandbox EXCEPT !.status = "skipped", !.source = "heuristic",
                                       !.task = coder.task]
                ELSE SandboxRun(coder.task, coder.artifact.code)
       IN  IF SandboxContract(s)
           THEN /\ sandbox' = s /\ stage' = "preview"
                /\ UNCHANGED <<down, request, router, formulator, coder, critic, review, display,
                               model, whatIf, language>>
           ELSE Raise
    /\ UNCHANGED sent

(***************************************************************************)
(* Model preview and what-if.                                              *)
(***************************************************************************)
has_dependency_drift(f, c, k, s) ==
    Cardinality({f.task, c.task, k.task, s.task} \ {"unknown"}) > 1

(* The reason confirmation is refused, "none" when it is not. *)
ConfirmReason(f, c, k, s, h) ==
    CASE has_dependency_drift(f, c, k, s) -> "dependency_drift"
      [] f.task = "unknown" -> "task_type_unknown"
      [] h.escalated -> "human_review_required"
      [] k.status # "validated" \/ k.checks # Checks -> "safety_gate_blocked"
      [] s.status # "succeeded" \/ ~s.invoked -> "sandbox_not_succeeded"
      [] f.status # "extracted" \/ c.status # "generated" -> "needs_clarification"
      [] c.artifact = NoArtifact -> "model_not_ready"
      [] OTHER -> "none"

StatusOf(reason) ==
    CASE reason = "none" -> "ready_to_confirm"
      [] reason \in {"task_type_unknown", "needs_clarification", "model_not_ready"} ->
            "needs_clarification"
      [] OTHER -> "blocked"

(* The runner's refusal of a result path reads as a leak to the schema. *)
SandboxErrors(s) ==
    IF s.status = "policy_blocked" /\ s.error = "invalid_input_path" THEN {"clean", "leaky"}
    ELSE IF s.status \in {"skipped", "policy_blocked"} THEN {"clean"} ELSE {}

collect_validation_errors(f, c, s) == f.errors \cup c.errors \cup SandboxErrors(s)

ModelPreviewOf(f, c, k, s, h) ==
    LET reason == ConfirmReason(f, c, k, s, h)
    IN  [status |-> StatusOf(reason), reason |-> reason, confirm |-> reason = "none",
         task |-> f.task, objective |-> f.objective, constraints |-> f.constraints,
         artifact |-> c.artifact, human |-> h.escalated, confidence |-> k.confidence,
         sandbox |-> s.status]

generate_model_preview ==
    /\ stage = "preview"
    /\ LET m == ModelPreviewOf(formulator, coder, critic, sandbox, review)
       IN  IF /\ ModelErrorsContract(collect_validation_errors(formulator, coder, sandbox))
              /\ ModelPreviewContract(m)
           THEN /\ model' = m /\ stage' = "whatif"
                /\ UNCHANGED <<down, request, router, formulator, coder, critic, review, display,
                               sandbox, whatIf, language>>
           ELSE Raise
    /\ UNCHANGED sent

build_what_if ==
    /\ stage = "whatif"
    /\ LET w == IF request.base = <<>> THEN NoWhatIf
                ELSE build_what_if_preview(request.base[1], request.delta, model)
       IN  IF w.raised \/ (request.base # <<>> /\ ~WhatIfContract(w)) THEN Raise
           ELSE /\ whatIf' = w /\ stage' = "language"
                /\ UNCHANGED <<down, request, router, formulator, coder, critic, review, display,
                               sandbox, model, language>>
    /\ UNCHANGED sent

(***************************************************************************)
(* Language.  Summaries the model may write: with or without the visible   *)
(* marker, with text the filter blocks, or with a watermark of their own.  *)
(***************************************************************************)
Summaries ==
    {Text(body, marker, mark) : body \in {"answer", "banned"}, marker \in BOOLEAN,
        mark \in {NoMark, [trace |-> "foreign", version |-> "own"], [trace |-> "odd", version |-> "x"]}}

(* A summary over the length limit is not safe, and a hidden watermark is  *)
(* longer than the limit.                                                  *)
summary_is_safe(text) == ~detect_watermark(text)

LanguageOf(status, source, filtered) ==
    [status |-> status, source |-> source, text |-> filtered.text, trace |-> filtered.trace,
     version |-> filtered.version]

heuristic_language_preview ==
    LanguageOf("fallback", "heuristic", filter(Text("answer", FALSE, NoMark)))

(* The parsed summary, or the fallback where the schema refuses it. *)
parse_language_response_completion(text) ==
    LET l == LanguageOf("generated", "llm", filter(text))
    IN  IF summary_is_safe(text) /\ LanguageContract(l) THEN l ELSE heuristic_language_preview

(* The prompt holds the excerpt of the message.  A watermark the filter    *)
(* found and the schema does not know raises outside the guard.            *)
generate_language_response_with_llm ==
    /\ stage = "language"
    /\ LET Kept(l) == /\ language' = l
                      /\ stage' = IF /\ LanguageContract(l)
                                     /\ ResponseContract(formulator, critic, sandbox, review, display, model)
                                  THEN "answered" ELSE "failed"
                      /\ UNCHANGED <<down, request, router, formulator, coder, critic, review,
                                     display, sandbox, model, whatIf>>
       IN  IF ~PromptAccepted(request.secret = "excerpt")
           THEN Kept(heuristic_language_preview) /\ UNCHANGED sent
           ELSE \E reply \in Replies :
                  /\ Ask("language", request.secret = "excerpt", reply)
                  /\ \/ Outcome(reply) = "invalid" /\ Raise
                     \/ /\ Outcome(reply) \in {"failed", "unfinished"}
                        /\ Kept(heuristic_language_preview)
                     \/ /\ Outcome(reply) = "completed"
                        /\ \E text \in Summaries :
                             IF summary_is_safe(text) /\ ~WatermarkContract(filter(text)) THEN Raise
                             ELSE Kept(parse_language_response_completion(text))

PipelineNext ==
    \/ route_intent_with_llm \/ extract_formulation_with_llm \/ generate_code_with_llm
    \/ generate_critic_validation_with_llm \/ generate_human_review_preview
    \/ generate_sandbox_preview \/ generate_model_preview \/ build_what_if
    \/ generate_language_response_with_llm

(***************************************************************************)
(* Properties.                                                             *)
(***************************************************************************)
(* A model may be confirmed only when its code really is what the stages   *)
(* before it vouch for: for the task the message was routed to and naming  *)
(* it, fit to run, with no line the runner refuses and an exit code of 0   *)
(* at its end, judged at least as sure as the calibrated threshold.        *)
ConfirmOnlyWhenChecked ==
    model.confirm =>
        LET code == coder.artifact.code
            exits == SelectSeq(code, LAMBDA l : l \in {"ok", "fail"})
        IN  /\ model.task = router.task /\ model.task \in Tasks
            /\ coder.artifact.source = "sound" /\ coder.artifact.marks
            /\ ToSet(code) \cap {"network", "llm", "outside", "big"} = {}
            /\ exits # <<>> => exits[Len(exits)] = "ok"
            /\ critic.confidence >= critic.threshold

(* Code reaches the runner only after the checks of the coder and of the   *)
(* critic and an answer of the critic's model.                             *)
SandboxRunsOnlyVetted ==
    sandbox.invoked =>
        /\ coder.artifact.source = "sound" /\ coder.artifact.marks
        /\ \E p \in sent : p.stage = "critique" /\ p.outcome = "completed"

(* Secret-like text of a message is in no prompt that is sent, wherever in *)
(* the message it stands.                                                  *)
NoSecretSent == \A p \in sent : ~p.secret

(* A provider that fails, or answers intent, critique or language with     *)
(* anything at all, never fails the request: it is answered unless a reply *)
(* held secret-like text, the formulation or the code brought something    *)
(* the schemas refuse, or the request itself did.                          *)
DegradesGracefully ==
    stage = "failed" =>
        \/ \E p \in sent : p.outcome = "invalid"
        \/ \E p \in sent : p.stage \in {"formulate", "code"} /\ p.outcome = "completed"
        \/ sanitize_file_contexts(request.files).raised
        \/ \E i \in DOMAIN request.base :
             \/ sanitize_what_if_contextRaises(request.base[i])
             \/ \E n \in ToSet(CountDiff(request.base[i], request.delta)) : DiffItemRaises(n)

(* A what-if diff shows a count only for a change that was asked for and   *)
(* is within bounds, and shows an objective or a constraint only where a   *)
(* model that may be confirmed, of the same task, differs from the base.   *)
WhatIfDiffHonest ==
    whatIf.status = "previewed" =>
        LET base == request.base[1]
        IN  \A i \in DOMAIN whatIf.diff :
                LET d == whatIf.diff[i]
                IN  CASE d.prefix = "variables" ->
                            /\ d.k # base.vehicles[1]
                            /\ d.k - base.vehicles[1] <= MaxDelta
                            /\ base.vehicles[1] - d.k <= MaxDelta
                      [] d.prefix = "objective" ->
                            /\ model.confirm /\ model.task = base.task
                            /\ d.k \in Changed(base.objective, model.objective)
                      [] d.prefix = "constraints" ->
                            /\ model.confirm /\ model.task = base.task
                            /\ d.k \in Changed(base.constraints, model.constraints)
=============================================================================
