----------------------------- MODULE LlmRouter ------------------------------
(***************************************************************************)
(* The provider-agnostic LLM router and the filter that marks generated    *)
(* text: which model alias serves a prompt, what a provider's reply        *)
(* becomes for the caller, and the watermark every shown text carries.     *)
(*                                                                         *)
(* A reply is what the provider's transport did, reduced to what callers   *)
(* tell apart:                                                             *)
(*   raises     the transport failed                                       *)
(*   malformed  no choice, a blank text, or token counts that do not add   *)
(*   secret     a text the completion schema refuses                       *)
(*   cut        a text that did not end with finish_reason stop            *)
(*   text       a finished text                                            *)
(***************************************************************************)
EXTENDS FiniteSets, TLC

CONSTANT Unavailable    \* the sets of aliases that may be out of service

CANONICAL_MODEL_ALIASES == {"deepseek-v3.5", "qwen-max", "mock-deterministic"}

default_model_registry ==
    [alias \in CANONICAL_MODEL_ALIASES |->
        [provider_id |-> CASE alias = "deepseek-v3.5" -> "deepseek-compatible"
                           [] alias = "qwen-max" -> "qwen-compatible"
                           [] OTHER -> "mock",
         is_fallback_eligible |-> alias = "qwen-max"]]

FallbackMap == ("deepseek-v3.5" :> "qwen-max")

NoAlias == "none"

(* An alias out of service is replaced by its eligible fallback; whether   *)
(* the fallback itself is in service is not asked.                         *)
effective_alias(alias, down) ==
    IF alias \notin down THEN alias
    ELSE IF /\ alias \in DOMAIN FallbackMap
            /\ FallbackMap[alias] \in DOMAIN default_model_registry
            /\ default_model_registry[FallbackMap[alias]].is_fallback_eligible
         THEN FallbackMap[alias]
         ELSE NoAlias

(* What LLMRouter.complete makes of a reply: "failed" is LLMRouterError,   *)
(* "invalid" a schema error that is not one, and otherwise a completion.   *)
complete(alias, down, reply) ==
    CASE effective_alias(alias, down) = NoAlias -> "failed"
      [] reply \in {"raises", "malformed"} -> "failed"
      [] reply = "secret" -> "invalid"
      [] reply = "cut" -> "unfinished"
      [] reply = "text" -> "completed"

Replies == {"raises", "malformed", "secret", "cut", "text"}

(* A prompt with secret-like text is refused before anything is sent. *)
PromptAccepted(secret) == ~secret

(***************************************************************************)
(* The AIGC filter.  A text is its body, whether it shows the marker, and  *)
(* the watermark hidden in it.                                             *)
(***************************************************************************)
NoMark == [trace |-> "none", version |-> "none"]

Text(body, marker, mark) == [body |-> body, marker |-> marker, mark |-> mark]

detect_watermark(text) == text.mark # NoMark

(* Both marks are added once. *)
add_watermark(text, trace) ==
    IF detect_watermark(text) THEN text
    ELSE [text EXCEPT !.marker = TRUE, !.mark = [trace |-> trace, version |-> "own"]]

reason_codes(text) == IF text.body = "banned" THEN {"policy", "blocked_content"} ELSE {}

BlockedText == Text("blocked notice", FALSE, NoMark)

trace_id_for(text) == "sha"

filter(text) ==
    LET blocked == reason_codes(text) # {}
        trace == IF detect_watermark(text) THEN text.mark.trace ELSE trace_id_for(text)
        shown == IF blocked THEN add_watermark(BlockedText, trace) ELSE add_watermark(text, trace)
    IN  [text |-> shown, blocked |-> blocked, reasons |-> reason_codes(text), trace |-> trace,
         version |-> IF detect_watermark(text) THEN text.mark.version ELSE "own"]
=============================================================================
