------------------------------- MODULE MCChat -------------------------------
(***************************************************************************)
(* The chat as a whole: the gate of the internal beta in front of the      *)
(* pipeline and of the stream.  One behaviour follows the messages of one  *)
(* process through the pipeline, or one reader of event streams: they      *)
(* share the gate only, and the stream's answers stand for what the        *)
(* pipeline's language stage returns.                                      *)
(*                                                                         *)
(* Bounds for TLC: numbers end at 10 and a change of the vehicle count at  *)
(* 3, so that a count can be moved past the last number; key 3 of a        *)
(* mapping cannot stand in a field path; a diff lists one field.           *)
(* Thresholds lie on and beside each confidence the critic gives.          *)
(***************************************************************************)
EXTENDS ChatPipeline, ChatStream

VARIABLE story          \* which of the two this behaviour follows

vars == <<story, pipelineVars, streamVars>>

(* The gate is asked before the body is read; a request it refuses, or a   *)
(* body the schema refuses, changes nothing.  Each message starts over.    *)
create_internal_beta_message ==
    /\ stage \in {"idle", "answered", "failed"}
    /\ Open
    /\ request' \in Requests /\ stage' = "intent" /\ sent' = {}
    /\ ClearResults
    /\ UNCHANGED down

(* Providers come and go between requests. *)
ChangeAvailability ==
    /\ stage \in {"answered", "failed"}
    /\ down' \in Unavailable \ {down}
    /\ UNCHANGED <<stage, request, sent, stageResults>>

Init ==
    /\ PipelineInit /\ StreamInit
    /\ story \in {"pipeline", "stream"}
    /\ story = "stream" => down = CHOOSE d \in Unavailable : TRUE
    /\ story = "pipeline" => answer = CHOOSE a \in [Messages -> Answers] : TRUE

PipelineStep ==
    /\ story = "pipeline"
    /\ create_internal_beta_message \/ ChangeAvailability \/ PipelineNext
    /\ UNCHANGED <<story, streamVars>>

StreamStep ==
    /\ story = "stream"
    /\ StreamNext
    /\ UNCHANGED <<story, pipelineVars>>

Next == PipelineStep \/ StreamStep

Spec == Init /\ [][Next]_vars /\ StreamFairness


MCUnavailable == {{}, {"deepseek-v3.5"}}
MCTasks == {"vrptw", "lp"}

MCMappings == {<<>>, [k \in {1, 3} |-> 1]}

MCCodeTexts ==
    {<<"fail", "ok">>, <<"ok", "fail">>, <<"file">>, <<"drive">>, <<"outside">>,
     <<"big">>, <<"network">>, <<"file", "llm">>}

MCThresholds == {0, 86, 87}

Message(keywords, secret, fragment, delta, files, base) ==
    [keywords |-> keywords, secret |-> secret, fragment |-> fragment, delta |-> delta,
     files |-> files, base |-> base]

File(kind, terms) == [kind |-> kind, terms |-> terms]

Base(vehicles, summary) ==
    [task |-> "vrptw", vehicles |-> vehicles, objective |-> <<0>>, constraints |-> <<1>>,
     summary |-> summary]

MCRequests ==
    {Message({"vrptw"}, "none", FALSE, 0, <<>>, <<>>),
     Message({"lp"}, "none", TRUE, 0, <<>>, <<>>),
     Message({}, "tail", FALSE, 0, <<File("csv", {"lp", "raw"})>>, <<>>),
     Message({"vrptw"}, "excerpt", FALSE, 0, <<>>, <<>>),
     Message({}, "none", FALSE, 0, <<File("json", {"raw"})>>, <<>>),
     Message({"vrptw"}, "none", FALSE, 0, <<>>, <<Base(<<>>, "plain")>>),
     Message({}, "none", FALSE, 2, <<>>, <<Base(<<5>>, "plain")>>),
     Message({}, "none", FALSE, 3, <<>>, <<Base(<<9>>, "plain")>>),
     Message({}, "none", FALSE, 4, <<>>, <<Base(<<5>>, "raw")>>)}

MCMessages == {"m1", "m2"}

MCAnswers ==
    {[tokens |-> 0, odd |-> {}, leak |-> FALSE], [tokens |-> 3, odd |-> {}, leak |-> FALSE],
     [tokens |-> 3, odd |-> {2}, leak |-> FALSE], [tokens |-> 3, odd |-> {}, leak |-> TRUE]}

Config(enabled, users) ==
    [enabled |-> enabled, signoff |-> TRUE, tenant |-> TRUE, users |-> users, token |-> TRUE]

MCConfigs == {Config(TRUE, 5), Config(TRUE, 6), Config(FALSE, 5)}

Caller(token) == [tenant |-> TRUE, user |-> TRUE, token |-> token]

MCCallers == {Caller(TRUE), Caller(FALSE)}

(* Whatever the model replies and whichever provider is down, a model is    *)
(* offered for confirmation only after every check, nothing unvetted is     *)
(* run, no secret is sent, failures degrade, and a what-if diff is honest.  *)
PipelineSound ==
    /\ ConfirmOnlyWhenChecked /\ SandboxRunsOnlyVetted /\ NoSecretSent
    /\ DegradesGracefully /\ WhatIfDiffHonest

(* However connections are lost and resumed, the client has seen each event *)
(* once and in order, and all of them when it is told that it is done.      *)
StreamSound == StreamHasNoGapOrRepeat /\ DoneMeansComplete
=============================================================================
