-------------------------- MODULE MCSolverRequests --------------------------
(***************************************************************************)
(* The solver-orchestrator beside its billing: what admits a request, how  *)
(* it is routed and executed, and what is kept of it afterwards.  The      *)
(* parts share a process and a database but none of these tables, so every *)
(* behaviour of the instance for TLC follows one of them; the choices the  *)
(* other parts make at the start are fixed.                                *)
(***************************************************************************)
EXTENDS RateLimits, FallbackExecution, LpAlternatives, JobTemplates, IdempotentJobs, JobBatches,
        ProviderExit, CitationTracker, ApiKeyUse, TLC

admission == <<rateVars, useVars>>
execution == <<routeVars, solve, jobVars, batchVars>>
records == <<templateVars, migrationVars, citationVars, exitVars>>

Init ==
    /\ RateInit /\ UseInit
    /\ RouteInit /\ LpInit /\ JobInit /\ BatchInit
    /\ TemplateInit /\ MigrationInit /\ CitationInit /\ ExitInit

LimitPart == RateNext /\ UNCHANGED <<useVars, execution, records>>
KeyUsePart == UseNext /\ UNCHANGED <<rateVars, execution, records>>
RoutePart == RouteNext /\ UNCHANGED <<admission, solve, jobVars, batchVars, records>>
LpPart == LpNext /\ UNCHANGED <<admission, routeVars, jobVars, batchVars, records>>
JobPart == JobNext /\ UNCHANGED <<admission, routeVars, solve, batchVars, records>>
BatchPart == BatchNext /\ UNCHANGED <<admission, routeVars, solve, jobVars, records>>
TemplatePart ==
    TemplateNext /\ UNCHANGED <<admission, execution, migrationVars, citationVars, exitVars>>
MigrationPart ==
    MigrationNext /\ UNCHANGED <<admission, execution, templateVars, citationVars, exitVars>>
CitationPart ==
    CitationNext /\ UNCHANGED <<admission, execution, templateVars, migrationVars, exitVars>>
ExitPart ==
    ExitNext /\ UNCHANGED <<admission, execution, templateVars, migrationVars, citationVars>>

VARIABLE story

Stories == {"limit", "key", "route", "lp", "job", "batch", "template", "migration",
            "citation", "exit"}

MCInit ==
    /\ story \in Stories /\ Init
    /\ story # "exit" => affected = {}
    /\ story # "batch" => \A i \in DOMAIN children : ~children[i].teaching
    /\ story # "migration" => vouchers[1].provider = 1

MCNext ==
    /\ UNCHANGED story
    /\ \/ story = "limit" /\ LimitPart
       \/ story = "key" /\ KeyUsePart
       \/ story = "route" /\ RoutePart
       \/ story = "lp" /\ LpPart
       \/ story = "job" /\ JobPart
       \/ story = "batch" /\ BatchPart
       \/ story = "template" /\ TemplatePart
       \/ story = "migration" /\ MigrationPart
       \/ story = "citation" /\ CitationPart
       \/ story = "exit" /\ ExitPart

MCSpec == MCInit /\ [][MCNext]_<<admission, execution, records, story>>

(* The actors of every part are the same concurrent requests. *)
ActorSymmetry == Permutations(Requests)

(* Two requests in a second, three in two. *)
Windows == [free |-> [w \in {1, 2} |-> w + 1]]

(* An open-source and an own algorithm, one that is not fully audited, and *)
(* a second task.                                                          *)
Algorithms ==
    << [k |-> "lp-highs", task |-> "lp", solvers |-> <<"highs">>, kind |-> "open_source",
        audit |-> <<>>],
       [k |-> "lp-own", task |-> "lp", solvers |-> <<"own">>, kind |-> "self",
        audit |-> [r \in Rules |-> TRUE]],
       [k |-> "lp-new", task |-> "lp", solvers |-> <<"new", "own">>, kind |-> "self",
        audit |-> [r \in {"readme"} |-> TRUE]],
       [k |-> "qp", task |-> "qp", solvers |-> <<"highs">>, kind |-> "open_source",
        audit |-> <<>>] >>

(* Rows in the four directions, feasible and infeasible, with and without   *)
(* upper bounds; and the three wrong shapes.                                *)
Directions == {<<1, 1>>, <<1, -1>>, <<-1, -1>>, <<0, 1>>}

LinearPrograms ==
    [c : {<<1, 0>>, <<1, -2>>, <<2, 1>>}, A : Directions \X Directions, b : {-1, 1, 2} \X {1, 2},
     upper : {<<>>, <<2, 1>>}, sense : {"minimize", "maximize"}]
        \cup [c : {<<1, 1>>}, A : {<<>>, <<<<1>>>>, <<<<1, 1>>, <<1, 0>>>>}, b : {<<1>>},
              upper : {<<>>}, sense : {"minimize"}]

(* Three providers of one task, one of another kind and one with more tags. *)
Offers ==
    [p \in 1..3 |-> [task |-> "lp", solver |-> "highs",
                     kind |-> IF p = 2 THEN "self" ELSE "open", version |-> p,
                     tags |-> IF p = 3 THEN {"lp", "x"} ELSE {"lp"}]]

(* Two records of one paper, one without a url, and an import of the first. *)
Papers ==
    {[source |-> "semantic_scholar", id |-> 1, url |-> "u"],
     [source |-> "semantic_scholar", id |-> 2, url |-> "u"],
     [source |-> "semantic_scholar", id |-> 3, url |-> "none"],
     [source |-> "google_scholar_import", id |-> 4, url |-> "u"]}

(* Admission can be justified: no window holds more requests than its limit *)
(* allows, a refusal names a time after which it is lifted, and a key's     *)
(* risk score rests on anomalies that were seen.                            *)
AdmissionIsJustified == LimitPerWindow /\ RetryAfterIsHonest /\ ScoreHasEvidence

(* What is executed is published, within one time budget for all attempts,  *)
(* and the history says where the result came from.                         *)
ExecutionSound == OnlyPublishedExecuted /\ OneBudget /\ HistoryExplainsResult

(* However requests race, a key stands for one job, answers are about the   *)
(* caller's own jobs, and a grade can be justified by what was read.        *)
JobsSound == OneJobPerKey /\ AnswersAreTheCallers /\ GradesStayJustified

(* Versions of a template and chains of reruns lead back to their origin    *)
(* unaltered, and whoever holds a voucher of a provider that leaves hears   *)
(* of it, once.                                                             *)
LineagesSound ==
    /\ VersionsAreFinal /\ OneActiveRoot /\ LineageIsSound
    /\ RerunsStayEquivalent /\ VoucherLineage /\ ExitNoticedOnce

(* What is reported is complete and names nothing twice: the papers that    *)
(* cite the catalog however runs crash, and the corners that are offered    *)
(* beside an optimum, of which none is left out for a worse one.            *)
ReportedOnce == OneIssuePerPaper /\ NoCitationLost /\ AlternativesAreBest

(* What a client watches moves forward: the status of a batch, and the      *)
(* risk score of a user.                                                    *)
ObservedMovesForward == WatchedBatchMovesForward /\ UserScoreNeverFalls
=============================================================================
