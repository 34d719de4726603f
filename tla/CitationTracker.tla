--------------------------- MODULE CitationTracker ---------------------------
(***************************************************************************)
(* The citation tracker, a command run now and then: it reads the papers   *)
(* that cite the catalog's algorithms from Semantic Scholar and from       *)
(* imported Google Scholar files, merges what is the same paper, opens an  *)
(* issue for each paper it has not seen, and replaces its state file by    *)
(* what THIS run saw.  Sources may fail, and a run may stop half way.      *)
(* Runs are modelled with --create-linear; one without it writes the state *)
(* and opens nothing.                                                      *)
(***************************************************************************)
EXTENDS Integers, Sequences, SequencesExt, FiniteSets

CONSTANTS
    Citations,      \* all citations there will be: records [source, id, url], url may be NoUrl
    NoUrl,
    MaxScans        \* bound on the runs

VARIABLES
    published,      \* the citations the sources list so far
    previous,       \* the state file: the hits of the last run that finished
    report,         \* the run under way: [hits, pending], or NoReport
    issues,         \* the issues opened so far, as hits
    scans,          \* the runs started
    troubled        \* a source failed, or a run stopped before it wrote its state

citationVars == <<published, previous, report, issues, scans, troubled>>

NoReport == [hits |-> <<>>, pending |-> <<>>, running |-> FALSE]

(* A citation is known by its source and id; by its URL it is recognised   *)
(* in another source.                                                      *)
hit_identity(h) == <<h.source, h.id>>

_dedup_signature(h) == IF h.url = NoUrl THEN <<"id", h.id>> ELSE <<"url", h.url>>

(* Semantic Scholar is preferred over an import. *)
_hit_preference(h) == IF h.source = "semantic_scholar" THEN 2 ELSE 1

(* One hit after another: a known identity is skipped, a known URL keeps   *)
(* the preferred of the two.                                               *)
AddHit(kept, h) ==
    LET sameUrl == {i \in DOMAIN kept : h.url # NoUrl /\ kept[i].url = h.url}
    IN  IF \E i \in DOMAIN kept : hit_identity(kept[i]) = hit_identity(h) THEN kept
        ELSE IF sameUrl = {} THEN Append(kept, h)
        ELSE [i \in DOMAIN kept |->
                IF i \in sameUrl /\ _hit_preference(h) > _hit_preference(kept[i]) THEN h ELSE kept[i]]

deduplicate_hits(hits) == FoldLeft(AddHit, <<>>, hits)

IsNew(h) ==
    /\ \A i \in DOMAIN previous : hit_identity(previous[i]) # hit_identity(h)
    /\ \A i \in DOMAIN previous : _dedup_signature(previous[i]) # _dedup_signature(h)

CitationInit ==
    /\ published = {} /\ previous = <<>> /\ report = NoReport
    /\ issues = <<>> /\ scans = 0 /\ troubled = FALSE

(* A paper appears (external). *)
Publish(h) ==
    /\ h \notin published
    /\ published' = published \cup {h}
    /\ UNCHANGED <<previous, report, issues, scans, troubled>>

OfSource(source) == {h \in published : h.source = source}

(* A run reads Semantic Scholar, in any order, and then the imports; a     *)
(* source that fails contributes nothing.  The report is written first.    *)
build_tracking_report(semantic, imported) ==
    /\ ~report.running /\ scans < MaxScans
    /\ LET deduped == deduplicate_hits(semantic \o imported)
       IN  report' = [hits |-> deduped, pending |-> SelectSeq(deduped, IsNew), running |-> TRUE]
    /\ scans' = scans + 1
    /\ troubled' = (troubled \/ ToSet(semantic \o imported) # published)
    /\ UNCHANGED <<published, previous, issues>>

(* One issue per new hit, one request after the other. *)
create_linear_issues ==
    /\ report.pending # <<>>
    /\ issues' = Append(issues, Head(report.pending))
    /\ report' = [report EXCEPT !.pending = Tail(@)]
    /\ UNCHANGED <<published, previous, scans, troubled>>

(* A request fails, or the process dies: the state is not written. *)
StopScan ==
    /\ report.running
    /\ report' = NoReport /\ troubled' = TRUE
    /\ UNCHANGED <<published, previous, issues, scans>>

(* The state is written although issues are still missing. *)
write_stateEarly ==
    /\ report.running
    /\ previous' = report.hits /\ report' = NoReport
    /\ UNCHANGED <<published, issues, scans, troubled>>

(* The state is replaced atomically by the hits of this run. *)
write_state ==
    /\ report.running /\ report.pending = <<>>
    /\ previous' = report.hits /\ report' = NoReport
    /\ UNCHANGED <<published, issues, scans, troubled>>

CitationNext ==
    \/ \E h \in Citations : Publish(h)
    \/ \E semantic \in SetToSeqs(OfSource("semantic_scholar")) \cup {<<>>} :
         \E imported \in SetToSeqs(OfSource("google_scholar_import")) \cup {<<>>} :
            build_tracking_report(semantic, imported)
    \/ create_linear_issues \/ StopScan \/ write_state

-----------------------------------------------------------------------------
(* As long as every run reads every source and finishes, a paper that is   *)
(* recognised by its identity or its URL gets one issue, in whatever order *)
(* sources list it and whichever source lists it first.  (A source that    *)
(* fails makes the next run forget its papers, and they are opened again.) *)
OneIssuePerPaper ==
    ~troubled =>
        \A i, j \in DOMAIN issues :
            \/ hit_identity(issues[i]) = hit_identity(issues[j])
            \/ _dedup_signature(issues[i]) = _dedup_signature(issues[j])
            => i = j

(* A finished run that read every source has left nothing out: every paper *)
(* it saw has an issue, its own or that of a record with the same URL.     *)
NoCitationLost ==
    \A i \in DOMAIN previous :
        \E j \in DOMAIN issues :
            \/ hit_identity(issues[j]) = hit_identity(previous[i])
            \/ _dedup_signature(issues[j]) = _dedup_signature(previous[i])
=============================================================================
