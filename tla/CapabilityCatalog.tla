------------------------- MODULE CapabilityCatalog --------------------------
(***************************************************************************)
(* The catalog of capability-registry: providers, the vocabulary of tags   *)
(* and their aliases, capabilities and OAuth flows, each in a global scope *)
(* and one per tenant, and the read-through cache of its answers.          *)
(*                                                                         *)
(* A write handler takes two steps: it checks and flushes its rows and     *)
(* drops the whole cache, and get_session commits later.  A read that      *)
(* misses the cache takes two as well: it computes the answer from the     *)
(* committed rows and stores it later.  A flushed row is locked, so that   *)
(* another handler of the row waits for the commit.                        *)
(***************************************************************************)
EXTENDS OrmSession, Integers, FiniteSetsExt, SequencesExt

CONSTANTS
    Workers,           \* handlers that can run at the same time
    Tenants,           \* tenants with rows of their own
    ProviderIds,       \* numbers, in the order of the ids
    Tags,              \* tags and aliases
    Algos,             \* values of k_algo, numbers in their order
    ProviderBodies,    \* bodies of upsert_provider
    TermBodies,        \* bodies of upsert_capability_vocab_term
    CapabilityBodies,  \* bodies of upsert_capability
    CacheKeys,         \* reads that are made, as <<kind, scope, id>>
    Solver,            \* the solver equivalents are asked for
    MaxResults,        \* the limit on equivalents
    MaxWrites,         \* bound: writes that begin
    MaxFaults,         \* bound: calls to Redis that fail
    MaxOverlaps        \* bound: requests that begin while another is handled

Global == "global"
Scopes == {Global} \cup Tenants

ASSUME CatalogAssumption ==
    /\ ProviderIds \subseteq Nat /\ Algos \subseteq Nat /\ Global \notin Tenants
    /\ TermBodies \subseteq [status : {"draft", "active", "deprecated"}, refs : SUBSET Tags,
                             aliases : [Tags -> {"none", "active", "deprecated"}]]
    /\ \A body \in ProviderBodies : Exists(body)
    /\ \A body \in CapabilityBodies :
          /\ {"status", "provider_id", "tags"} \subseteq DOMAIN body
          /\ Exists(body) /\ body.provider_id \in ProviderIds /\ body.tags \subseteq Tags
    /\ MaxResults \in Nat \ {0} /\ MaxWrites \in Nat /\ MaxFaults \in Nat /\ MaxOverlaps \in Nat

VARIABLES
    providers,     \* capability_providers
    terms,         \* capability_vocab_terms
    aliases,       \* capability_vocab_aliases
    capabilities,  \* capabilities and capability_tags
    oauth,         \* provider_oauth_flows
    cache,         \* what Redis holds for each key
    req,           \* what each worker's handler is about to commit or to store
    writes,        \* writes that have begun
    faults,        \* calls to Redis that have failed
    overlaps       \* requests that began while another was handled

tables == <<providers, terms, aliases, capabilities, oauth>>
vars == <<providers, terms, aliases, capabilities, oauth, cache, req, writes, faults, overlaps>>

-----------------------------------------------------------------------------
(***************************************************************************)
(* Equivalence: match_equivalent_capabilities decides which candidates are *)
(* equivalent to a source capability for a solver, and in which order.     *)
(*                                                                         *)
(* A snapshot is a record of k_algo, provider_id (numbers that stand for   *)
(* the order of the identifiers), task_type, tags and supported_solvers    *)
(* (sets), status, provider (the status and kind of its provider row),     *)
(* model_version and metadata.  A version is its semantic version, <<>> if *)
(* it does not parse, and its place among all version texts.               *)
(***************************************************************************)
ELIGIBLE_CAPABILITY_STATUSES == {"v1", "v1_late", "v2", "audited"}

One == 1000000       \* a precision of 1, in units of _PRECISION_QUANT
Absent == -1         \* the metadata has no such field
Invalid == -2        \* it is not a number, or not one from 0 to 1

(* The nested field comes first, and a missing precision is 0. *)
_precision(metadata) ==
    LET value == IF metadata.matching # Absent THEN metadata.matching ELSE metadata.precision
    IN  IF value = Absent THEN 0 ELSE IF value \in 0..One THEN value ELSE Invalid

(* <<0, distance>>, or <<1, 0>> behind all distances. *)
semantic_version_distance(source, candidate) ==
    LET Apart(i) == Max({source[i] - candidate[i], candidate[i] - source[i]})
    IN  IF source = <<>> \/ candidate = <<>>
        THEN <<1, 0>>
        ELSE <<0, Apart(1) * 1000000 + Apart(2) * 1000 + Apart(3)>>

same_tags(source, c) == c.tags = source.tags

(* The reasons that speak against a candidate, in the order of the loop. *)
Rejections(source, c, solver) ==
    << <<"source_excluded", c.k_algo = source.k_algo>>,
       <<"task_type_mismatch", c.task_type # source.task_type>>,
       <<"tag_mismatch", ~same_tags(source, c)>>,
       <<"solver_mismatch", solver \notin c.supported_solvers>>,
       <<"provider_missing", c.provider.status = "none">>,
       <<"provider_not_active", c.provider.status # "active">>,
       <<"capability_not_eligible", c.status \notin ELIGIBLE_CAPABILITY_STATUSES>>,
       <<"invalid_precision", _precision(c.metadata) = Invalid>> >>

(* The candidate is counted under the first of them. *)
rejection(source, c, solver) ==
    LET reasons == Rejections(source, c, solver)
        against == {i \in DOMAIN reasons : reasons[i][2]}
    IN  IF against = {} THEN "none" ELSE reasons[Min(against)][1]

sort_key(source, c) ==
    <<-_precision(c.metadata)>>
    \o semantic_version_distance(source.model_version.semver, c.model_version.semver)
    \o <<IF c.provider.kind = source.provider.kind THEN 0 ELSE 1,
         c.provider_id, c.model_version.text, c.k_algo>>

Before(a, b) == \E i \in DOMAIN a : a[i] < b[i] /\ \A j \in 1..(i - 1) : a[j] = b[j]

match_equivalent_capabilities(source, candidates, solver, max_results) ==
    LET accepted == {c \in candidates : rejection(source, c, solver) = "none"}
        ranked == SetToSortSeq(accepted, LAMBDA a, b : Before(sort_key(source, a), sort_key(source, b)))
    IN  [candidates |-> SubSeq(ranked, 1, Min({max_results, Len(ranked)})),
         rejected   |-> {<<c.k_algo, rejection(source, c, solver)>> : c \in candidates \ accepted}]

-----------------------------------------------------------------------------
NoProvider == [status |-> "none", kind |-> "none"]
NoTerm == [status |-> "none", refs |-> {}]
NoAlias == [status |-> "none", canonical |-> "none"]
NoCapability == [status |-> "none"]
NoFlow == [status |-> "none"]
Nothing == [kind |-> "nothing"]
Idle == [kind |-> "idle"]

(* The row of the tenant, or else the global one. *)
Effective(table, scope, id) ==
    IF Exists(table[scope][id]) THEN table[scope][id] ELSE table[Global][id]

-----------------------------------------------------------------------------
(* Tags a capability may be registered with.                                *)

NotFound == "not found"

(* Mutant: an alias comes before a term of the same name. *)
alias_before_term(tag, scope) ==
    LET alias == Effective(aliases, scope, tag) IN
    IF alias.status = "active" /\ Effective(terms, scope, alias.canonical).status = "active"
    THEN alias.canonical
    ELSE IF Effective(terms, scope, tag).status = "active" THEN tag ELSE NotFound

(* The tag itself if it is an active term, or the active term its alias     *)
(* names in the scope the alias was found in.                               *)
_canonical_tag_for_capability_input(tag, scope) ==
    LET term == Effective(terms, scope, tag)
        alias == Effective(aliases, scope, tag)
        found_in == IF Exists(aliases[scope][tag]) THEN scope ELSE Global
        Direct == term.status = "active" /\ ~Exists(alias)
        Named == /\ ~Exists(term) /\ alias.status = "active"
                 /\ Effective(terms, found_in, alias.canonical).status = "active"
    IN  IF Direct THEN tag ELSE IF Named THEN alias.canonical ELSE NotFound

_resolve_capability_vocab_tags(tags, scope) ==
    {_canonical_tag_for_capability_input(tag, scope) : tag \in tags}

-----------------------------------------------------------------------------
(* What the read handlers answer.                                           *)

(* _equivalent_snapshot and _capability_response: the provider is looked up *)
(* in the scope of the capability's row.                                    *)
Snapshot(scope, k) ==
    LET found_in == IF Exists(capabilities[scope][k]) THEN scope ELSE Global
        row == capabilities[found_in][k]
    IN  [k_algo |-> k, status |-> row.status, provider_id |-> row.provider_id,
         task_type |-> row.task_type, tags |-> row.tags,
         supported_solvers |-> row.supported_solvers, model_version |-> row.model_version,
         metadata |-> row.metadata, provider |-> Effective(providers, found_in, row.provider_id)]

Listed(scope) == {k \in Algos : Exists(Effective(capabilities, scope, k))}

_effective_capability_rows(scope) == {Snapshot(scope, k) : k \in Listed(scope)}

get_capability(scope, k) ==
    IF k \in Listed(scope) /\ Exists(Snapshot(scope, k).provider)
    THEN [kind |-> "found", answer |-> Snapshot(scope, k)] ELSE Nothing

get_capability_equivalents(scope, k) ==
    IF k \in Listed(scope) /\ Solver \in Snapshot(scope, k).supported_solvers
       /\ Snapshot(scope, k).tags # {}
    THEN [kind |-> "found",
          answer |-> match_equivalent_capabilities(
                         Snapshot(scope, k), _effective_capability_rows(scope), Solver, MaxResults)]
    ELSE Nothing

get_provider(scope, id) ==
    IF Exists(Effective(providers, scope, id))
    THEN [kind |-> "found", answer |-> Effective(providers, scope, id)] ELSE Nothing

(* A term is shown with the aliases of the scope its row is in. *)
get_capability_vocab_term(scope, tag) ==
    LET found_in == IF Exists(terms[scope][tag]) THEN scope ELSE Global IN
    IF Exists(terms[found_in][tag])
    THEN [kind |-> "found", answer |-> terms[found_in][tag],
          aliases |-> {<<a, aliases[found_in][a].status>> :
                           a \in {b \in Tags : aliases[found_in][b].canonical = tag}}]
    ELSE Nothing

Answer(key) ==
    CASE key[1] = "capability"  -> get_capability(key[2], key[3])
      [] key[1] = "equivalents" -> get_capability_equivalents(key[2], key[3])
      [] key[1] = "provider"    -> get_provider(key[2], key[3])
      [] key[1] = "term"        -> get_capability_vocab_term(key[2], key[3])

-----------------------------------------------------------------------------
(* Some of the catalog may have been set up before. *)
InitCatalog(someProviders, someTerms, someAliases) ==
    /\ providers = [s \in Scopes |-> [p \in ProviderIds |-> IF s = Global THEN someProviders[p] ELSE NoProvider]]
    /\ terms = [s \in Scopes |-> [t \in Tags |-> IF s = Global THEN someTerms[t] ELSE NoTerm]]
    /\ aliases = [s \in Scopes |-> [t \in Tags |-> IF s = Global THEN someAliases[t] ELSE NoAlias]]
    /\ capabilities = [s \in Scopes |-> [k \in Algos |-> NoCapability]]
    /\ oauth = [s \in Scopes |-> [p \in ProviderIds |-> NoFlow]]
    /\ cache = [key \in CacheKeys |-> Nothing]
    /\ req = [w \in Workers |-> Idle]
    /\ writes = 0 /\ faults = 0 /\ overlaps = 0

(* Any catalog of well-formed rows. *)
Init ==
    \E someProviders \in [ProviderIds -> ProviderBodies \cup {NoProvider}],
       someTerms \in [Tags -> {NoTerm} \cup [status : {"draft", "active", "deprecated"},
                                            refs : SUBSET Tags]],
       someAliases \in [Tags -> {NoAlias} \cup [status : {"active", "deprecated"}, canonical : Tags]] :
          InitCatalog(someProviders, someTerms, someAliases)

-----------------------------------------------------------------------------
Busy == {w \in Workers : req[w] # Idle}

Begins(w) ==
    /\ req[w] = Idle
    /\ overlaps' = IF Busy = {} THEN overlaps ELSE overlaps + 1
    /\ overlaps' <= MaxOverlaps

(* Deleting what matches the prefix, which is allowed to fail. *)
_invalidate_cache ==
    \/ cache' = [key \in CacheKeys |-> Nothing] /\ UNCHANGED faults
    \/ faults < MaxFaults /\ faults' = faults + 1 /\ UNCHANGED cache

(* Rows that are flushed and not committed yet. *)
Locked(kind, scope, id) ==
    \E w \in Workers : req[w].kind = kind /\ req[w].scope = scope /\ req[w].id = id

(* A handler flushes new for a row and will commit it. *)
Flushes(w, kind, scope, id, new) ==
    /\ Begins(w)
    /\ ~Locked(kind, scope, id)
    /\ writes < MaxWrites
    /\ writes' = writes + 1
    /\ req' = [req EXCEPT ![w] = [kind |-> kind, scope |-> scope, id |-> id, new |-> new]]
    /\ UNCHANGED tables

(* Mutant: the cache is kept. *)
upsert_provider_keeping_cache(w, scope, p, body) ==
    /\ Flushes(w, "provider", scope, p, body)
    /\ UNCHANGED <<cache, faults>>

upsert_provider(w, scope, p, body) ==
    /\ Flushes(w, "provider", scope, p, body)
    /\ _invalidate_cache

(* The alias is free in this scope, or this term's already. *)
AliasAvailable(scope, a, tag) ==
    /\ Exists(aliases[scope][a]) => aliases[scope][a].canonical = tag
    /\ \A w \in Workers : req[w].kind = "term" /\ req[w].scope = scope => req[w].new.aliases[a] = "none"

(* A body has the term's status, the terms it refers to as parent or as     *)
(* replaced, and the status of each alias the term is to have.              *)
upsert_capability_vocab_term(w, scope, tag, body) ==
    /\ tag \notin body.refs /\ body.aliases[tag] = "none"
    /\ \A ref \in body.refs : Exists(Effective(terms, scope, ref))
    /\ \A a \in Tags : body.aliases[a] # "none" => AliasAvailable(scope, a, tag)
    /\ Flushes(w, "term", scope, tag, body)
    /\ _invalidate_cache

ProviderKnown(scope, p) == Exists(Effective(providers, scope, p))

upsert_capability(w, scope, k, body) ==
    LET canonical_tags == _resolve_capability_vocab_tags(body.tags, scope) IN
    /\ ProviderKnown(scope, body.provider_id)
    /\ NotFound \notin canonical_tags
    /\ Flushes(w, "capability", scope, k, [body EXCEPT !.tags = canonical_tags])
    /\ _invalidate_cache

(* OAuth flows are not cached. *)
upsert_oauth_flow(w, scope, p) ==
    /\ ProviderKnown(scope, p)
    /\ Flushes(w, "oauth", scope, p, [status |-> "configured"])
    /\ UNCHANGED <<cache, faults>>

Finish(w) ==
    /\ req' = [req EXCEPT ![w] = Idle]
    /\ UNCHANGED <<writes, overlaps>>

Commit(w) ==
    LET s == req[w].scope
        id == req[w].id
        new == req[w].new IN
    /\ \/ /\ req[w].kind = "provider"
          /\ providers' = [providers EXCEPT ![s][id] = new]
          /\ UNCHANGED <<terms, aliases, capabilities, oauth>>
       \/ /\ req[w].kind = "term"
          /\ terms' = [terms EXCEPT ![s][id] = [status |-> new.status, refs |-> new.refs]]
          /\ aliases' = [aliases EXCEPT ![s] = [a \in Tags |->
                 IF new.aliases[a] # "none" THEN [status |-> new.aliases[a], canonical |-> id]
                 ELSE IF aliases[s][a].canonical = id THEN NoAlias ELSE aliases[s][a]]]
          /\ UNCHANGED <<providers, capabilities, oauth>>
       \/ /\ req[w].kind = "capability"
          /\ capabilities' = [capabilities EXCEPT ![s][id] = new]
          /\ UNCHANGED <<providers, terms, aliases, oauth>>
       \/ /\ req[w].kind = "oauth"
          /\ oauth' = [oauth EXCEPT ![s][id] = new]
          /\ UNCHANGED <<providers, terms, aliases, capabilities>>
    /\ Finish(w)
    /\ UNCHANGED <<cache, faults>>

-----------------------------------------------------------------------------
(* A read that misses the cache computes its answer; an error is not kept. *)
Read(w, key) ==
    /\ cache[key] = Nothing
    /\ Answer(key) # Nothing
    /\ Begins(w)
    /\ req' = [req EXCEPT ![w] = [kind |-> "read", key |-> key, answer |-> Answer(key)]]
    /\ UNCHANGED <<tables, cache, writes, faults>>

(* Storing the answer is allowed to fail. *)
_cache_set(w) ==
    /\ req[w].kind = "read"
    /\ \/ cache' = [cache EXCEPT ![req[w].key] = req[w].answer] /\ UNCHANGED faults
       \/ faults < MaxFaults /\ faults' = faults + 1 /\ UNCHANGED cache
    /\ Finish(w)
    /\ UNCHANGED tables

(* Mutant: an answer is stored without a time to live. *)
never_expires(key) == FALSE /\ UNCHANGED vars

(* The time to live of an answer ends. *)
Expire(key) ==
    /\ cache[key] # Nothing
    /\ cache' = [cache EXCEPT ![key] = Nothing]
    /\ UNCHANGED <<tables, req, writes, faults, overlaps>>

Write(w) ==
    \E s \in Scopes :
        \/ \E p \in ProviderIds, body \in ProviderBodies : upsert_provider(w, s, p, body)
        \/ \E t \in Tags, body \in TermBodies : upsert_capability_vocab_term(w, s, t, body)
        \/ \E k \in Algos, body \in CapabilityBodies : upsert_capability(w, s, k, body)
        \/ \E p \in ProviderIds : upsert_oauth_flow(w, s, p)

Next ==
    \/ \E w \in Workers : Write(w) \/ Commit(w) \/ _cache_set(w) \/ \E key \in CacheKeys : Read(w, key)
    \/ \E key \in CacheKeys : Expire(key)

(* A handler that has flushed or read goes on, and Redis drops what is old. *)
Fairness ==
    /\ \A w \in Workers : WF_vars(Commit(w)) /\ WF_vars(_cache_set(w))
    /\ \A key \in CacheKeys : WF_vars(Expire(key))

Spec == Init /\ [][Next]_vars /\ Fairness

-----------------------------------------------------------------------------
(* However the handlers interleave, the tags of a capability are terms of   *)
(* the vocabulary of its scope, never aliases.                              *)
StoredTagsAreTerms ==
    \A s \in Scopes, k \in Algos :
        Exists(capabilities[s][k]) =>
            \A t \in capabilities[s][k].tags : Exists(Effective(terms, s, t))

(* Resolving is idempotent: registering a capability again with the tags it *)
(* was stored with may be refused, but never gives it other tags, even      *)
(* when two terms are each other's aliases.                                 *)
ResolutionIsIdempotent ==
    \A s \in Scopes, t \in Tags :
        LET canonical == _canonical_tag_for_capability_input(t, s) IN
        canonical # NotFound =>
            _canonical_tag_for_capability_input(canonical, s) \in {canonical, NotFound}

(* However the handlers interleave, a stored capability can be shown: its   *)
(* provider is configured for its scope.                                    *)
CapabilitiesCanBeShown ==
    \A s \in Scopes : \A k \in Listed(s) : Exists(Snapshot(s, k).provider)

(* Equivalence goes both ways: what can replace a capability that could     *)
(* itself be chosen can be replaced by it.                                  *)
EquivalenceIsMutual ==
    \A s \in Scopes :
        \A a, b \in _effective_capability_rows(s) :
            /\ rejection(a, b, Solver) = "none"
            /\ rejection(b, a, Solver) \notin {"solver_mismatch", "provider_missing", "provider_not_active",
                                               "capability_not_eligible", "invalid_precision"}
            => rejection(b, a, Solver) = "none"

Fresh(key) == cache[key] \in {Nothing, Answer(key)}

(* As long as no requests overlap and Redis answers, a cached answer is     *)
(* the one the database would give.                                         *)
CacheIsCoherent == overlaps = 0 /\ faults = 0 => \A key \in CacheKeys : Fresh(key)

(* Whatever raced or failed, once writes end every answer that stays in     *)
(* the cache is the database's.                                             *)
CacheBecomesFresh == <>[](\A key \in CacheKeys : Fresh(key))

(* However the handlers interleave, what the catalog stores can be          *)
(* resolved, shown and compared.                                            *)
CatalogResolvable ==
    StoredTagsAreTerms /\ ResolutionIsIdempotent /\ CapabilitiesCanBeShown /\ EquivalenceIsMutual
=============================================================================
