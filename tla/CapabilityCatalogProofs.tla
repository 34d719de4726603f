----------------------- MODULE CapabilityCatalogProofs -----------------------
(***************************************************************************)
(* Proofs about CapabilityCatalog, for any number of workers, tenants,     *)
(* rows, cached reads, writes, faults and overlapping requests, from any   *)
(* catalog of well-formed rows.                                            *)
(***************************************************************************)
EXTENDS CapabilityCatalog, TLAPS

(* The tables have a row for every scope and id, a row that is there or     *)
(* about to be committed has a status, and an alias names a tag.            *)
ProviderShape ==
    /\ providers = [s \in Scopes |-> providers[s]]
    /\ \A s \in Scopes : providers[s] = [p \in ProviderIds |-> providers[s][p]]
TermShape ==
    /\ terms = [s \in Scopes |-> terms[s]]
    /\ \A s \in Scopes : terms[s] = [t \in Tags |-> terms[s][t]]
AliasShape ==
    /\ aliases = [s \in Scopes |-> aliases[s]]
    /\ \A s \in Scopes : aliases[s] = [t \in Tags |-> aliases[s][t]]
AliasesNameTags ==
    \A s \in Scopes : \A t \in Tags :
        aliases[s][t].status = "active" => aliases[s][t].canonical \in Tags
CapabilityShape ==
    /\ capabilities = [s \in Scopes |-> capabilities[s]]
    /\ \A s \in Scopes : capabilities[s] = [k \in Algos |-> capabilities[s][k]]
SessionShape ==
    /\ cache = [key \in CacheKeys |-> cache[key]]
    /\ req = [w \in Workers |-> req[w]]
    /\ overlaps \in Nat /\ faults \in Nat

Shapes ==
    /\ ProviderShape /\ TermShape /\ AliasShape /\ AliasesNameTags /\ CapabilityShape
    /\ SessionShape

(* What upsert_capability has checked of a row it stores in a scope. *)
Supported(scope, c) ==
    /\ c.provider_id \in ProviderIds /\ Exists(Effective(providers, scope, c.provider_id))
    /\ \A t \in c.tags : t \in Tags /\ Exists(Effective(terms, scope, t))

(* What each handler is about to commit or to store. *)
PendingSound ==
    \A w \in Workers :
        /\ req[w].kind \in {"idle", "provider", "term", "capability", "oauth", "read"}
        /\ req[w].kind = "idle" => req[w] = Idle
        /\ req[w].kind \in {"provider", "term", "capability", "oauth"} => req[w].scope \in Scopes
        /\ req[w].kind = "provider" => req[w].id \in ProviderIds /\ Exists(req[w].new)
        /\ req[w].kind = "term" => req[w].id \in Tags /\ Exists(req[w].new)
        /\ req[w].kind = "capability" => req[w].id \in Algos /\ Supported(req[w].scope, req[w].new)
        /\ req[w].kind = "read" => req[w].key \in CacheKeys

StoredSound ==
    \A s \in Scopes : \A k \in Algos :
        Exists(capabilities[s][k]) => Supported(s, capabilities[s][k])

CatalogInv == Shapes /\ PendingSound /\ StoredSound

-----------------------------------------------------------------------------
(* The first states satisfy the invariant. *)
LEMMA CatalogInit == Init => CatalogInv
  <1> SUFFICES ASSUME Init PROVE CatalogInv
    OBVIOUS
  <1>1. PICK someProviders \in [ProviderIds -> ProviderBodies \cup {NoProvider}],
             someTerms \in [Tags -> {NoTerm} \cup [status : {"draft", "active", "deprecated"},
                                                  refs : SUBSET Tags]],
             someAliases \in [Tags -> {NoAlias} \cup [status : {"active", "deprecated"},
                                                    canonical : Tags]] :
                InitCatalog(someProviders, someTerms, someAliases)
    BY DEF Init
  <1>2. \A s \in Scopes : \A t \in Tags :
           aliases[s][t].status = "active" => aliases[s][t].canonical \in Tags
    <2> SUFFICES ASSUME NEW s \in Scopes, NEW t \in Tags, aliases[s][t].status = "active"
                 PROVE  aliases[s][t].canonical \in Tags
      OBVIOUS
    <2>1. aliases[s][t] = IF s = Global THEN someAliases[t] ELSE NoAlias
      BY <1>1 DEF InitCatalog
    <2> QED BY <2>1 DEF NoAlias
  <1>3. Shapes
    BY <1>1, <1>2 DEF InitCatalog, Shapes, ProviderShape, TermShape,
      AliasShape, AliasesNameTags, CapabilityShape, SessionShape
  <1>4. PendingSound
    BY <1>1 DEF InitCatalog, PendingSound, Idle
  <1>5. StoredSound
    BY <1>1 DEF InitCatalog, StoredSound, NoCapability, Exists
  <1> QED BY <1>3, <1>4, <1>5 DEF CatalogInv

-----------------------------------------------------------------------------
(* No row of a table ever goes away, so what was effective stays. *)
ProvidersStay ==
    \A s \in Scopes : \A p \in ProviderIds : Exists(providers[s][p]) => Exists(providers'[s][p])
TermsStay ==
    \A s \in Scopes : \A t \in Tags : Exists(terms[s][t]) => Exists(terms'[s][t])

LEMMA SupportStays ==
    ASSUME ProvidersStay, TermsStay, NEW s \in Scopes, NEW c, Supported(s, c)
    PROVE  Supported(s, c)'
  <1>1. Global \in Scopes
    BY DEF Scopes
  <1>2. \A p \in ProviderIds : Exists(Effective(providers, s, p)) => Exists(Effective(providers, s, p))'
    BY <1>1 DEF ProvidersStay, Effective
  <1>3. \A t \in Tags : Exists(Effective(terms, s, t)) => Exists(Effective(terms, s, t))'
    BY <1>1 DEF TermsStay, Effective
  <1> QED BY <1>2, <1>3 DEF Supported

(* A tag that is resolved for a scope is a term there. *)
LEMMA CanonicalExists ==
    ASSUME Shapes, NEW s \in Scopes, NEW t \in Tags, NEW c,
           c = _canonical_tag_for_capability_input(t, s), c # NotFound
    PROVE  c \in Tags /\ Exists(Effective(terms, s, c))
  <1>0. Global \in Scopes
    BY DEF Scopes
  <1> DEFINE alias == Effective(aliases, s, t)
             found_in == IF Exists(aliases[s][t]) THEN s ELSE Global
             Direct == Effective(terms, s, t).status = "active" /\ ~Exists(alias)
             Named == /\ ~Exists(Effective(terms, s, t)) /\ alias.status = "active"
                      /\ Effective(terms, found_in, alias.canonical).status = "active"
  <1>1. c = IF Direct THEN t ELSE IF Named THEN alias.canonical ELSE NotFound
    BY DEF _canonical_tag_for_capability_input
  <1>2. CASE Direct
    BY <1>1, <1>2 DEF Exists
  <1>3. CASE ~Direct /\ Named
    <2>1. c = alias.canonical
      BY <1>1, <1>3
    <2>2. alias = aliases[found_in][t] /\ found_in \in Scopes
      BY <1>0 DEF Effective
    <2>3. c \in Tags
      BY <1>3, <2>1, <2>2 DEF Shapes, AliasesNameTags
    <2>4. Exists(Effective(terms, found_in, c))
      BY <1>3, <2>1 DEF Exists
    <2>5. found_in \in {s, Global}
      OBVIOUS
    <2>6. Exists(Effective(terms, s, c))
      BY <2>4, <2>5 DEF Effective
    <2> QED BY <2>3, <2>6
  <1> QED BY <1>1, <1>2, <1>3

-----------------------------------------------------------------------------
(* When a handler flushes a row, the tables stay as they are. *)
LEMMA FlushStep ==
    ASSUME CatalogInv, NEW w \in Workers, NEW kind, NEW scope \in Scopes, NEW id, NEW new,
           Flushes(w, kind, scope, id, new),
           \/ _invalidate_cache
           \/ UNCHANGED <<cache, faults>>,
           \/ kind = "provider" /\ id \in ProviderIds /\ Exists(new)
           \/ kind = "term" /\ id \in Tags /\ Exists(new)
           \/ kind = "capability" /\ id \in Algos /\ Supported(scope, new)
           \/ kind = "oauth"
    PROVE  CatalogInv'
  <1>1. UNCHANGED tables /\ overlaps' \in Nat
    BY DEF Flushes, Begins, CatalogInv, Shapes, SessionShape
  <1>2. PICK row : row = [kind |-> kind, scope |-> scope, id |-> id, new |-> new]
    OBVIOUS
  <1>3. req' = [req EXCEPT ![w] = row]
    BY <1>2 DEF Flushes
  <1>4. faults' \in Nat /\ cache' = [key \in CacheKeys |-> cache'[key]]
    BY DEF _invalidate_cache, CatalogInv, Shapes, SessionShape
  <1>5. Shapes'
    BY <1>1, <1>3, <1>4 DEF CatalogInv, tables, Shapes, ProviderShape, TermShape,
      AliasShape, AliasesNameTags, CapabilityShape, SessionShape
  <1>6. \A s, c : Supported(s, c) => Supported(s, c)'
    BY <1>1 DEF Supported, Effective, tables
  <1>7. PendingSound'
    <2> SUFFICES ASSUME NEW v \in Workers
                 PROVE  PendingSound!(v)'
      BY DEF PendingSound
    <2>1. CASE v = w
      <3>1. req'[v] = row
        BY <1>3, <2>1 DEF CatalogInv, Shapes, SessionShape
      <3> QED BY <3>1, <1>2, <1>6
    <2>2. CASE v # w
      <3>1. req'[v] = req[v]
        BY <1>3, <2>2 DEF CatalogInv, Shapes, SessionShape
      <3> QED BY <3>1, <1>6 DEF CatalogInv, PendingSound
    <2> QED BY <2>1, <2>2
  <1>8. StoredSound'
    BY <1>1, <1>6 DEF CatalogInv, StoredSound, tables
  <1> QED BY <1>5, <1>7, <1>8 DEF CatalogInv

(* The handlers that write: each has checked what it flushes. *)
LEMMA WriteStep ==
    ASSUME CatalogInv, NEW w \in Workers, Write(w)
    PROVE  CatalogInv'
  <1>1. PICK s \in Scopes :
           \/ \E p \in ProviderIds, body \in ProviderBodies : upsert_provider(w, s, p, body)
           \/ \E t \in Tags, body \in TermBodies : upsert_capability_vocab_term(w, s, t, body)
           \/ \E k \in Algos, body \in CapabilityBodies : upsert_capability(w, s, k, body)
           \/ \E p \in ProviderIds : upsert_oauth_flow(w, s, p)
    BY DEF Write
  <1>2. ASSUME NEW p \in ProviderIds, NEW body \in ProviderBodies, upsert_provider(w, s, p, body)
        PROVE  CatalogInv'
    <2>1. Flushes(w, "provider", s, p, body) /\ _invalidate_cache
      BY <1>2 DEF upsert_provider
    <2>2. Exists(body)
      BY CatalogAssumption
    <2> QED BY <2>1, <2>2, FlushStep
  <1>3. ASSUME NEW t \in Tags, NEW body \in TermBodies, upsert_capability_vocab_term(w, s, t, body)
        PROVE  CatalogInv'
    <2>1. Flushes(w, "term", s, t, body) /\ _invalidate_cache
      BY <1>3 DEF upsert_capability_vocab_term
    <2>2. Exists(body)
      BY CatalogAssumption DEF Exists
    <2> QED BY <2>1, <2>2, FlushStep
  <1>4. ASSUME NEW k \in Algos, NEW body \in CapabilityBodies, upsert_capability(w, s, k, body)
        PROVE  CatalogInv'
    <2>1. PICK canonical_tags : canonical_tags = _resolve_capability_vocab_tags(body.tags, s)
      OBVIOUS
    <2>2. PICK new : new = [body EXCEPT !.tags = canonical_tags]
      OBVIOUS
    <2>3. /\ ProviderKnown(s, body.provider_id) /\ NotFound \notin canonical_tags
          /\ Flushes(w, "capability", s, k, new) /\ _invalidate_cache
      BY <1>4, <2>1, <2>2 DEF upsert_capability
    <2>4. new.provider_id = body.provider_id /\ new.tags = canonical_tags
      BY <2>2, CatalogAssumption
    <2>5. body.provider_id \in ProviderIds /\ body.tags \subseteq Tags
      BY CatalogAssumption
    <2>6. \A c \in canonical_tags : c \in Tags /\ Exists(Effective(terms, s, c))
      <3> SUFFICES ASSUME NEW c \in canonical_tags
                   PROVE  c \in Tags /\ Exists(Effective(terms, s, c))
        OBVIOUS
      <3>1. PICK t \in body.tags : c = _canonical_tag_for_capability_input(t, s)
        BY <2>1 DEF _resolve_capability_vocab_tags
      <3>2. t \in Tags /\ c # NotFound
        BY <2>3, <2>5
      <3> QED BY <3>1, <3>2, CanonicalExists DEF CatalogInv
    <2>7. Supported(s, new)
      BY <2>3, <2>4, <2>5, <2>6 DEF Supported, ProviderKnown
    <2> QED BY <2>3, <2>7, FlushStep
  <1>5. ASSUME NEW p \in ProviderIds, upsert_oauth_flow(w, s, p)
        PROVE  CatalogInv'
    <2>1. PICK new : new = [status |-> "configured"]
      OBVIOUS
    <2>2. Flushes(w, "oauth", s, p, new) /\ UNCHANGED <<cache, faults>>
      BY <1>5, <2>1 DEF upsert_oauth_flow
    <2> QED BY <2>2, FlushStep
  <1> QED BY <1>1, <1>2, <1>3, <1>4, <1>5

(* The commit of a handler: rows are added or replaced, never removed. *)
LEMMA CommitStep ==
    ASSUME CatalogInv, NEW w \in Workers, Commit(w)
    PROVE  CatalogInv' /\ ProvidersStay /\ TermsStay
  <1> USE DEF CatalogInv
  <1>1. PICK s, id, new : s = req[w].scope /\ id = req[w].id /\ new = req[w].new
    OBVIOUS
  <1>2. \/ /\ req[w].kind = "provider"
           /\ providers' = [providers EXCEPT ![s][id] = new]
           /\ UNCHANGED <<terms, aliases, capabilities, oauth>>
        \/ /\ req[w].kind = "term"
           /\ terms' = [terms EXCEPT ![s][id] = [status |-> new.status, refs |-> new.refs]]
           /\ aliases' = [aliases EXCEPT ![s] = [a \in Tags |->
                 IF new.aliases[a] # "none" THEN [status |-> new.aliases[a], canonical |-> id]
                 ELSE IF aliases[s][a].canonical = id THEN NoAlias ELSE aliases[s][a]]]
           /\ UNCHANGED <<providers, capabilities, oauth>>
        \/ /\ req[w].kind = "capability"
           /\ capabilities' = [capabilities EXCEPT ![s][id] = new]
           /\ UNCHANGED <<providers, terms, aliases, oauth>>
        \/ /\ req[w].kind = "oauth"
           /\ oauth' = [oauth EXCEPT ![s][id] = new]
           /\ UNCHANGED <<providers, terms, aliases, capabilities>>
    BY <1>1 DEF Commit
  <1>3. req' = [req EXCEPT ![w] = Idle] /\ UNCHANGED <<writes, overlaps, cache, faults>>
    BY DEF Commit, Finish
  <1>4. s \in Scopes
    BY <1>1, <1>2 DEF PendingSound
  <1>5. ProvidersStay
    <2>1. CASE req[w].kind = "provider"
      <3>1. id \in ProviderIds /\ Exists(new)
        BY <1>1, <2>1 DEF PendingSound
      <3>2. providers' = [providers EXCEPT ![s][id] = new]
        BY <1>2, <2>1
      <3>3. \A r \in Scopes : \A p \in ProviderIds :
               providers'[r][p] = IF r = s /\ p = id THEN new ELSE providers[r][p]
        BY <1>4, <3>1, <3>2 DEF Shapes, ProviderShape
      <3> QED BY <3>1, <3>3 DEF ProvidersStay
    <2>2. CASE req[w].kind # "provider"
      BY <1>2, <2>2 DEF ProvidersStay
    <2> QED BY <2>1, <2>2
  <1>6. TermsStay
    <2>1. CASE req[w].kind = "term"
      <3>1. id \in Tags /\ new.status # "none"
        BY <1>1, <2>1 DEF PendingSound, Exists
      <3>2. terms' = [terms EXCEPT ![s][id] = [status |-> new.status, refs |-> new.refs]]
        BY <1>2, <2>1
      <3>3. \A r \in Scopes : \A t \in Tags :
               terms'[r][t] = IF r = s /\ t = id THEN [status |-> new.status, refs |-> new.refs]
                              ELSE terms[r][t]
        BY <1>4, <3>1, <3>2 DEF Shapes, TermShape
      <3> QED BY <3>1, <3>3 DEF TermsStay, Exists
    <2>2. CASE req[w].kind # "term"
      BY <1>2, <2>2 DEF TermsStay
    <2> QED BY <2>1, <2>2
  <1>7. Shapes'
    <2>1. ProviderShape'
      <3>1. CASE req[w].kind = "provider"
        <4>1. id \in ProviderIds
          BY <1>1, <3>1 DEF PendingSound
        <4>2. providers' = [providers EXCEPT ![s] = [providers[s] EXCEPT ![id] = new]]
          BY <1>2, <1>4, <3>1 DEF Shapes, ProviderShape
        <4> QED BY <1>4, <4>1, <4>2 DEF Shapes, ProviderShape
      <3>2. CASE req[w].kind # "provider"
        BY <1>2, <3>2 DEF Shapes, ProviderShape
      <3> QED BY <3>1, <3>2
    <2>2. TermShape'
      <3>1. CASE req[w].kind = "term"
        <4>1. id \in Tags
          BY <1>1, <3>1 DEF PendingSound
        <4>2. PICK row : row = [status |-> new.status, refs |-> new.refs]
          OBVIOUS
        <4>3. terms' = [terms EXCEPT ![s] = [terms[s] EXCEPT ![id] = row]]
          BY <1>2, <1>4, <3>1, <4>2 DEF Shapes, TermShape
        <4> QED BY <1>4, <4>1, <4>3 DEF Shapes, TermShape
      <3>2. CASE req[w].kind # "term"
        BY <1>2, <3>2 DEF Shapes, TermShape
      <3> QED BY <3>1, <3>2
    <2>3. AliasShape' /\ AliasesNameTags'
      <3>1. CASE req[w].kind = "term"
        <4>1. id \in Tags
          BY <1>1, <3>1 DEF PendingSound
        <4>2. PICK row : row = [a \in Tags |->
                 IF new.aliases[a] # "none" THEN [status |-> new.aliases[a], canonical |-> id]
                 ELSE IF aliases[s][a].canonical = id THEN NoAlias ELSE aliases[s][a]]
          OBVIOUS
        <4>3. aliases' = [aliases EXCEPT ![s] = row]
          BY <1>2, <3>1, <4>2
        <4>4. \A r \in Scopes : aliases'[r] = IF r = s THEN row ELSE aliases[r]
          BY <4>3 DEF Shapes, AliasShape
        <4>5. row = [a \in Tags |-> row[a]]
          BY <4>2
        <4>6. AliasShape'
          BY <4>3, <4>4, <4>5 DEF Shapes, AliasShape
        <4>7. \A t \in Tags : row[t].status = "active" => row[t].canonical \in Tags
          <5> SUFFICES ASSUME NEW t \in Tags, row[t].status = "active"
                       PROVE  row[t].canonical \in Tags
            OBVIOUS
          <5>1. CASE new.aliases[t] # "none"
            BY <4>1, <4>2, <5>1
          <5>2. CASE new.aliases[t] = "none" /\ aliases[s][t].canonical = id
            BY <4>2, <5>2 DEF NoAlias
          <5>3. CASE new.aliases[t] = "none" /\ aliases[s][t].canonical # id
            BY <1>4, <4>2, <5>3 DEF Shapes, AliasesNameTags
          <5> QED BY <5>1, <5>2, <5>3
        <4>8. AliasesNameTags'
          BY <4>4, <4>7 DEF Shapes, AliasesNameTags
        <4> QED BY <4>6, <4>8
      <3>2. CASE req[w].kind # "term"
        BY <1>2, <3>2 DEF Shapes, AliasShape, AliasesNameTags
      <3> QED BY <3>1, <3>2
    <2>4. CapabilityShape'
      <3>1. CASE req[w].kind = "capability"
        <4>1. id \in Algos
          BY <1>1, <3>1 DEF PendingSound
        <4>2. capabilities' = [capabilities EXCEPT ![s] = [capabilities[s] EXCEPT ![id] = new]]
          BY <1>2, <1>4, <3>1 DEF Shapes, CapabilityShape
        <4> QED BY <1>4, <4>1, <4>2 DEF Shapes, CapabilityShape
      <3>2. CASE req[w].kind # "capability"
        BY <1>2, <3>2 DEF Shapes, CapabilityShape
      <3> QED BY <3>1, <3>2
    <2>5. SessionShape'
      BY <1>3 DEF Shapes, SessionShape
    <2> QED BY <2>1, <2>2, <2>3, <2>4, <2>5 DEF Shapes
  <1>8. \A r \in Scopes : \A c : Supported(r, c) => Supported(r, c)'
    BY <1>5, <1>6, SupportStays
  <1>9. PendingSound'
    <2> SUFFICES ASSUME NEW v \in Workers
                 PROVE  PendingSound!(v)'
      BY DEF PendingSound
    <2>1. CASE v = w
      <3>1. req'[v] = Idle
        BY <1>3, <2>1 DEF Shapes, SessionShape
      <3> QED BY <3>1 DEF Idle
    <2>2. CASE v # w
      <3>1. req'[v] = req[v]
        BY <1>3, <2>2 DEF Shapes, SessionShape
      <3> QED BY <3>1, <1>8 DEF PendingSound
    <2> QED BY <2>1, <2>2
  <1>10. StoredSound'
    <2> SUFFICES ASSUME NEW r \in Scopes, NEW k \in Algos, Exists(capabilities[r][k])'
                 PROVE  Supported(r, capabilities[r][k])'
      BY DEF StoredSound
    <2>1. CASE req[w].kind = "capability" /\ r = s /\ k = id
      <3>1. capabilities'[r][k] = new
        BY <1>2, <1>4, <2>1 DEF Shapes, CapabilityShape
      <3>2. Supported(r, new)
        BY <1>1, <2>1 DEF PendingSound
      <3>3. Supported(r, new)'
        BY <1>8, <3>2
      <3> QED BY <3>1, <3>3
    <2>2. CASE ~(req[w].kind = "capability" /\ r = s /\ k = id)
      <3>1. capabilities'[r][k] = capabilities[r][k]
        BY <1>2, <1>4, <2>2 DEF Shapes, CapabilityShape
      <3>2. Supported(r, capabilities[r][k])
        BY <3>1 DEF StoredSound
      <3>3. PICK c : c = capabilities[r][k]
        OBVIOUS
      <3>4. Supported(r, c)'
        BY <1>8, <3>2, <3>3
      <3> QED BY <3>1, <3>3, <3>4
    <2> QED BY <2>1, <2>2
  <1> QED BY <1>5, <1>6, <1>7, <1>9, <1>10

(* Reads, their fills and the end of an answer's time to live leave the     *)
(* tables alone.                                                            *)
LEMMA ReadStep ==
    ASSUME CatalogInv, NEW w \in Workers,
           \/ _cache_set(w)
           \/ \E key \in CacheKeys : Read(w, key)
    PROVE  CatalogInv'
  <1> USE DEF CatalogInv
  <1>1. UNCHANGED tables
    BY DEF _cache_set, Read
  <1>2. PICK row : /\ req' = [req EXCEPT ![w] = row]
                   /\ \/ row.kind = "idle" /\ row = Idle
                      \/ row.kind = "read" /\ row.key \in CacheKeys
    <2>1. CASE _cache_set(w)
      <3>1. req' = [req EXCEPT ![w] = Idle]
        BY <2>1 DEF _cache_set, Finish
      <3>2. Idle.kind = "idle"
        BY DEF Idle
      <3> QED BY <3>1, <3>2
    <2>2. CASE \E key \in CacheKeys : Read(w, key)
      <3>1. PICK key \in CacheKeys : Read(w, key)
        BY <2>2
      <3>2. PICK row : row = [kind |-> "read", key |-> key, answer |-> Answer(key)]
        OBVIOUS
      <3>3. req' = [req EXCEPT ![w] = row]
        BY <3>1, <3>2 DEF Read
      <3>4. row.kind = "read" /\ row.key \in CacheKeys
        BY <3>2
      <3> QED BY <3>3, <3>4
    <2> QED BY <2>1, <2>2
  <1>3. overlaps' \in Nat /\ faults' \in Nat
    BY DEF _cache_set, Read, Finish, Begins, Shapes, SessionShape
  <1>4. cache' = [key \in CacheKeys |-> cache'[key]]
    BY DEF _cache_set, Read, Shapes, SessionShape
  <1>5. Shapes'
    BY <1>1, <1>2, <1>3, <1>4 DEF tables, Shapes, ProviderShape, TermShape, AliasShape,
       AliasesNameTags, CapabilityShape, SessionShape
  <1>6. \A s, c : Supported(s, c) => Supported(s, c)'
    BY <1>1 DEF Supported, Effective, tables
  <1>7. PendingSound'
    <2> SUFFICES ASSUME NEW v \in Workers
                 PROVE  PendingSound!(v)'
      BY DEF PendingSound
    <2>1. CASE v = w
      BY <1>2, <2>1 DEF Shapes, SessionShape
    <2>2. CASE v # w
      <3>1. req'[v] = req[v]
        BY <1>2, <2>2 DEF Shapes, SessionShape
      <3> QED BY <3>1, <1>6 DEF PendingSound
    <2> QED BY <2>1, <2>2
  <1>8. StoredSound'
    BY <1>1, <1>6 DEF StoredSound, tables
  <1> QED BY <1>5, <1>7, <1>8

LEMMA QuietStep ==
    ASSUME CatalogInv,
           \/ \E key \in CacheKeys : Expire(key)
           \/ UNCHANGED vars
    PROVE  CatalogInv'
  <1> USE DEF CatalogInv
  <1>1. UNCHANGED <<tables, req, faults, overlaps>>
    BY DEF Expire, vars, tables
  <1>2. cache' = [key \in CacheKeys |-> cache'[key]]
    BY DEF Expire, vars, Shapes, SessionShape
  <1>3. Shapes'
    BY <1>1, <1>2 DEF tables, Shapes, ProviderShape, TermShape, AliasShape,
       AliasesNameTags, CapabilityShape, SessionShape
  <1>4. \A s, c : Supported(s, c) => Supported(s, c)'
    BY <1>1 DEF Supported, Effective, tables
  <1>5. PendingSound'
    BY <1>1, <1>4 DEF PendingSound
  <1>6. StoredSound'
    BY <1>1, <1>4 DEF StoredSound, tables
  <1> QED BY <1>3, <1>5, <1>6

(* Every step keeps the invariant. *)
LEMMA CatalogStep == CatalogInv /\ [Next]_vars => CatalogInv'
  <1> SUFFICES ASSUME CatalogInv, [Next]_vars PROVE CatalogInv'
    OBVIOUS
  <1>1. ASSUME NEW w \in Workers, Write(w) PROVE CatalogInv'
    BY <1>1, WriteStep
  <1>2. ASSUME NEW w \in Workers, Commit(w) PROVE CatalogInv'
    BY <1>2, CommitStep
  <1>3. ASSUME NEW w \in Workers, _cache_set(w) \/ \E key \in CacheKeys : Read(w, key)
        PROVE  CatalogInv'
    BY <1>3, ReadStep
  <1>4. ASSUME (\E key \in CacheKeys : Expire(key)) \/ UNCHANGED vars PROVE CatalogInv'
    BY <1>4, QuietStep
  <1> QED BY <1>1, <1>2, <1>3, <1>4 DEF Next

-----------------------------------------------------------------------------
(* What the invariant says of the catalog.                                  *)

(* Resolving is idempotent: a resolved tag is a term, and a term is never   *)
(* taken for an alias.                                                      *)
LEMMA ResolvedOnce == Shapes => ResolutionIsIdempotent
  <1> SUFFICES ASSUME Shapes, NEW s \in Scopes, NEW t \in Tags,
                      _canonical_tag_for_capability_input(t, s) # NotFound
               PROVE  _canonical_tag_for_capability_input(
                         _canonical_tag_for_capability_input(t, s), s)
                            \in {_canonical_tag_for_capability_input(t, s), NotFound}
    BY DEF ResolutionIsIdempotent
  <1>1. PICK c : c = _canonical_tag_for_capability_input(t, s)
    OBVIOUS
  <1>2. Exists(Effective(terms, s, c))
    BY <1>1, CanonicalExists
  <1>3. _canonical_tag_for_capability_input(c, s) \in {c, NotFound}
    BY <1>2 DEF _canonical_tag_for_capability_input
  <1> QED BY <1>1, <1>3

(* A candidate is rejected for a reason that speaks against it, and for     *)
(* none exactly if there is none.                                           *)
LEMMA RejectedForAReason ==
    ASSUME NEW source, NEW c, NEW solver
    PROVE  LET reasons == Rejections(source, c, solver) IN
           \/ /\ rejection(source, c, solver) = "none"
              /\ \A i \in 1..8 : ~reasons[i][2]
           \/ \E i \in 1..8 : reasons[i][2] /\ rejection(source, c, solver) = reasons[i][1]
  <1>1. PICK reasons : reasons = Rejections(source, c, solver)
    OBVIOUS
  <1>2. DOMAIN reasons = 1..8
    BY <1>1 DEF Rejections
  <1>3. PICK against : against = {i \in 1..8 : reasons[i][2]}
    OBVIOUS
  <1>4. rejection(source, c, solver) = IF against = {} THEN "none" ELSE reasons[Min(against)][1]
    BY <1>1, <1>2, <1>3 DEF rejection
  <1>5. CASE against = {}
    BY <1>1, <1>3, <1>4, <1>5
  <1>6. CASE against # {}
    <2>1. against \subseteq 1..8
      BY <1>3
    <2>2. \E x \in against : \A y \in against : x <= y
      <3>1. CASE 1 \in against
        BY <2>1, <3>1
      <3>2. CASE 1 \notin against /\ 2 \in against
        BY <2>1, <3>2
      <3>3. CASE 1 \notin against /\ 2 \notin against /\ 3 \in against
        BY <2>1, <3>3
      <3>4. CASE (\A i \in 1..3 : i \notin against) /\ 4 \in against
        BY <2>1, <3>4
      <3>5. CASE (\A i \in 1..4 : i \notin against) /\ 5 \in against
        BY <2>1, <3>5
      <3>6. CASE (\A i \in 1..5 : i \notin against) /\ 6 \in against
        BY <2>1, <3>6
      <3>7. CASE (\A i \in 1..6 : i \notin against) /\ 7 \in against
        BY <2>1, <3>7
      <3>8. CASE \A i \in 1..7 : i \notin against
        <4>1. \A i \in against : i = 8
          BY <2>1, <3>8
        <4> QED BY <1>6, <4>1
      <3> QED BY <2>1, <3>1, <3>2, <3>3, <3>4, <3>5, <3>6, <3>7, <3>8
    <2>3. Min(against) \in against
      BY <2>2 DEF Min
    <2>4. Min(against) \in 1..8 /\ reasons[Min(against)][2]
      BY <1>3, <2>3
    <2> QED BY <1>1, <1>4, <1>6, <2>4
  <1> QED BY <1>5, <1>6

(* Equivalence goes both ways. *)
LEMMA MutualEquivalence == EquivalenceIsMutual
  <1> SUFFICES ASSUME NEW s \in Scopes, NEW a \in _effective_capability_rows(s),
                      NEW b \in _effective_capability_rows(s),
                      rejection(a, b, Solver) = "none",
                      rejection(b, a, Solver) \notin
                          {"solver_mismatch", "provider_missing", "provider_not_active",
                           "capability_not_eligible", "invalid_precision"}
               PROVE  rejection(b, a, Solver) = "none"
    BY DEF EquivalenceIsMutual
  <1> DEFINE reasons == Rejections(a, b, Solver)
  <1>0. \A i \in 1..8 : reasons[i][1] # "none"
    BY DEF Rejections
  <1>1. ~(b.k_algo = a.k_algo) /\ ~(b.task_type # a.task_type) /\ ~(~same_tags(a, b))
    <2>1. \A i \in 1..8 : ~reasons[i][2]
      BY <1>0, RejectedForAReason
    <2>2. ~reasons[1][2] /\ ~reasons[2][2] /\ ~reasons[3][2]
      BY <2>1
    <2> QED BY <2>2 DEF Rejections
  <1>2. ~(a.k_algo = b.k_algo) /\ ~(a.task_type # b.task_type) /\ ~(~same_tags(b, a))
    BY <1>1 DEF same_tags
  <1> QED BY <1>2, RejectedForAReason DEF Rejections

(* However the handlers interleave, what the catalog stores can be          *)
(* resolved, shown and compared, for every vocabulary and every number of   *)
(* workers.                                                                 *)
THEOREM CatalogAlwaysResolvable == Spec => []CatalogResolvable
  <1>1. CatalogInv => CatalogResolvable
    <2> SUFFICES ASSUME CatalogInv PROVE CatalogResolvable
      OBVIOUS
    <2>1. StoredTagsAreTerms
      BY DEF CatalogInv, StoredSound, StoredTagsAreTerms, Supported
    <2>2. CapabilitiesCanBeShown
      <3> SUFFICES ASSUME NEW s \in Scopes, NEW k \in Listed(s)
                   PROVE  Exists(Snapshot(s, k).provider)
        BY DEF CapabilitiesCanBeShown
      <3>1. PICK found_in : found_in = IF Exists(capabilities[s][k]) THEN s ELSE Global
        OBVIOUS
      <3>2. found_in \in Scopes /\ k \in Algos /\ Exists(capabilities[found_in][k])
        BY <3>1 DEF Listed, Effective, Scopes
      <3>3. Supported(found_in, capabilities[found_in][k])
        BY <3>2 DEF CatalogInv, StoredSound
      <3>4. Snapshot(s, k).provider
               = Effective(providers, found_in, capabilities[found_in][k].provider_id)
        BY <3>1 DEF Snapshot
      <3> QED BY <3>3, <3>4 DEF Supported
    <2> QED BY <2>1, <2>2, ResolvedOnce, MutualEquivalence DEF CatalogResolvable, CatalogInv
  <1> QED BY <1>1, CatalogInit, CatalogStep, PTL DEF Spec

-----------------------------------------------------------------------------
(* The cache.                                                               *)

(* As long as no requests overlap there is one handler at a time.  If it is *)
(* about to store an answer it is still the database's, and if it has       *)
(* flushed rows that answers depend on the cache is empty.                  *)
OneAtATime == \A v, w \in Workers : req[v] # Idle /\ req[w] # Idle => v = w
FillsAreFresh == \A w \in Workers : req[w].kind = "read" => req[w].answer = Answer(req[w].key)
EmptyBeforeCommit ==
    (\E w \in Workers : req[w].kind \in {"provider", "term", "capability"})
        => \A key \in CacheKeys : cache[key] = Nothing

CacheInv ==
    /\ overlaps = 0 => OneAtATime
    /\ overlaps = 0 /\ faults = 0 =>
          FillsAreFresh /\ EmptyBeforeCommit /\ \A key \in CacheKeys : Fresh(key)

(* Answers are computed from the rows of four tables and from nothing else. *)
LEMMA AnswersStay ==
    ASSUME UNCHANGED <<providers, terms, aliases, capabilities>>, NEW key
    PROVE  Answer(key)' = Answer(key)
  <1>1. \A s, k : (Snapshot(s, k))' = Snapshot(s, k)
    BY DEF Snapshot, Effective
  <1>2. \A s : Listed(s)' = Listed(s)
    BY DEF Listed, Effective
  <1>3. \A s : _effective_capability_rows(s)' = _effective_capability_rows(s)
    BY <1>1, <1>2 DEF _effective_capability_rows
  <1>4. \A s, k : get_capability(s, k)' = get_capability(s, k)
    BY <1>1, <1>2 DEF get_capability
  <1>5. \A s, k : get_capability_equivalents(s, k)' = get_capability_equivalents(s, k)
    BY <1>1, <1>2, <1>3 DEF get_capability_equivalents
  <1>6. \A s, id : get_provider(s, id)' = get_provider(s, id)
    BY DEF get_provider, Effective
  <1>7. \A s, t : get_capability_vocab_term(s, t)' = get_capability_vocab_term(s, t)
    BY DEF get_capability_vocab_term
  <1> QED BY <1>4, <1>5, <1>6, <1>7 DEF Answer

(* A request that begins and overlaps with none begins alone. *)
LEMMA BeginsAlone ==
    ASSUME CatalogInv, NEW w \in Workers, Begins(w), overlaps' = 0
    PROVE  overlaps = 0 /\ \A v \in Workers : req[v] = Idle
  <1>1. overlaps \in Nat
    BY DEF CatalogInv, Shapes, SessionShape
  <1>2. Busy = {} /\ overlaps = 0
    BY <1>1 DEF Begins
  <1> QED BY <1>2 DEF Busy

LEMMA CacheInit == Init => CacheInv
  <1> SUFFICES ASSUME Init PROVE CacheInv
    OBVIOUS
  <1>1. /\ cache = [key \in CacheKeys |-> Nothing]
        /\ req = [w \in Workers |-> Idle]
    BY DEF Init, InitCatalog
  <1>2. OneAtATime
    BY <1>1 DEF OneAtATime
  <1>3. FillsAreFresh /\ EmptyBeforeCommit
    BY <1>1 DEF FillsAreFresh, EmptyBeforeCommit, Idle
  <1>4. \A key \in CacheKeys : Fresh(key)
    BY <1>1 DEF Fresh
  <1> QED BY <1>2, <1>3, <1>4 DEF CacheInv

(* A write that is alone leaves an empty cache, unless Redis fails or what  *)
(* it writes is never cached.                                               *)
LEMMA CacheWrite ==
    ASSUME CatalogInv, CacheInv, NEW w \in Workers, Write(w)
    PROVE  CacheInv'
  <1> SUFFICES ASSUME overlaps' = 0
               PROVE  /\ OneAtATime'
                      /\ faults' = 0 => /\ FillsAreFresh' /\ EmptyBeforeCommit'
                                        /\ \A key \in CacheKeys : Fresh(key)'
    BY DEF CacheInv
  <1>1. PICK s, kind, id, new :
           /\ s \in Scopes /\ kind \in {"provider", "term", "capability", "oauth"}
           /\ Flushes(w, kind, s, id, new)
           /\ \/ _invalidate_cache
              \/ kind = "oauth" /\ UNCHANGED <<cache, faults>>
    BY DEF Write, upsert_provider, upsert_capability_vocab_term, upsert_capability, upsert_oauth_flow
  <1>2. Begins(w) /\ UNCHANGED tables
    BY <1>1 DEF Flushes
  <1>3. overlaps = 0 /\ \A v \in Workers : req[v] = Idle
    BY <1>2, BeginsAlone
  <1>4. PICK row : row = [kind |-> kind, scope |-> s, id |-> id, new |-> new]
    OBVIOUS
  <1>5. req' = [req EXCEPT ![w] = row] /\ row.kind = kind
    BY <1>1, <1>4 DEF Flushes
  <1>6. \A v \in Workers : req'[v] = IF v = w THEN row ELSE Idle
    BY <1>3, <1>5 DEF CatalogInv, Shapes, SessionShape
  <1>7. OneAtATime'
    BY <1>6 DEF OneAtATime
  <1>8. ASSUME faults' = 0
        PROVE  FillsAreFresh' /\ EmptyBeforeCommit' /\ \A key \in CacheKeys : Fresh(key)'
    <2>1. faults \in Nat
      BY DEF CatalogInv, Shapes, SessionShape
    <2>2. FillsAreFresh'
      BY <1>1, <1>5, <1>6 DEF FillsAreFresh, Idle
    <2>3. CASE cache' = [key \in CacheKeys |-> Nothing]
      BY <2>2, <2>3 DEF EmptyBeforeCommit, Fresh
    <2>4. CASE kind = "oauth" /\ UNCHANGED <<cache, faults>>
      <3>1. EmptyBeforeCommit'
        BY <1>1, <1>5, <1>6, <2>4 DEF EmptyBeforeCommit, Idle
      <3>2. \A key \in CacheKeys : Fresh(key)
        BY <1>3, <1>8, <2>4 DEF CacheInv
      <3>3. \A key : Answer(key)' = Answer(key)
        BY <1>2, AnswersStay DEF tables
      <3>4. \A key \in CacheKeys : Fresh(key)'
        BY <2>4, <3>2, <3>3 DEF Fresh
      <3> QED BY <2>2, <3>1, <3>4
    <2> QED BY <1>1, <1>8, <2>1, <2>3, <2>4 DEF _invalidate_cache
  <1> QED BY <1>7, <1>8

(* The commit finds the cache its flush has emptied. *)
LEMMA CacheCommit ==
    ASSUME CatalogInv, CacheInv, NEW w \in Workers, Commit(w)
    PROVE  CacheInv'
  <1>1. req' = [req EXCEPT ![w] = Idle] /\ UNCHANGED <<overlaps, cache, faults>>
    BY DEF Commit, Finish
  <1>2. req[w].kind \in {"provider", "term", "capability", "oauth"}
    BY DEF Commit
  <1>3. req[w] # Idle
    BY <1>2 DEF Idle
  <1>4. \A v \in Workers : req'[v] = IF v = w THEN Idle ELSE req[v]
    BY <1>1 DEF CatalogInv, Shapes, SessionShape
  <1> SUFFICES ASSUME overlaps = 0
               PROVE  /\ OneAtATime'
                      /\ faults = 0 => /\ FillsAreFresh' /\ EmptyBeforeCommit'
                                       /\ \A key \in CacheKeys : Fresh(key)'
    BY <1>1 DEF CacheInv
  <1>5. \A v \in Workers : req'[v] = Idle
    BY <1>3, <1>4 DEF CacheInv, OneAtATime
  <1>6. OneAtATime'
    BY <1>5 DEF OneAtATime
  <1>7. FillsAreFresh' /\ EmptyBeforeCommit'
    BY <1>5 DEF FillsAreFresh, EmptyBeforeCommit, Idle
  <1>8. ASSUME faults = 0 PROVE \A key \in CacheKeys : Fresh(key)'
    <2>1. CASE req[w].kind # "oauth"
      <3>1. \A key \in CacheKeys : cache[key] = Nothing
        BY <1>2, <1>8, <2>1 DEF CacheInv, EmptyBeforeCommit
      <3> QED BY <1>1, <3>1 DEF Fresh
    <2>2. CASE req[w].kind = "oauth"
      <3>1. UNCHANGED <<providers, terms, aliases, capabilities>>
        BY <2>2 DEF Commit
      <3>2. \A key : Answer(key)' = Answer(key)
        BY <3>1, AnswersStay
      <3>3. \A key \in CacheKeys : Fresh(key)
        BY <1>8 DEF CacheInv
      <3> QED BY <1>1, <3>2, <3>3 DEF Fresh
    <2> QED BY <2>1, <2>2
  <1> QED BY <1>6, <1>7, <1>8

(* A read that is alone computes what the database holds. *)
LEMMA CacheRead ==
    ASSUME CatalogInv, CacheInv, NEW w \in Workers, NEW key \in CacheKeys, Read(w, key)
    PROVE  CacheInv'
  <1> SUFFICES ASSUME overlaps' = 0
               PROVE  /\ OneAtATime'
                      /\ faults = 0 => /\ FillsAreFresh' /\ EmptyBeforeCommit'
                                       /\ \A k \in CacheKeys : Fresh(k)'
    BY DEF CacheInv, Read
  <1>1. Begins(w) /\ UNCHANGED <<tables, cache, faults>>
    BY DEF Read
  <1>2. overlaps = 0 /\ \A v \in Workers : req[v] = Idle
    BY <1>1, BeginsAlone
  <1>3. PICK row : row = [kind |-> "read", key |-> key, answer |-> Answer(key)]
    OBVIOUS
  <1>4. /\ req' = [req EXCEPT ![w] = row]
        /\ row.kind = "read" /\ row.key = key /\ row.answer = Answer(key)
    BY <1>3 DEF Read
  <1>5. \A v \in Workers : req'[v] = IF v = w THEN row ELSE Idle
    BY <1>2, <1>4 DEF CatalogInv, Shapes, SessionShape
  <1>6. \A k : Answer(k)' = Answer(k)
    BY <1>1, AnswersStay DEF tables
  <1>7. OneAtATime'
    BY <1>5 DEF OneAtATime
  <1>8. FillsAreFresh'
    <2> SUFFICES ASSUME NEW v \in Workers, req'[v].kind = "read"
                 PROVE  req'[v].answer = Answer(req[v].key)'
      BY DEF FillsAreFresh
    <2>1. v = w
      BY <1>5 DEF Idle
    <2>2. req'[v].answer = Answer(key) /\ req'[v].key = key
      BY <1>4, <1>5, <2>1
    <2>3. Answer(key)' = Answer(key)
      BY <1>6
    <2> QED BY <2>2, <2>3
  <1>9. EmptyBeforeCommit'
    BY <1>4, <1>5 DEF EmptyBeforeCommit, Idle
  <1>10. faults = 0 => \A k \in CacheKeys : Fresh(k)'
    BY <1>1, <1>2, <1>6 DEF CacheInv, Fresh
  <1> QED BY <1>7, <1>8, <1>9, <1>10

(* What it stores is still that when it was alone. *)
LEMMA CacheFill ==
    ASSUME CatalogInv, CacheInv, NEW w \in Workers, _cache_set(w)
    PROVE  CacheInv'
  <1>1. /\ req' = [req EXCEPT ![w] = Idle] /\ req[w].kind = "read"
        /\ UNCHANGED <<tables, overlaps>>
    BY DEF _cache_set, Finish
  <1>2. req[w] # Idle
    BY <1>1 DEF Idle
  <1>3. \A v \in Workers : req'[v] = IF v = w THEN Idle ELSE req[v]
    BY <1>1 DEF CatalogInv, Shapes, SessionShape
  <1> SUFFICES ASSUME overlaps = 0
               PROVE  /\ OneAtATime'
                      /\ faults' = 0 => /\ FillsAreFresh' /\ EmptyBeforeCommit'
                                        /\ \A key \in CacheKeys : Fresh(key)'
    BY <1>1 DEF CacheInv
  <1>4. \A v \in Workers : req'[v] = Idle
    BY <1>2, <1>3 DEF CacheInv, OneAtATime
  <1>5. OneAtATime' /\ FillsAreFresh' /\ EmptyBeforeCommit'
    BY <1>4 DEF OneAtATime, FillsAreFresh, EmptyBeforeCommit, Idle
  <1>6. ASSUME faults' = 0 PROVE \A key \in CacheKeys : Fresh(key)'
    <2>1. cache' = [cache EXCEPT ![req[w].key] = req[w].answer] /\ faults = 0
      <3>1. faults \in Nat
        BY DEF CatalogInv, Shapes, SessionShape
      <3> QED BY <1>6, <3>1 DEF _cache_set
    <2>2. req[w].answer = Answer(req[w].key) /\ \A key \in CacheKeys : Fresh(key)
      BY <1>1, <1>6, <2>1 DEF CacheInv, FillsAreFresh
    <2>3. \A key : Answer(key)' = Answer(key)
      BY <1>1, AnswersStay DEF tables
    <2>4. \A key \in CacheKeys : cache'[key] = IF key = req[w].key THEN req[w].answer ELSE cache[key]
      BY <2>1 DEF CatalogInv, Shapes, SessionShape
    <2>5. \A key \in CacheKeys : cache'[key] \in {Nothing, Answer(key)}
      BY <2>2, <2>4 DEF Fresh
    <2> QED BY <2>3, <2>5 DEF Fresh
  <1> QED BY <1>5, <1>6

LEMMA CacheQuiet ==
    ASSUME CatalogInv, CacheInv,
           \/ \E key \in CacheKeys : Expire(key)
           \/ UNCHANGED vars
    PROVE  CacheInv'
  <1>1. UNCHANGED <<tables, req, overlaps, faults>>
    BY DEF Expire, vars, tables
  <1>2. \A key \in CacheKeys : cache'[key] \in {Nothing, cache[key]}
    BY DEF Expire, vars, CatalogInv, Shapes, SessionShape
  <1>3. \A key : Answer(key)' = Answer(key)
    BY <1>1, AnswersStay DEF tables
  <1>4. OneAtATime => OneAtATime'
    BY <1>1 DEF OneAtATime
  <1>5. FillsAreFresh => FillsAreFresh'
    <2> SUFFICES ASSUME FillsAreFresh, NEW w \in Workers, req[w].kind = "read"
                 PROVE  req'[w].answer = Answer(req[w].key)'
      BY <1>1 DEF FillsAreFresh
    <2>1. PICK key : key = req[w].key
      OBVIOUS
    <2>2. req[w].answer = Answer(key)
      BY <2>1 DEF FillsAreFresh
    <2>3. Answer(key)' = Answer(key)
      BY <1>3
    <2> QED BY <1>1, <2>1, <2>2, <2>3
  <1>6. EmptyBeforeCommit => EmptyBeforeCommit'
    BY <1>1, <1>2 DEF EmptyBeforeCommit
  <1>7. (\A key \in CacheKeys : Fresh(key)) => \A key \in CacheKeys : Fresh(key)'
    BY <1>2, <1>3 DEF Fresh
  <1> QED BY <1>1, <1>4, <1>5, <1>6, <1>7 DEF CacheInv

(* As long as no requests overlap and Redis answers, a cached answer is the *)
(* one the database would give, for any number of workers and any writes.   *)
THEOREM CacheAlwaysCoherent == Spec => []CacheIsCoherent
  <1>1. CacheInv => CacheIsCoherent
    BY DEF CacheInv, CacheIsCoherent
  <1>2. CatalogInv /\ CacheInv /\ [Next]_vars => CacheInv'
    <2> SUFFICES ASSUME CatalogInv, CacheInv, [Next]_vars PROVE CacheInv'
      OBVIOUS
    <2>1. ASSUME NEW w \in Workers, Write(w) PROVE CacheInv'
      BY <2>1, CacheWrite
    <2>2. ASSUME NEW w \in Workers, Commit(w) PROVE CacheInv'
      BY <2>2, CacheCommit
    <2>3. ASSUME NEW w \in Workers, _cache_set(w) PROVE CacheInv'
      BY <2>3, CacheFill
    <2>4. ASSUME NEW w \in Workers, NEW key \in CacheKeys, Read(w, key) PROVE CacheInv'
      BY <2>4, CacheRead
    <2>5. ASSUME (\E key \in CacheKeys : Expire(key)) \/ UNCHANGED vars PROVE CacheInv'
      BY <2>5, CacheQuiet
    <2> QED BY <2>1, <2>2, <2>3, <2>4, <2>5 DEF Next
  <1> QED BY <1>1, <1>2, CatalogInit, CatalogStep, CacheInit, PTL DEF Spec
=============================================================================
