CONSTANTS
    Workers = {w1, w2}
    Tenants = {"t"}
    ProviderIds = {1}
    Tags = {"lp", "x"}
    Algos = {1, 2}
    ProviderBodies <- SmallProviders
    TermBodies <- SmallTerms
    CapabilityBodies <- SmallCapabilities
    CacheKeys <- SmallKeys
    Solver = "highs"
    MaxResults = 1
    MaxWrites = 3
    MaxFaults = 1
    MaxOverlaps = 1
SPECIFICATION MCSpec
INVARIANT CatalogResolvable CacheIsCoherent
PROPERTY CacheBecomesFresh
CHECK_DEADLOCK FALSE
