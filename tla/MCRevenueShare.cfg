CONSTANTS
    Workers = {w1, w2}
    Events = {h1, h2}
    ProviderOf <- SmallProviders
    EntryIds = {e1, e2}
    Amounts = {5}
    Ratios = {7, 8}
    Unit = 10
    MaxRecord = 3
    MaxOverlaps = 1
SPECIFICATION Spec
INVARIANT RevenueAccounted
SYMMETRY Symmetries
CHECK_DEADLOCK FALSE
