CONSTANTS
    Day = 2
    Month = 4
    Trial = 3
    Credits <- SmallCredits
    Skew = 0
    MaxTime = 11
    Users = {"u1", "u2"}
    Keys = {"k1"}
    Sessions = {s1, s2}
    Price <- SmallPrices
    DemoCredits = 5
    LowRatio = 2
    CallThreshold = 4
    MaxCharges = 2
    Settlers = {r1, r2}
    Budgets = {2, 3}
    Cost = 1
    MaxSpend = 4
    MaxMonth = 1
    Tenants = {"u1", "u2"}
    ClientKeys = {"k1"}
    Inquiries = {"pipl"}
    Plannings = {"pro"}
    Handlers = {h1, h2}
    MaxInquiries = 2
SPECIFICATION AccountSpec
INVARIANT EveryPeriodRefilledOnce EntitlementsBounded AdmissionSound BudgetPausesAtNextEvaluation
PROPERTY TrialEnds
CHECK_DEADLOCK FALSE
