CONSTANTS
    Clients = {r1, r2}
    Plans = {"free"}
    Limit <- Windows
    Second = 2
    MaxClock = 7
    Requests = {r1, r2}
    ApiKeys = {"k1", "k2"}
    Places = {"CN-BJ", "SG-SG"}
    MaxAnomalies = 3
    Catalog <- Algorithms
    Tasks = {"lp", "qp"}
    Solvers = {"highs", "own", "new"}
    Rules = {"readme", "license"}
    MaxChain = 3
    MaxSolveSeconds = 2
    Programs <- LinearPrograms
    TopK = {1, 2, 4}
    MaxCombinations = 10
    Callers = {r1, r2}
    Kinds = {"batch", "prediction", "rerun"}
    Keys = {"k"}
    Bodies = {1, 2}
    MaxJobs = 3
    BatchSize = 3
    RawProgress = {40, 150}
    Editors = {r1, r2}
    Names = {"n"}
    MaxTemplates = 3
    Providers = {1, 2, 3}
    Offer <- Offers
    DefaultTags = {"lp"}
    MaxVouchers = 3
    Citations <- Papers
    NoUrl = "none"
    MaxScans = 3
    Admins = {r1, r2}
    Holders = {1, 2, 3}
SPECIFICATION MCSpec
INVARIANT AdmissionIsJustified ExecutionSound JobsSound LineagesSound ReportedOnce
PROPERTY ObservedMovesForward
SYMMETRY ActorSymmetry
CHECK_DEADLOCK FALSE
