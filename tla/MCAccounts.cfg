CONSTANTS
    Workers = {w1, w2}
    Users = {"u1", "u2"}
    Nobody = "nobody"
    Rules = {"ip_24_share", "manual"}
    EnabledRules = {"ip_24_share", "manual"}
    R3_CODE = "ip_24_share"
    R3_MIN_PRIOR_USERS = 1
    FREEZE_THRESHOLD = 2
    Net <- Networks
    Ages = {14, 17}
    MaxConsents = 2
    MaxTokens = 2
    MaxOverlaps = 1
    Domain <- Domains
    AUTO_APPROVE_THRESHOLD = 7
    MaxProposals = 2
    MaxAppeals = 1
    Incidents = {"i1"}
    MaxOtps = 2
    Exporters = {x1, x2}
    Formats = {"json"}
    Limit = 2
    MaxExports = 2
    RowIds = {1, 2, 3, 4}
    Times = {0, 1, 2}
    Limits = {1, 2, 3}
SPECIFICATION MCSpec
INVARIANT FreezesAndMergesSound AccessSound ExportsAndPagesSound
SYMMETRY WorkerSymmetry
CHECK_DEADLOCK FALSE
