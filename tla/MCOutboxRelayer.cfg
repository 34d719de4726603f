CONSTANTS
    Rows = {1, 2, 3}
    Poison = {2}
    Relayers = {r1, r2}
    BatchSize = 2
    MaxFaults = 2
SPECIFICATION FairSpec
INVARIANT SentWasPublished DuplicatesNeedFaults
PROPERTY EveryRowSent
