CONSTANTS
    Sync = {1}
    Async = {2}
    MaxRetries = 2
    BatchLimit = 2
    MaxCrashes = 0
SPECIFICATION Spec
INVARIANT GivenUpIsLeftAlone
CHECK_DEADLOCK FALSE
