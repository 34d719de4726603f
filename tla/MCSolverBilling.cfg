CONSTANTS
    Sync = {1}
    Async = {2}
    MaxRetries = 2
    BatchLimit = 1
    MaxCrashes = 1
SPECIFICATION FairSpec
INVARIANT ChargedOnlyIfSolved ReservationNotForgotten RecordedMeansSettled
PROPERTY EveryFailureDecided
CHECK_DEADLOCK FALSE
