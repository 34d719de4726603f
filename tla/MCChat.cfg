SPECIFICATION Spec
CONSTANTS
    Unavailable <- MCUnavailable
    MaxDelta = 3
    NumberMax = 10
    MaxDiff = 1
    OddKeys = {3}
    Tasks <- MCTasks
    Requests <- MCRequests
    Mappings <- MCMappings
    CodeTexts <- MCCodeTexts
    Thresholds <- MCThresholds
    Messages <- MCMessages
    Answers <- MCAnswers
    Configs <- MCConfigs
    Callers <- MCCallers
    MaxUnits = 2
    MaxDrops = 2
    MaxChanges = 1
    MaxMixups = 1
INVARIANT PipelineSound StreamSound
PROPERTY StreamEnds
CHECK_DEADLOCK FALSE
