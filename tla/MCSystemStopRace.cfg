SPECIFICATION SystemSpec
CONSTANTS
    long = long
    short = short
    Runs = {long}
    Gpus = {g1}
    Ports = {29500}
    StageCount <- MCStageCount
    None = None
    MaxActions = 3
    MaxSeq = 8
    MaxClaims = 2
    Environments <- StopRace
INVARIANT SucceededMeansTrained
