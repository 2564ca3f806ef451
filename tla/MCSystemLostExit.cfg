SPECIFICATION FairSystemSpec
CONSTANTS
    long = long
    short = short
    Runs = {short}
    Gpus = {g1}
    Ports = {29500}
    StageCount <- MCStageCount
    None = None
    MaxActions = 3
    MaxSeq = 8
    MaxClaims = 2
    Environments <- LostExit
PROPERTY RecordedExitRecovered
