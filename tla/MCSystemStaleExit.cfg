SPECIFICATION SystemSpec
CONSTANTS
    long = long
    short = short
    Runs = {long}
    Gpus = {g1}
    Ports = {29500}
    StageCount <- ThreeStages
    None = None
    MaxActions = 3
    MaxSeq = 8
    MaxClaims = 1
    Environments <- StaleExit
INVARIANT StagesInOrder
