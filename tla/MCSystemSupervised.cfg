SPECIFICATION FairSystemSpec
CONSTANTS
    long = long
    short = short
    Runs = {long}
    Gpus = {g1}
    Ports = {29500}
    StageCount <- MCStageCount
    None = None
    MaxActions = 4
    MaxSeq = 8
    MaxClaims = 2
    Environments <- Supervised
INVARIANTS ProcessesAreLeased AtMostOneOpenStop
PROPERTIES LedgerSpec StopSettles RecordedExitRecovered
