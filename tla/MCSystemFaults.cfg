SPECIFICATION SystemSpec
CONSTANTS
    long = long
    short = short
    Runs = {long, short}
    Gpus = {g1}
    Ports = {29500}
    StageCount <- MCStageCount
    None = None
    MaxActions = 3
    MaxSeq = 8
    MaxClaims = 2
    Environments <- Faults
INVARIANTS FirstStageFirst StageTrainedOnce OneTrainerPerStage OutboxDeliverable
    CenterTypeOK LeasesOnlyWhileActive EndedRunHasNoPendingStage SucceededHasModel
PROPERTY SettledActionsStay
