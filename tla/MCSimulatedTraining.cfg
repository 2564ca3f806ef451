SPECIFICATION SimSpec
CONSTANTS
    r1 = r1
    r2 = r2
    Runs = {r1, r2}
    Gpus = {g1, g2}
    Ports = {29500}
    StageCount <- MCStageCount
    None = None
    MaxActions = 0
    Workers = {w1, w2}
    Mortal = {w1}
    NoWorker = NoWorker
    TotalSteps = 2
    Failing <- MCFailing
PROPERTIES EndedRunFrozen StopNotOvertaken EveryRunEnds
CHECK_DEADLOCK FALSE
