SPECIFICATION MCSpec
CONSTANTS
  Tasks = {t1, t2}
  t1 = t1
  t2 = t2
  None = None
  Hints = {1}
  MaxLag = 2
  MaxTurns = 4
  MaxReplies = 3
  MaxCrashes = 2
  Scenarios <- MCScenarios
INVARIANTS FinalByOwner DeferredIsShown LiveRunKeepsTask EndedFreesSlot HintOnce
CHECK_DEADLOCK FALSE
