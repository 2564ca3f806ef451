SPECIFICATION Spec
CONSTANTS
    None = None
    ClipsOf <- MCClipsOf
    Clips = {c1}
    Writers = {"annotation", "navigation", "operator"}
    Jobs = {j1}
    Segs = {s1}
    Tasks = {t1}
    MaxRuns = 6
    MaxDraft = 2
    MaxMarkers = 1
    MaxHand = 4
    MaxEnds = 0
    UserOps = {"create", "draft", "submit", "link", "process", "fix", "return", "discard", "approve", "retry", "release", "reset", "link_fix"}
    Faults = {"step", "fix"}
INVARIANTS ApprovedMatchesDraft ReleasedStaysReady HandoffsInOrder
CHECK_DEADLOCK FALSE
