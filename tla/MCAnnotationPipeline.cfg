SPECIFICATION FairSpec
CONSTANTS
    None = None
    ClipsOf <- MCClipsOf
    Clips = {c1}
    Writers = {"annotation", "navigation", "operator"}
    Jobs = {j1}
    Segs = {s1}
    Tasks = {t1}
    MaxRuns = 3
    MaxDraft = 2
    MaxMarkers = 1
    MaxHand = 5
    MaxEnds = 1
    UserOps = {"create", "draft", "submit", "reopen", "track", "cancel", "retry", "link", "process"}
    Faults = {"crash", "runtime", "publication"}
INVARIANTS TrackedMatchesSubmitted CancelledLeavesNoOutput NoStaleCancellation
PROPERTY CancelEndsRun
CHECK_DEADLOCK FALSE
