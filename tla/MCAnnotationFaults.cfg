SPECIFICATION FaultsSpec
CONSTANTS
    None = None
    ClipsOf <- MCClipsOf
    Clips = {c1}
    Writers = {"annotation", "navigation", "operator"}
    Jobs = {j1, j2}
    Segs = {s1}
    Tasks = {t1}
    MaxRuns = 3
    MaxDraft = 1
    MaxHand = 2
    MaxMarkers = 2
    MaxEnds = 2
    UserOps = {"create", "draft", "submit", "reopen", "skip", "none_left", "track", "cancel", "retry"}
    Faults = {"crash", "runtime", "stop", "heartbeat", "stall", "capacity", "inputs", "artifacts", "unkillable", "navigation"}
INVARIANTS UnrecordedOutputIsQuarantined WriterExclusive ActiveJobOwnsClips
ACTION_CONSTRAINT Bounds
SYMMETRY JobSymmetry
CHECK_DEADLOCK FALSE
