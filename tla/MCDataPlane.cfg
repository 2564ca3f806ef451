SPECIFICATION MCSpec
CONSTANTS
    n1 = n1
    n2 = n2
    d1 = d1
    d2 = d2
    Nodes = {n1, n2}
    Releases = {d1, d2}
    Scenarios <- MCScenarios
    None = None
    MaxRev = 7
    MaxModelRev = 2
    MaxChecks = 2
    SshFaults = TRUE
    MaxTransfers = 2
    MaxCommands = 4
    MaxClaims = 2
    Expiring = {"transfer"}
    Lossy = TRUE
    MaxCrashes = 1
    IoFaults = TRUE
    Slow = TRUE
INVARIANTS DisabledIsLockedOut VerifiedIsCurrent UnremovedReplicaOnDisk OneTransferRunning
CHECK_DEADLOCK FALSE
