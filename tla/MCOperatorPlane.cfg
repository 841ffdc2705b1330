SPECIFICATION Spec
CONSTANTS
    n1 = n1
    n2 = n2
    Node <- MCNode
    InitialKeyring <- MCKeyring
    DefaultMaxUpdates = 1
    DefaultMaxPerValidator = 1
    DefaultMaxAudit = 1
    DefaultMaxImports = 1
    Scope <- MCScope
    Network = "ours"
    Chain = "chain"
    MinPeerCount = 1
    MaxFinalityLag = 0
    MaxFailureRatio = 500
    MaxRpcErrors = 0
    NeverExpires = 99
    ChunkCount = 2
    MaxChunksPerRequest = 1
    MaxAttempts = 2
    UnknownRoots <- MCUnknownRoots
INVARIANT RestartBlockedOnlyByPools AlertsHaveACause
PROPERTY UpdatesAreAuthorised ImportsAreGenuine FetchEnds
CHECK_DEADLOCK FALSE
