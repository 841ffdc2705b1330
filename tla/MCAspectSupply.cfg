SPECIFICATION Spec
CONSTANTS
    MaxAmount = 4
    MaxStackDepth = 3
    Sources <- MCTokenSources
    Deployments <- MCTokenDeployments
    Calls <- MCTokenCalls
    PermitCertificates <- MCPermitCertificates
    BridgeProofs <- MCBridgeProofs
    MaxCalls = 3
INVARIANT SupplyMatchesBalances
CHECK_DEADLOCK FALSE
