SPECIFICATION Spec
CONSTANTS
    MaxAmount = 4
    MaxStackDepth = 3
    Sources <- MCSources
    Deployments <- MCDeployments
    Calls <- MCCalls
    PermitCertificates <- MCPermitCertificates
    BridgeProofs <- MCBridgeProofs
    MaxCalls = 3
INVARIANTS  SourceRootIdentifiesPackage
CHECK_DEADLOCK FALSE
