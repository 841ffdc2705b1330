SPECIFICATION Spec
CONSTANTS
    MaxAmount = 4
    MaxStackDepth = 3
    Sources <- MCNoteSources
    Deployments <- MCNoteDeployments
    Calls <- MCNoteCalls
    PermitCertificates <- MCPermitCertificates
    BridgeProofs <- MCBridgeProofs
    MaxCalls = 3
INVARIANT EffectsDeclared
CHECK_DEADLOCK FALSE
