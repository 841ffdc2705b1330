SPECIFICATION Spec
CONSTANTS
    alice = alice
    bob = bob
    token = token
    router = router
    loop = loop
    gov = gov
    none = none
    Users <- MCUsers
    Tokens <- MCTokens
    Routers <- MCRouters
    Governances <- MCGovernances
    RouterToken <- MCRouterToken
    Governed <- MCGoverned
    Admin <- MCAdmin
    GenesisBalances <- MCGenesisBalances
    Nonces = {0, 1}
    CertificateNonces = {"c"}
    Transactions <- MCTransactions
    Heights = {1, 2}
    NoExpiry = none
    MaxAmount = 4
INVARIANTS
    TypeOK
    TokenSupplyMatchesBalances
    SpentWithinLimit
    NonceExecutesOnce
    PermitAcceptedOnce
PROPERTIES
    RevertIsAtomic
    DebitIsAuthorised
    PausedTokenSpendsNoAllowance
