SPECIFICATION Spec
CONSTANTS
    BlockResourceLimit <- MCBlockResourceLimit
    ValidatorIds <- MCValidatorIds
    FirstValidators <- MCFirstValidators
    Scope <- MCScope
    MaxSubscriptionEvents = 4
    MaxSubscriptionPage = 2
    MaxBlockPage = 2
    MaxEventPage = 2
    MaxRequestBytes = 4
    MaxHeaderBytes = 8
    MaxRequests = 2
    BearerToken = "right"
    BaseDelay = 2
    Numerals <- MCNumerals
    MaxAmount = 7
    Methods <- MCMethods
    MaxSteps = 3
    Leader = 1
    Follower = 2
    Queries <- MCQueries
    Connections <- MCConnections
    Scripts <- MCScripts
    Hellos <- MCHellos
    MaxReceiveBatch = 2
    DialLimit = 1
INVARIANTS
    CertificatesAreBacked
    SubscriberMissesNothing
    ProofsAreFaithful
    RetriesTakeEffectOnce
    EvaluationIsFaithful
CHECK_DEADLOCK FALSE
