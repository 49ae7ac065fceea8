SPECIFICATION Spec
CONSTANTS
    h1 = h1
    h2 = h2
    NoHandle = NoHandle
    Handles <- MCOneHandle
    MaxConnRetries = 1
    MaxSubscribeRetries = 1
    ReconnectsDirectly = FALSE
    CallbackDisconnects = FALSE
    DeinitsUninitialised = FALSE
    Qualification = TRUE
    MaxHttpRetries <- MCMaxHttpRetries
    Capacity <- MCCapacity
    MaxMessages <- MCMaxMessages
    MaxSessions <- MCMaxSessions
INVARIANTS
    TypeOK
    NoNullCallback
    AtMostOneStale
    NoClientLeft
    HeapExact
    RequestAccounted
    IdentityFromAnswers
    CredentialsAccounted
PROPERTIES
    LossIsNoticed
    QueueSpec
    ClientSpec
