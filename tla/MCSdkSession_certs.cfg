SPECIFICATION Spec
CONSTANTS
    h1 = h1
    h2 = h2
    NoHandle = NoHandle
    Handles <- MCTwoHandles
    MaxConnRetries = 1
    MaxSubscribeRetries = 1
    ReconnectsDirectly = TRUE
    CallbackDisconnects = TRUE
    DeinitsUninitialised = FALSE
    Qualification = TRUE
    MaxHttpRetries = 1
    Capacity <- MCCapacity
    MaxMessages <- MCFewMessages
    MaxSessions <- MCMaxSessions
INVARIANTS
    CertificatesUnused
CHECK_DEADLOCK FALSE
