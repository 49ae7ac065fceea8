SPECIFICATION Spec
CONSTANTS
    h1 = h1
    h2 = h2
    NoHandle = NoHandle
    Handles <- MCTwoHandles
    MaxConnRetries = 1
    MaxSubscribeRetries = 1
    ReconnectsDirectly = TRUE
    CallbackDisconnects = TRUE
    DeinitsUninitialised = TRUE
    Qualification = TRUE
    MaxHttpRetries = 1
    Capacity <- MCCapacity
    MaxMessages <- MCMaxMessages
    MaxSessions <- MCMaxSessions
INVARIANTS
    QueueExists
    InOrder
    InitAllOrNothing
PROPERTIES
    CallsReturn
    ChannelSpec
CHECK_DEADLOCK FALSE
