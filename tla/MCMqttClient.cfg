SPECIFICATION Spec
CONSTANTS
    h1 = h1
    h2 = h2
    NoHandle = NoHandle
    Handles <- MCHandles
    MaxConnRetries <- MCMaxConnRetries
    MaxSubscribeRetries <- MCMaxSubscribeRetries
    ReconnectsDirectly = FALSE
INVARIANTS
    TypeOK
    NoNullCallback
    NothingLeftBehind
    SessionComplete
PROPERTIES
    LossIsNoticed
    CallsReturn
