SPECIFICATION Spec
CONSTANTS
    Capacity <- MCCapacity
    MaxMessages <- MCMaxMessages
INVARIANTS
    TypeOK
    HeapExact
    InOrder
    AtMostOneStale
PROPERTIES
    InboundReturns
    QueuedIsSettled
    ChannelSpec
