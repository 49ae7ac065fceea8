SPECIFICATION Spec
CONSTANTS
    Capacity <- MCCapacity
    MaxMessages <- MCMaxMessages
INVARIANTS
    HeapBounded
