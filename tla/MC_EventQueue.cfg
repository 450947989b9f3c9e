SPECIFICATION Spec
CONSTANTS
    a = a
    b = b
    huge = huge
    empty = empty
    NoEvent = NoEvent
    Events <- MCEvents
    EventLen <- MCEventLen
    MAX_EVENT_SIZE = 4
    MAX_QUEUE_DEPTH = 3
    BatchMax = 2
    MaxAccepted = 7
INVARIANTS
    TypeOK
    RingInv
PROPERTY
    RefinesBoundedFifo
