SPECIFICATION DeliverySpec
CONSTANTS
    batch_size = 2
    batch_interval_seconds = 1
    retry_max_attempts = 1
    InitialCapacity = 1
    MaxEvents = 3
    Capacity = 2
    BatchMax = 2
INVARIANTS
    DeliveryTypeOK
    BatchBound
    AttemptsAccounted
    CleanRunDelivers
    EndToEndOrder
    NothingUnaccounted
PROPERTIES
    EverythingSettles
