SPECIFICATION Spec
CONSTANTS
    MetricOrder <- MCMetricOrder
    DeltaMetrics <- MCDeltaMetrics
    Capacity = 3
    BatchMax = 2
    Interval = 2
    Sigs <- MCOneSig
    MaxRows = 2
    OutputWait = 1
    LateCap = 3
    GraceCap = 0
INVARIANTS
    TypeOK
    DeliveryInOrder
    DrainedAtExit
    LossWithinOneRow
    ThreadsJoined
    SelfMetricsConsistent
    StopLatency
PROPERTY
    Termination
