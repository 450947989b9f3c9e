SPECIFICATION Spec
CONSTANTS
    MetricOrder <- MCMetricOrder
    DeltaMetrics <- MCDeltaMetrics
    Capacity = 3
    BatchMax = 2
    Interval = 2
    Sigs <- MCSigs
    MaxRows = 1
    OutputWait = 0
    LateCap = 0
    GraceCap = 0
INVARIANT
    FlushedAtExit
