SPECIFICATION Spec
CONSTANTS
    MetricOrder <- MCMetricOrder
    DeltaMetrics <- MCDeltaMetrics
    Capacity = 3
    BatchMax = 2
    Interval = 6
    Sigs <- MCSigs
    MaxRows = 1
    OutputWait = 0
    LateCap = 0
    GraceCap = 6
INVARIANT
    ExitWithinFiveSeconds
