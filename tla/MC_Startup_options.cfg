SPECIFICATION Spec
CONSTANTS
    Metrics <- MCMetrics
    MaxNumber = 1
INVARIANT
    OptionsHold
