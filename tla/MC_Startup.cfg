SPECIFICATION Spec
CONSTANTS
    Metrics <- MCMetrics
    MaxNumber = 1
INVARIANTS
    TypeOK
    ValidatedConfigRuns
    RunningBackendUsable
    ValidateOnlyNeverRuns
