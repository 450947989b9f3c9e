SPECIFICATION Spec
CONSTANTS
    Backoffs <- MCAllBackoffs
    RetryMax = 34
INVARIANT
    AlwaysBacksOff
