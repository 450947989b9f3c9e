SPECIFICATION Spec
CONSTANTS
    Backoffs <- MCAllBackoffs
    RetryMax = 34
INVARIANTS
    TypeOK
    ExponentialWhileItFits
