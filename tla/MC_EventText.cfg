SPECIFICATION Spec
CONSTANTS
    MaxHost = 4
    HostMax = 3
    HostJsonSize = 8
    FixedBuffers <- MCFixedBuffers
    JsonSize = 28
    Reserve = 9
    Header = 4
    Entries = {3, 5}
    MaxCount = 4
    MAX_EVENT_SIZE = 28
INVARIANTS
    TypeOK
    HostSurvives
    HostReadsBack
    EventComplete
