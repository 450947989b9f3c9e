SPECIFICATION Spec
CONSTANTS
    Listing <- MCListing
    WholeDisks <- MCWholeDisks
    Loopback = "x"
    MaxDevices = 2
    DISK_SECTOR_SIZE = 2
    interval_sec = 1
    Width = 3
    MaxMoved = 3
INVARIANT
    TypeOK
PROPERTIES
    NeverOverstated
    SteadyDevicesExact
    SharesAddUp
