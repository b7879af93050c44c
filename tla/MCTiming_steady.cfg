\* The shortest timeout that two lost packets call for.
CONSTANTS
    Interval = 3
    Timeout = 10
    ExpireEvery = 3
    Busy = 1
    MaxDelay = 1
    Tolerated = 6
SPECIFICATION Spec
INVARIANTS SilentHostsGo HeardInTime
PROPERTIES LiveHostsStay
