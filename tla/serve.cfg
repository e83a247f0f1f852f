CONSTANTS
    Cpu = {c1, c2}
    Ifindex = {1, 2, 3}
    Uplink = 1
    Vpce = {v1, v2}
    MaxEndpoints = 1
    Capacity = 2
    MaxCount = 3
    MaxChanges = 2
    MaxSteps = 3
    MaxFailures = 1
    None = None
SPECIFICATION MCFairSpec
INVARIANTS
    CountsExact
    EveryPacketCounted
    NothingOverReported
    UplinkExact
PROPERTIES
    EventuallyPushed
CHECK_DEADLOCK FALSE
