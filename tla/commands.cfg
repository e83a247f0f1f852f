CONSTANTS
    Proc = {p1, p2}
    Cpu = {c1}
    Vpce = {v1, v2}
    Ifindex = {i1, i2}
    Tuple = {t1}
    MaxEndpoints = 1
    MayFail = TRUE
    MaxFaults = 1
    None = None
SYMMETRY Symmetry
SPECIFICATION Spec
INVARIANTS
    FailedAddRestores
    RemoveCompletes
    FailedSetupSparesHost
PROPERTIES
    OnlyOwnEndpointTouched
    ImplementsTunnels
