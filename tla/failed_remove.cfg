CONSTANTS
    Proc = {p1}
    Cpu = {c1}
    Vpce = {v1, v2}
    Ifindex = {i1, i2}
    Tuple = {t1}
    MaxEndpoints = 2
    MayFail = TRUE
    MaxFaults = 1
    None = None
SPECIFICATION StaleEntrySpec
INVARIANTS
    ReplyCarriesOwnHeader
