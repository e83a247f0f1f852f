CONSTANTS
    Proc = {p1}
    Cpu = {c1, c2}
    Vpce = {v1, v2}
    Ifindex = {i1, i2}
    Tuple = {t1}
    MaxEndpoints = 1
    MayFail = FALSE
    MaxFaults = 1
    None = None
SYMMETRY Symmetry
SPECIFICATION Spec
INVARIANTS
    IInv
    EntriesBelongToOwner
    DeliveredToOwner
    ReplyCarriesOwnHeader
