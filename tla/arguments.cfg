CONSTANTS
    Bytes = {0, 255}
    Spellings <- MCSpellings
    ForeignNames <- MCForeignNames
    Width = 5
    Families = {"none", "v4", "v6"}
    Mtus = {135, 1500, 8000, 9001, 65535}
    MaxChanges = 2
    MtuArgs <- MCMtuArgs
    EndpointArgs = {0, 1, 128, 1637, 1638, 32768, 52428, 1048575}
    Lengths = {68, 1432, 1433, 7932, 7933, 8500, 8501, 8933, 8934, 65467, 65468, 65536}
    Word16 = 65536
    Word32 = 1048576
    Rows = 20
    KernelMax = 32768
    None = None
    Plays <- MCPlays
    Node = {g1, g2}
    FragIds = {1}
    Modes = {"nat", "transparent"}
SPECIFICATION Spec
INVARIANTS
    SameEndpoint
    OnlyOwnNamesTagged
    DigitsKept
    PrefixEnforced
    LengthsTrue
    RoomForEveryCounter
    LostOnlyIfShrunk
    OversizeOnlyIfGrown
    ReplyInOwnFlow
    AnsweredUnlessForgotten
\* With an uplink too small for any packet no command is accepted.
CHECK_DEADLOCK FALSE
