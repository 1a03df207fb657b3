SPECIFICATION LSpec
CONSTANTS
    Rows = {r1, r2}
    NoRow = NoRow
    Refused = {}
    Copies = {r1, r2}
    Delays = {1, 2}
    DefaultDelay = 2
    MaxTime = 2
SYMMETRY RowSymmetry
INVARIANTS
    LookupTypeOK
    ProcessedIsKnown
    TypeOK
    ProcessedWasAccepted
    NeverResendProcessed
    ReleasedOnlyWhenDue
    KilledSendsAtMostOnce
PROPERTIES
    PollGoesForward
    HoldAndForwardSpec
