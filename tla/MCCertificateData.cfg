SPECIFICATION Spec
CONSTANTS
    Nil = Nil
    Word32 = 512
    Word64 = 4096
    Exact = 1024
    Spacings = {1, 2, 4, 8}
    Overflow <- MCOverflow
    Documents <- MCDocuments
    Extras <- MCExtras
    MaxRows = 2
INVARIANTS
    SameIdSameWithdrawals
    PageShowsTheDocument
    GlobalIndexIsBigEndian
    PageAgreesWithGauges
