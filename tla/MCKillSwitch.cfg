SPECIFICATION Spec
CONSTANTS
    Kills = {k1, k2}
    Restarts = {s1, s2}
    Needed = 2
    Window = 1
    Horizon = 1
    MaxTime = 2
SYMMETRY CallSymmetry
INVARIANTS
    TypeOK
    RecentIsKept
    SomeoneSeesEnough
    ThreeCallsDecide
PROPERTY ChangeIsBacked
