SPECIFICATION FairSpec
CONSTANTS
    Calls = {c1, c2}
    Endless = {c2}
    Requests = {h1}
    CommandLines <- MCCommandLines
    Omitted = Omitted
    Bad = Bad
    Unset = Unset
    DefaultDelay = 2
    DefaultChains <- MCDefaultChains
    old = old
    new = new
    addr = addr
    toks = toks
INVARIANTS
    TypeOK
    ServesOnlyComplete
    StoredConfigParses
PROPERTIES
    OrderlyExitCutsNothing
    ProcessLifeSpec
    NothingElseHolds
