SPECIFICATION FairSpec
CONSTANTS
    Rows = {"r1", "r2"}
    Networks = {"n1", "n2"}
    Network <- MCNetwork
    Exits <- MCExits
    Amount <- MCAmount
    ChainConfigs <- MCBothWays
    Capacity = 1
    Word = 4
INVARIANTS TypeOK NoUpdateLost
PROPERTY GaugesCatchUp
