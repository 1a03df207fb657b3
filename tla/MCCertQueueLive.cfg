SPECIFICATION FairSpec
CONSTANTS
    Rows = {r1, r2}
    NoRow = NoRow
    Refused = {r2}
    Delays = {1}
    DefaultDelay = 1
    MaxTime = 1
PROPERTIES DueIsProcessed TaskStops
