SPECIFICATION Spec
CONSTANTS
    Rows = {r1, r2}
    NoRow = NoRow
    Refused = {}
    Delays = {1}
    DefaultDelay = 1
    MaxTime = 1
PROPERTY NoSendWhileKilled
