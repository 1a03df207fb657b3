SPECIFICATION Spec
CONSTANTS
    Subs = {s1, s2}
    Chains = {"c1", "c2"}
    ChainConfigs <- MCChainConfigs
    ExitLists <- MCExitLists
    Limits <- MCLimits
    TokenConfigs <- MCTokenConfigs
    Scale = 6
    NoToken = NoToken
INVARIANTS
    TypeOK
    AnsweredIsSafe
    SentIsJustified
    LockedIsJustified
