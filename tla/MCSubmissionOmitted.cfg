SPECIFICATION Spec
CONSTANTS
    Subs = {s1}
    Chains = {"c1", "c2"}
    ChainConfigs <- MCChainConfigs
    ExitLists <- MCPlainExits
    Limits <- MCLimits
    TokenConfigs <- MCSetTokenConfigs
    Scale = 6
    NoToken = NoToken
PROPERTY OmittedFlagsLock
