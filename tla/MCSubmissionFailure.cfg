SPECIFICATION Spec
CONSTANTS
    Subs = {s1}
    Chains = {"c1", "c2"}
    ChainConfigs <- MCChainConfigs
    ExitLists <- MCExitLists
    Limits <- MCSetLimits
    TokenConfigs <- MCSetTokenConfigs
    Scale = 6
    NoToken = NoToken
PROPERTY FailureIsAnswered
