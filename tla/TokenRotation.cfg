CONSTANTS
    Scenarios <- AllScenarios
    Conns = {k1, k2}
    MaxTokens = 4
    MaxBackends = 3
SPECIFICATION Spec
SYMMETRY Symmetry
CHECK_DEADLOCK FALSE
INVARIANT AnnouncementsChain
INVARIANT ShellIsAccepted
INVARIANT RestrictedHoldsToken
