SPECIFICATION FairSpec
CONSTANTS
    Platforms = {"rp2040"}
    ProtectedAtStart = TRUE
    PowerMayFail = TRUE
    MaxMounts = 2
    Blocks = {0, 4}
    Pages = {63}
    Lengths = {"short", "long"}
    Data = {"a", "b"}
INVARIANTS MainArraySelected PageIsCallers
PROPERTIES ImplementsFlash CallReturns
CHECK_DEADLOCK FALSE
