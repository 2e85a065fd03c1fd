SPECIFICATION Spec
CONSTANTS
    Platforms = {"bcm2711", "parent"}
    ProtectedAtStart = FALSE
    PowerMayFail = FALSE
    MaxMounts = 1
    Blocks = {0, 4}
    Pages = {63}
    Lengths = {"short", "long"}
    Data = {"a", "b"}
INVARIANTS TypeOK
PROPERTIES ImplementsFlash CommandsAreHeeded
CHECK_DEADLOCK FALSE
