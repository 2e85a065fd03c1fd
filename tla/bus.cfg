SPECIFICATION Spec
CONSTANTS
    FastThreshold = 0
    SlowThreshold = 1
    PowerUp = {FALSE}
    ResetDomains = {"fast"}
INVARIANTS TypeOK StartUpOwner
PROPERTIES MotherRevokes ChildIsGranted ContentionIsMothers
