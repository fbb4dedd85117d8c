SPECIFICATION Spec
CONSTANTS
    DProcess = FALSE
    MaxQ = 2
INVARIANTS
    NoAccident
    NoStall
    NoLostPull
    AlwaysPulling
