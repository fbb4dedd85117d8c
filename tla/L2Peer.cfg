SPECIFICATION Spec
CONSTANTS
    Mod = 3
    Window = 2
    N200 = 1
    LAPD = TRUE
    Data = {d1}
    NoSkb = NoSkb
    MaxQ = 1
    MaxUi = 1
INVARIANTS
    TypeOK WindowOK SomeTimer NoStaleData L3InSync NoSilentLoss DataAcked
