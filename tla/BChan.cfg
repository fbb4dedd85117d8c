SPECIFICATION Spec
CONSTANTS
    Mod = 3
    Window = 2
    N200 = 1
    LAPD = FALSE
    Data = {d1}
    NoSkb = NoSkb
    MAX_DATA_MEM = 2
    MaxSq = 1
INVARIANTS Covered Bounded
