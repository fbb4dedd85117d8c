SPECIFICATION Spec
CONSTANTS
    Mod = 2
    Window = 1
    N200 = 1
    LAPD = TRUE
    Data = {m}
    NoSkb = NoSkb
    Procs = {p1, p2}
    MaxQ = 1
SYMMETRY Symmetry
INVARIANT NoStaleMsg LinkTimers WaitServed BeliefMatches
