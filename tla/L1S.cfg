SPECIFICATION Spec
INVARIANTS
    BeliefMatches
    SignalGuarded
    DownIsTold
    RequestWaits
