SPECIFICATION FairSpec
CONSTANTS
    Mod = 3
    Window = 2
    N200 = 1
    LAPD = FALSE
    Data = {1,2}
    NoSkb = NoSkb
    MaxReply = 1
    Hangers = {2}
    MaxMsg = 2
    MaxWire = 2
    MaxLoss = 1
    MaxEarly = 1
PROPERTIES LinkSpec Delivery HangupEnds
CHECK_DEADLOCK FALSE
