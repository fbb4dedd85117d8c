SPECIFICATION Spec
CONSTANTS
    Links = {l1, l2}
    SeqSpace = 16
    MP_MAX_QUEUE_LEN = 3
    Starts = {0, 14}
    MaxSent = 5
    None = None
INVARIANT Accounted
PROPERTIES NotHeld OrderSpec GivenUp
CHECK_DEADLOCK FALSE
