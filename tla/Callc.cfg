SPECIFICATION FairSpec
CONSTANTS
    BChans = {c1}
    Waiting = {}
    Procs = {p1, p2}
    NoProc = NoProc
    NoChan = NoChan
INVARIANTS Agreed Linked BChannel
PROPERTIES Timed CallSpec
