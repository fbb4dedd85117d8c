SPECIFICATION FairSpec
CONSTANTS
    Interfaces = 3
    Channels = 2
    Outgoing = {1, 2}
    Called = {1, 2, 3}
    Callback = {1}
    Numbers = 2
    dialmax = 1
    Timeout = 0
INVARIANTS Owned Alive
PROPERTY Ends
