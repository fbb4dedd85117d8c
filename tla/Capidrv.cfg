SPECIFICATION Spec
CONSTANTS
    nbchan = 2
    NPlci = 1
INVARIANTS Agreed NcciOwned
PROPERTIES BhupFirst ClearingEnds
