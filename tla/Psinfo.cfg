SPECIFICATION Spec
CONSTANTS
    NPROC = 5
    Starts <- PsinfoStarts
    ImageSwap = 2
    MaxPid = 7
INVARIANT PsinfoConsistent
