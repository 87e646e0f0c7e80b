SPECIFICATION FairSpec
CONSTANTS
    NPROC = 5
    Starts <- MCStarts
    ImageSwap = 2
    MaxPid = 7
INVARIANTS TableKept MemoryKept PsinfoConsistent
PROPERTIES SwappedIn KillEnds
