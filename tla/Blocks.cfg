SPECIFICATION FairSpec
CONSTANTS
    p1 = p1  p2 = p2  p3 = p3
    Proc = {p1, p2, p3}
    NoProc = NoProc
    File = {1, 2}
    NADDR = 2  NWORD = 3  NICFREE = 2  MaxBn = 8
    Starts <- Safe
    MaxCalls = 5
INVARIANT BlocksKept
PROPERTIES NoSpaceIsTrue SyncCopiesAll ImplementsFiles CallsReturn
CHECK_DEADLOCK FALSE
