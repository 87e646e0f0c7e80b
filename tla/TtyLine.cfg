SPECIFICATION Spec
CONSTANTS
    p1 = p1  p2 = p2
    Proc = {p1, p2}
    Starts <- Lines
    Texts <- Writes
    Counts = {1, 5}
    TTHIWAT = 4  TTLOWAT = 2  TTYHOG = 7  CANBSIZ = 3
    MaxCalls = 2
INVARIANT ReadsWhatWasTyped
CHECK_DEADLOCK FALSE
