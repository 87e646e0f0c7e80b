SPECIFICATION FairSpec
CONSTANTS
    p1 = p1  p2 = p2
    Proc = {p1, p2}
    Starts <- Safe
    Texts <- Writes
    Counts = {1, 5}
    TTHIWAT = 4  TTLOWAT = 2  TTYHOG = 7  CANBSIZ = 9
    MaxCalls = 2
INVARIANTS QueuesKept ReadsWhatWasTyped OutputInOrder
PROPERTY CallsEnd
CHECK_DEADLOCK FALSE
