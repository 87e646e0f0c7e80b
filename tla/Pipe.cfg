SPECIFICATION FairSpec
CONSTANTS
    r1 = r1  w1 = w1  w2 = w2
    Reader = {r1}
    Writer = {w1, w2}
    PIPSIZ = 2
    MaxWrite = 3
    MaxUnits = 3  MaxSig = 1
PROPERTY SleepersWake
CHECK_DEADLOCK FALSE
INVARIANT PipeIsSafe
PROPERTY ImplementsFifo
