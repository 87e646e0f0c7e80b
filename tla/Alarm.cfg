SPECIFICATION FairSpec
CONSTANTS
    p1 = p1  p2 = p2
    Proc = {p1, p2}
    Word = 4  HalfHigh = 1  HZ = 2
    MaxSleep = 3  MaxStime = 1  MaxSig = 1
PROPERTY SleepEnds
INVARIANT NoOversleep
