SPECIFICATION FairSpec
CONSTANTS
    CELLS = 8
    UNIT = 2
    MAXBLK = 5
    LBSIZE = 8
    NLINES = 7
    ESIZE = 8
    NBRA = 2
    Names = {"x"}
    Starts <- MCStarts
INVARIANTS LinesKept MatchIsRight
PROPERTIES StepIsEdit GlobalEnds
CHECK_DEADLOCK FALSE
