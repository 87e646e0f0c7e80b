SPECIFICATION Spec
CONSTANTS
    NPROC = 6
    NOBJ = 4
    PIPSIZ = 1
    MAXARGS = 4
    OutLimit = 6
    Starts <- Reading
INVARIANT LineDone
CHECK_DEADLOCK FALSE
