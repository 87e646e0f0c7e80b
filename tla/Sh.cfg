SPECIFICATION FairSpec
CONSTANTS
    NPROC = 6
    NOBJ = 4
    PIPSIZ = 1
    MAXARGS = 4
    OutLimit = 6
    Starts <- MCStarts
INVARIANTS ProcessesKept ParseIsGrammar LineDone
PROPERTIES PromptReturns
CHECK_DEADLOCK FALSE
