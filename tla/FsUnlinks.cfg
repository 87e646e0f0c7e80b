SPECIFICATION Spec
CONSTANTS
    p1 = p1  p2 = p2  p3 = p3  a = a  b = b
    Proc = {p1, p2}
    Name = {a, b}
    NIno = 3  PerBlock = 2  NINODE = 4  NICINOD = 2  MaxLink = 4
    Starts <- Unlinking
    InitDir <- TwoNames
    MaxCalls = 3
INVARIANT EntryNamesFile
CHECK_DEADLOCK FALSE
