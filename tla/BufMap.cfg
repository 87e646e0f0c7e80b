SPECIFICATION Spec
CONSTANTS
    p1 = p1  p2 = p2
    b1 = b1  b2 = b2  b3 = b3
    k1 = k1  k2 = k2  k3 = k3
    v0 = v0  v1 = v1
    Proc = {p1, p2}
    Buf = {b1, b2, b3}
    Blk = {k1, k2}
    BadBlk = {}
    Val = {v0, v1}
    Zero = v0
    NEXEC = 1
    Workload = {"breada", "bmap", "getblk", "bflush"}
    NoBuf = NoBuf  Nodev = Nodev  NoProc = NoProc  NoIO = NoIO  Awake = Awake
SYMMETRY Symmetry
INVARIANT NoDeadlyEmbrace
PROPERTY ImplementsStore
