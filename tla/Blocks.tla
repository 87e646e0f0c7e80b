------------------------------- MODULE Blocks -------------------------------
(***************************************************************************)
(* The blocks of files: the free list (alloc, free and the super-block's   *)
(* part of update, ken/alloc.c), the block map (bmap, ken/subr.c), itrunc  *)
(* (ken/iget.c), and readi and writei (ken/rdwri.c) that use them.         *)
(*                                                                         *)
(* A process keeps the processor (cur) until it comes to a place where it  *)
(* may sleep: a locked free list, or a buffer it asks for or waits for.    *)
(* s_flock is cleared together with its wakeup, so a process that sleeps   *)
(* on it is one whose next step has to wait for it to be clear.  Buffers   *)
(* are those of BlockStore: a block is held by one process, and has the    *)
(* contents last written.  A block is a row of words, whatever it is used  *)
(* for; a block number is a word and 0 is none.                            *)
(***************************************************************************)
EXTENDS Integers, Sequences, FiniteSets, FiniteSetsExt

CONSTANTS
    Proc, NoProc,
    File,
    NADDR,      \* entries of i_addr (8)
    NWORD,      \* words of a block (256)
    NICFREE,    \* entries of s_free (100)
    MaxBn,      \* the last block a file may have (077777)
    Starts,     \* to start from: ops, the calls each process makes; nblk, the
                \* blocks of the device; wait, whether update may find no buffer;
                \* bad, whether the list and a file have a number that is too large
    MaxCalls    \* bound: calls made in all

Index == 0 .. NADDR - 1
Word == 0 .. NWORD - 1
Zero == [w \in Word |-> 0]
Filled(v) == [w \in Word |-> v]

Call == [op : {"read", "write"}, f : File, bn : Nat, n : Nat \ {0}, v : Nat]
        \cup [op : {"trunc"}, f : File] \cup [op : {"sync"}]

ASSUME BlocksAssumption ==
    /\ NoProc \notin Proc
    /\ NADDR \in Nat /\ NADDR > 1 /\ NICFREE \in Nat /\ NICFREE > 1
    /\ NWORD \in Nat /\ NWORD > NICFREE /\ NWORD >= NADDR
    /\ MaxBn \in Nat /\ MaxBn < NWORD * NWORD
    /\ MaxCalls \in Nat
    /\ \A s \in Starts : /\ s.nblk \in Nat /\ s.wait \in BOOLEAN /\ s.bad \in BOOLEAN
                         /\ \A p \in Proc : s.ops[p] \subseteq Call

VARIABLES
    free,       \* s_free[0 .. s_nfree - 1]
    flock, fmod,
    copy,       \* the s_free that update last wrote to block 1
    inode,      \* i_addr, ILARG and i_size, in blocks, of each file
    data,       \* the contents of the blocks
    held,       \* who has the buffer of a block
    proc,       \* where each process is, and its local variables
    cur,        \* the process that has not come to a sleep, or NoProc
    start, calls

super == <<free, flock, fmod, copy>>
store == <<data, held>>
bound == <<start, calls>>
vars == <<super, inode, store, proc, cur, bound>>

Blk == 1 .. start.nblk

\* A process in user mode, whose last call has moved n blocks, and which has
\* read x last.
Idle(n, x) ==
    [pc |-> "user", op |-> "none", f |-> 0, bn |-> 0, n |-> 0, v |-> 0,
     ret |-> "user", bno |-> 0, bp |-> 0, dp |-> 0, old |-> Zero,
     pos |-> <<0, 0, 0>>, done |-> n, got |-> x]

-----------------------------------------------------------------------------
\* p is at a place and may run.
Runs(p, place) == proc[p].pc = place /\ cur \in {p, NoProc}

\* p goes on as r says; after Sleeps, others may run before it.
Goes(p, r) == proc' = [proc EXCEPT ![p] = r] /\ cur' = p
Sleeps(p, r) == proc' = [proc EXCEPT ![p] = r] /\ cur' = NoProc
Returns(p) == Sleeps(p, Idle(proc[p].done, proc[p].got))

\* The buffer of b is to be had.
Avail(b) == b \in Blk => held[b] = NoProc

\* The buffers of the blocks in B are taken, or released.
Hold(p, b) == held' = [held EXCEPT ![b] = p]
Release(B) == held' = [b \in Blk |-> IF b \in B THEN NoProc ELSE held[b]]

\* badblock; the I list is before the blocks.
Badblock(b) == b \notin Blk

\* The list that a block on the free list has; a count that cannot be is
\* taken for 0 by getfs.
ListIn(b) ==
    LET n == data[b][0] IN IF n > NICFREE THEN <<>> ELSE [i \in 1 .. n |-> data[b][i]]

\* That block, written.
Chained(s) ==
    [w \in Word |-> CASE w = 0 -> Len(s) [] w \in DOMAIN s -> s[w] [] OTHER -> 0]

-----------------------------------------------------------------------------
\* alloc.  A call of it; p sleeps when the list is locked.
CallAlloc(p, r, ret) ==
    /\ proc' = [proc EXCEPT ![p] = [r EXCEPT !.pc = "alloc", !.ret = ret]]
    /\ cur' = IF flock THEN NoProc ELSE p

\* The last number that is not bad is taken.  The last one left names the
\* block that has more.
AllocTake(p) ==
    LET good == {i \in DOMAIN free : free[i] = 0 \/ ~Badblock(free[i])}
        i == IF good = {} THEN 0 ELSE Max(good)
    IN  /\ Runs(p, "alloc")
        /\ IF i = 0 \/ free[i] = 0
           THEN /\ free' = <<>> /\ UNCHANGED flock
                /\ Goes(p, [proc[p] EXCEPT !.pc = "nospace"])
           ELSE /\ free' = SubSeq(free, 1, i - 1)
                /\ flock' = (i = 1)
                /\ Sleeps(p, [proc[p] EXCEPT !.bno = free[i],
                                  !.pc = IF i = 1 THEN "allocread" ELSE "getblk"])
        /\ UNCHANGED <<fmod, copy, inode, store, bound>>

\* Mutant: s_flock is not looked at.
AllocUnlocked(p) == AllocTake(p)

Alloc(p) == ~flock /\ AllocTake(p)

\* The buffer of the block is cleared and alloc returns.
Cleared(p) ==
    LET b == proc[p].bno
    IN  /\ Hold(p, b)
        /\ data' = [data EXCEPT ![b] = Zero]
        /\ fmod' = TRUE
        /\ Goes(p, [proc[p] EXCEPT !.pc = proc[p].ret, !.old = data[b]])

AllocGetblk(p) ==
    /\ Runs(p, "getblk") /\ Avail(proc[p].bno)
    /\ Cleared(p)
    /\ UNCHANGED <<free, flock, copy, inode, bound>>

\* More numbers have been read.  The buffer is in the cache, so that getblk
\* does not sleep.
AllocRead(p) ==
    /\ Runs(p, "allocread") /\ Avail(proc[p].bno)
    /\ free' = ListIn(proc[p].bno)
    /\ flock' = FALSE
    /\ Cleared(p)
    /\ UNCHANGED <<copy, inode, bound>>

-----------------------------------------------------------------------------
\* free.  A call of it.
CallFree(p, r, b, ret) ==
    /\ proc' = [proc EXCEPT ![p] = [r EXCEPT !.pc = "free", !.ret = ret, !.bno = b]]
    /\ cur' = IF flock THEN NoProc ELSE p
    /\ fmod' = TRUE

\* free returns, with the block on the list.
Freed(p, s) ==
    /\ free' = Append(s, proc[p].bno)
    /\ fmod' = TRUE
    /\ Goes(p, [proc[p] EXCEPT !.pc = proc[p].ret, !.bno = 0])

\* Mutant: an empty list is not begun with a 0.
FreeNoEnd(p) ==
    /\ Runs(p, "free") /\ ~flock /\ ~Badblock(proc[p].bno) /\ Len(free) < NICFREE
    /\ Freed(p, free)
    /\ UNCHANGED <<flock, copy, inode, store, bound>>

Free(p) ==
    LET s == IF free = <<>> THEN <<0>> ELSE free
    IN  /\ Runs(p, "free") /\ ~flock /\ ~Badblock(proc[p].bno) /\ Len(s) < NICFREE
        /\ Freed(p, s)
        /\ UNCHANGED <<flock, copy, inode, store, bound>>

FreeBad(p) ==
    /\ Runs(p, "free") /\ ~flock /\ Badblock(proc[p].bno)
    /\ Goes(p, [proc[p] EXCEPT !.pc = proc[p].ret, !.bno = 0])
    /\ UNCHANGED <<super, inode, store, bound>>

\* The list is full: it goes into the block, which begins a new one.
FreeFull(p) ==
    /\ Runs(p, "free") /\ ~flock /\ ~Badblock(proc[p].bno) /\ Len(free) >= NICFREE
    /\ flock' = TRUE
    /\ Sleeps(p, [proc[p] EXCEPT !.pc = "freeget"])
    /\ UNCHANGED <<free, fmod, copy, inode, store, bound>>

FreeChain(p) ==
    LET b == proc[p].bno
    IN  /\ Runs(p, "freeget") /\ Avail(b)
        /\ Hold(p, b)
        /\ data' = [data EXCEPT ![b] = Chained(free)]
        /\ free' = <<>>
        /\ Sleeps(p, [proc[p] EXCEPT !.pc = "freewrite"])
        /\ UNCHANGED <<flock, fmod, copy, inode, bound>>

FreeWritten(p) ==
    /\ Runs(p, "freewrite")
    /\ Release({proc[p].bno})
    /\ flock' = FALSE
    /\ Freed(p, free)
    /\ UNCHANGED <<copy, inode, data, bound>>

-----------------------------------------------------------------------------
\* bmap.  The entry of i_addr, and of a double indirect block, on the way to
\* block bn of a large file.
Entry(bn) == IF bn \div NWORD < NADDR - 1 THEN bn \div NWORD ELSE NADDR - 1
DoubleEntry(bn) == ((bn \div NWORD) % NWORD) - (NADDR - 1)

\* bmap has found block b, whose buffer is asked for next.
Mapped(p, b) == Sleeps(p, [proc[p] EXCEPT !.pc = "io", !.bp = b, !.bno = 0])

Bmap(p) ==
    LET r == proc[p]
        ip == inode[r.f]
    IN  /\ Runs(p, "bmap")
        /\ \/ r.bn > MaxBn /\ Returns(p)
           \/ /\ r.bn <= MaxBn /\ ip.large
              /\ Goes(p, [r EXCEPT !.pc = "large"])
           \/ /\ r.bn <= MaxBn /\ ~ip.large /\ r.bn >= NADDR
              /\ CallAlloc(p, r, "convert")
           \/ /\ r.bn < NADDR /\ ~ip.large /\ ip.addr[r.bn] = 0
              /\ CallAlloc(p, r, "direct")
           \/ /\ r.bn < NADDR /\ ~ip.large /\ ip.addr[r.bn] # 0
              /\ Mapped(p, ip.addr[r.bn])
        /\ UNCHANGED <<super, inode, store, bound>>

\* The addresses move to an indirect block.
Convert(p) ==
    LET r == proc[p]
        addr == inode[r.f].addr
    IN  /\ Runs(p, "convert")
        /\ data' = [data EXCEPT ![r.bno] =
                        [w \in Word |-> IF w \in Index THEN addr[w] ELSE 0]]
        /\ Release({r.bno})
        /\ inode' = [inode EXCEPT ![r.f].addr =
                         [i \in Index |-> IF i = 0 THEN r.bno ELSE 0],
                                  ![r.f].large = TRUE]
        /\ Goes(p, [r EXCEPT !.pc = "large", !.bno = 0])
        /\ UNCHANGED <<super, bound>>

\* A block of a small file.
Direct(p) ==
    LET r == proc[p]
    IN  /\ Runs(p, "direct")
        /\ Release({r.bno})
        /\ inode' = [inode EXCEPT ![r.f].addr[r.bn] = r.bno]
        /\ Mapped(p, r.bno)
        /\ UNCHANGED <<super, data, bound>>

Large(p) ==
    LET r == proc[p]
        nb == inode[r.f].addr[Entry(r.bn)]
    IN  /\ Runs(p, "large")
        /\ \/ nb = 0 /\ CallAlloc(p, r, "newind")
           \/ nb # 0 /\ Sleeps(p, [r EXCEPT !.pc = "readind", !.bp = nb])
        /\ UNCHANGED <<super, inode, store, bound>>

\* The indirect block is new.
NewInd(p) ==
    LET r == proc[p]
    IN  /\ Runs(p, "newind")
        /\ inode' = [inode EXCEPT ![r.f].addr[Entry(r.bn)] = r.bno]
        /\ Goes(p, [r EXCEPT !.pc = "ind", !.bp = r.bno, !.bno = 0])
        /\ UNCHANGED <<super, store, bound>>

\* bread of an indirect or double indirect block.
ReadInd(p, place, then) ==
    LET r == proc[p]
    IN  /\ Runs(p, place) /\ Avail(r.bp)
        /\ Hold(p, r.bp)
        /\ Goes(p, [r EXCEPT !.pc = then, !.old = data[r.bp]])
        /\ UNCHANGED <<super, inode, data, bound>>

\* In the last entry is a double indirect block.
Ind(p) ==
    LET r == proc[p]
        nb == data[r.bp][DoubleEntry(r.bn)]
    IN  /\ Runs(p, "ind")
        /\ \/ /\ Entry(r.bn) < NADDR - 1
              /\ Goes(p, [r EXCEPT !.pc = "map"])
              /\ UNCHANGED held
           \/ /\ Entry(r.bn) = NADDR - 1 /\ nb = 0
              /\ CallAlloc(p, r, "newdind")
              /\ UNCHANGED held
           \/ /\ Entry(r.bn) = NADDR - 1 /\ nb # 0
              /\ Release({r.bp})
              /\ Sleeps(p, [r EXCEPT !.pc = "readdind", !.bp = nb])
        /\ UNCHANGED <<super, inode, data, bound>>

NewDind(p) ==
    LET r == proc[p]
    IN  /\ Runs(p, "newdind")
        /\ data' = [data EXCEPT ![r.bp][DoubleEntry(r.bn)] = r.bno]
        /\ Release({r.bp})
        /\ Goes(p, [r EXCEPT !.pc = "map", !.bp = r.bno, !.bno = 0])
        /\ UNCHANGED <<super, inode, bound>>

MapBlock(p) ==
    LET r == proc[p]
        nb == data[r.bp][r.bn % NWORD]
    IN  /\ Runs(p, "map")
        /\ \/ /\ nb = 0
              /\ CallAlloc(p, r, "newdata")
              /\ UNCHANGED held
           \/ /\ nb # 0
              /\ Release({r.bp})
              /\ Mapped(p, nb)
        /\ UNCHANGED <<super, inode, data, bound>>

\* Mutant: the indirect block is released and not written.
NewDataDropped(p) ==
    LET r == proc[p]
    IN  /\ Runs(p, "newdata")
        /\ UNCHANGED data
        /\ Release({r.bp, r.bno})
        /\ Mapped(p, r.bno)
        /\ UNCHANGED <<super, inode, bound>>

NewData(p) ==
    LET r == proc[p]
    IN  /\ Runs(p, "newdata")
        /\ data' = [data EXCEPT ![r.bp][r.bn % NWORD] = r.bno]
        /\ Release({r.bp, r.bno})
        /\ Mapped(p, r.bno)
        /\ UNCHANGED <<super, inode, bound>>

\* alloc failed, and bmap, readi or writei return.  An indirect block that is
\* held is released, not written: if it is new, what is on the disk may take
\* the place of its zeros.
Nospace(p) ==
    LET r == proc[p]
    IN  /\ Runs(p, "nospace")
        /\ \E x \in IF r.bp = 0 THEN {Zero} ELSE {data[r.bp], r.old} :
               data' = IF r.bp = 0 THEN data ELSE [data EXCEPT ![r.bp] = x]
        /\ Release({r.bp})
        /\ Returns(p)
        /\ UNCHANGED <<super, inode, bound>>

-----------------------------------------------------------------------------
\* readi and writei: the next block of the request, if there is one.
NextBlock(p, x) ==
    LET r == proc[p]
        more == r.n > 1 /\ (r.op = "read" => r.bn + 1 < inode[r.f].size)
    IN  IF more THEN Goes(p, [r EXCEPT !.pc = "bmap", !.bn = @ + 1, !.n = @ - 1,
                                       !.bp = 0, !.done = @ + 1, !.got = x])
                ELSE Sleeps(p, Idle(r.done + 1, x))

Readi(p) ==
    LET r == proc[p]
    IN  /\ Runs(p, "io") /\ r.op = "read" /\ Avail(r.bp)
        /\ NextBlock(p, data[r.bp])
        /\ UNCHANGED <<super, inode, store, bound>>

Writei(p) ==
    LET r == proc[p]
    IN  /\ Runs(p, "io") /\ r.op = "write" /\ Avail(r.bp)
        /\ data' = [data EXCEPT ![r.bp] = Filled(r.v)]
        /\ inode' = [inode EXCEPT ![r.f].size = IF @ > r.bn THEN @ ELSE r.bn + 1]
        /\ NextBlock(p, r.got)
        /\ UNCHANGED <<super, held, bound>>

-----------------------------------------------------------------------------
\* itrunc.  pos is where its three loops are: the entry of i_addr, of the
\* indirect and of the double indirect block; -1 when a loop is done.
Below(s, i) == {w \in DOMAIN s : w < i /\ s[w] # 0}

TruncEnd(p) ==
    LET r == proc[p]
    IN  /\ Runs(p, "trunc")
        /\ Below(inode[r.f].addr, r.pos[1]) = {}
        /\ inode' = [inode EXCEPT ![r.f].large = FALSE, ![r.f].size = 0]
        /\ Returns(p)
        /\ UNCHANGED <<super, store, bound>>

Trunc(p) ==
    LET r == proc[p]
        ip == inode[r.f]
        i == Max(Below(ip.addr, r.pos[1]))
    IN  /\ Runs(p, "trunc")
        /\ Below(ip.addr, r.pos[1]) # {}
        /\ \/ /\ ip.large
              /\ Sleeps(p, [r EXCEPT !.pc = "truncread", !.bp = ip.addr[i],
                                     !.pos = <<i, NWORD, NWORD>>])
              /\ UNCHANGED fmod
           \/ /\ ~ip.large
              /\ CallFree(p, [r EXCEPT !.pos = <<i, -1, -1>>], ip.addr[i], "truncaddr")
        /\ UNCHANGED <<free, flock, copy, inode, store, bound>>

\* The block of the entry is free.
TruncAddr(p) ==
    LET r == proc[p]
    IN  /\ Runs(p, "truncaddr")
        /\ inode' = [inode EXCEPT ![r.f].addr[r.pos[1]] = 0]
        /\ Goes(p, [r EXCEPT !.pc = "trunc"])
        /\ UNCHANGED <<super, store, bound>>

TruncInd(p) ==
    LET r == proc[p]
        i == r.pos[1]
        c == Max(Below(data[r.bp], r.pos[2]))
        nb == data[r.bp][c]
    IN  /\ Runs(p, "truncind")
        /\ \/ /\ Below(data[r.bp], r.pos[2]) = {}
              /\ Release({r.bp})
              /\ CallFree(p, [r EXCEPT !.pos = <<i, -1, -1>>, !.bp = 0],
                          inode[r.f].addr[i], "truncaddr")
           \/ /\ Below(data[r.bp], r.pos[2]) # {} /\ i = NADDR - 1
              /\ Sleeps(p, [r EXCEPT !.pc = "truncdread", !.dp = nb,
                                     !.pos = <<i, c, NWORD>>])
              /\ UNCHANGED <<fmod, held>>
           \/ /\ Below(data[r.bp], r.pos[2]) # {} /\ i < NADDR - 1
              /\ CallFree(p, [r EXCEPT !.pos = <<i, c, -1>>], nb, "truncind")
              /\ UNCHANGED held
        /\ UNCHANGED <<free, flock, copy, inode, data, bound>>

TruncDread(p) ==
    LET r == proc[p]
    IN  /\ Runs(p, "truncdread") /\ Avail(r.dp)
        /\ Hold(p, r.dp)
        /\ Goes(p, [r EXCEPT !.pc = "truncdind"])
        /\ UNCHANGED <<super, inode, data, bound>>

\* Mutant: the double indirect block is freed before its buffer is released.
TruncDindHolds(p) ==
    LET r == proc[p]
        i == r.pos[1]
        c == r.pos[2]
        rest == Below(data[r.dp], r.pos[3])
    IN  /\ Runs(p, "truncdind")
        /\ \/ /\ rest = {}
              /\ UNCHANGED held
              /\ CallFree(p, [r EXCEPT !.pos = <<i, c, -1>>, !.dp = 0],
                          data[r.bp][c], "truncind")
           \/ /\ rest # {}
              /\ CallFree(p, [r EXCEPT !.pos = <<i, c, Max(rest)>>],
                          data[r.dp][Max(rest)], "truncdind")
              /\ UNCHANGED held
        /\ UNCHANGED <<free, flock, copy, inode, data, bound>>

TruncDind(p) ==
    LET r == proc[p]
        i == r.pos[1]
        c == r.pos[2]
        rest == Below(data[r.dp], r.pos[3])
    IN  /\ Runs(p, "truncdind")
        /\ \/ /\ rest = {}
              /\ Release({r.dp})
              /\ CallFree(p, [r EXCEPT !.pos = <<i, c, -1>>, !.dp = 0],
                          data[r.bp][c], "truncind")
           \/ /\ rest # {}
              /\ CallFree(p, [r EXCEPT !.pos = <<i, c, Max(rest)>>],
                          data[r.dp][Max(rest)], "truncdind")
              /\ UNCHANGED held
        /\ UNCHANGED <<free, flock, copy, inode, data, bound>>

-----------------------------------------------------------------------------
\* update copies the super-block.
Copied(p) ==
    /\ fmod' = FALSE
    /\ copy' = free
    /\ Returns(p)

SyncSuper(p) ==
    /\ Runs(p, "sync")
    /\ Copied(p)
    /\ UNCHANGED <<free, flock, inode, store, bound>>

\* Mutant: s_flock is not looked at.
SyncUnlocked(p) ==
    /\ IF ~fmod \/ \E q \in Proc : proc[q].pc = "sync"
       THEN Returns(p) /\ UNCHANGED <<fmod, copy>>
       ELSE IF start.wait
       THEN Sleeps(p, [proc[p] EXCEPT !.pc = "sync"]) /\ UNCHANGED <<fmod, copy>>
       ELSE Copied(p)
    /\ UNCHANGED <<free, flock, inode, store>>

\* update, unless another is at it (updlock).  It sleeps for a buffer when
\* there is none.
Sync(p) ==
    /\ IF ~fmod \/ flock \/ \E q \in Proc : proc[q].pc = "sync"
       THEN Returns(p) /\ UNCHANGED <<fmod, copy>>
       ELSE IF start.wait
       THEN Sleeps(p, [proc[p] EXCEPT !.pc = "sync"]) /\ UNCHANGED <<fmod, copy>>
       ELSE Copied(p)
    /\ UNCHANGED <<free, flock, inode, store>>

\* A system call that reads, writes or truncates a file.
FileCall(p, c) ==
    LET r == proc[p]
    IN  /\ IF c.op = "trunc"
           THEN Goes(p, [r EXCEPT !.pc = "trunc", !.op = c.op, !.f = c.f,
                                  !.done = 0, !.pos = <<NADDR, NWORD, NWORD>>])
           ELSE /\ c.op = "read" => c.bn < inode[c.f].size
                /\ Goes(p, [r EXCEPT !.pc = "bmap", !.op = c.op, !.f = c.f,
                                     !.bn = c.bn, !.n = c.n, !.v = c.v,
                                     !.done = 0])
        /\ UNCHANGED <<super, inode, store>>

Begin(p) ==
    /\ proc[p].pc = "user" /\ cur = NoProc /\ calls < MaxCalls
    /\ calls' = calls + 1 /\ UNCHANGED start
    /\ \E c \in start.ops[p] : IF c.op = "sync" THEN Sync(p) ELSE FileCall(p, c)

\* The device as mkfs makes it: free blocks only, put on the list one by one.
Mkfs(nblk) ==
    LET bfree[n \in 0 .. nblk] ==
          IF n = 0 THEN [free |-> <<0>>, data |-> [b \in 1 .. nblk |-> Zero]]
          ELSE LET x == bfree[n - 1]
               IN  IF Len(x.free) < NICFREE THEN [x EXCEPT !.free = Append(@, n)]
                   ELSE [free |-> <<n>>,
                         data |-> [x.data EXCEPT ![n] = Chained(x.free)]]
    IN  bfree[nblk]

Init ==
    /\ start \in Starts
    /\ LET s == Mkfs(start.nblk).free
       IN  free = IF start.bad THEN Append(s, start.nblk + 1) ELSE s
    /\ copy = free
    /\ data = Mkfs(start.nblk).data
    /\ flock = FALSE /\ fmod = FALSE
    /\ inode = [f \in File |->
           [addr |-> [i \in Index |-> IF start.bad /\ i = 0 THEN start.nblk + 1 ELSE 0],
            large |-> FALSE, size |-> 0]]
    /\ held = [b \in Blk |-> NoProc]
    /\ proc = [p \in Proc |-> Idle(0, Zero)]
    /\ cur = NoProc /\ calls = 0

Kernel(p) ==
    \/ Alloc(p) \/ AllocGetblk(p) \/ AllocRead(p)
    \/ Free(p) \/ FreeBad(p) \/ FreeFull(p) \/ FreeChain(p) \/ FreeWritten(p)
    \/ Bmap(p) \/ Convert(p) \/ Direct(p) \/ Large(p) \/ NewInd(p)
    \/ ReadInd(p, "readind", "ind") \/ Ind(p) \/ NewDind(p)
    \/ ReadInd(p, "readdind", "map") \/ MapBlock(p) \/ NewData(p) \/ Nospace(p)
    \/ Readi(p) \/ Writei(p)
    \/ Trunc(p) \/ TruncEnd(p) \/ TruncAddr(p) \/ ReadInd(p, "truncread", "truncind")
    \/ TruncInd(p) \/ TruncDread(p) \/ TruncDind(p) \/ SyncSuper(p)

Next == \E p \in Proc : Begin(p) \/ Kernel(p)

Spec == Init /\ [][Next]_vars

\* A process that is in the kernel goes on; it is woken with what it waits for.
FairSpec == Spec /\ \A p \in Proc : WF_vars(Kernel(p))

-----------------------------------------------------------------------------
Place == {"user", "alloc", "getblk", "allocread", "nospace", "free", "freeget",
          "freewrite", "bmap", "convert", "direct", "large", "newind", "readind",
          "ind", "newdind", "readdind", "map", "newdata", "io", "trunc",
          "truncread", "truncaddr", "truncind", "truncdread", "truncdind", "sync"}

Cell == 0 .. (IF start.bad THEN start.nblk + 1 ELSE start.nblk)

\* Type correctness; addresses are of the device, the list is not longer than
\* s_free, and every process is at a place of the code.
TypeOK ==
    /\ DOMAIN free = 1 .. Len(free) /\ Len(free) <= NICFREE
    /\ \A i \in DOMAIN free : free[i] \in Cell
    /\ flock \in BOOLEAN /\ fmod \in BOOLEAN /\ copy \in Seq(Cell)
    /\ inode \in [File -> [addr : [Index -> Cell], large : BOOLEAN, size : Nat]]
    /\ data \in [Blk -> [Word -> Nat]]
    /\ held \in [Blk -> Proc \cup {NoProc}]
    /\ \A p \in Proc : /\ proc[p].pc \in Place
                       /\ {proc[p].bno, proc[p].bp, proc[p].dp} \subseteq Cell
    /\ cur \in Proc \cup {NoProc} /\ start \in Starts /\ calls \in 0 .. MaxCalls

\* The free lists that begin with top: s_free, and those in the blocks that
\* are reached from it.
Lists(top) ==
    LET L[n \in 0 .. start.nblk] ==
          IF n = 0 THEN top
          ELSE LET l == L[n - 1]
               IN  IF l = <<>> \/ Badblock(l[1]) THEN <<>> ELSE ListIn(l[1])
    IN  L

\* The blocks on them.
OnLists(top) ==
    {b \in Blk : \E n \in 0 .. start.nblk : \E i \in DOMAIN Lists(top)[n] : Lists(top)[n][i] = b}

\* The list, also when it is on its way from or to a block.
Top == LET moving == {p \in Proc : proc[p].pc \in {"allocread", "freewrite"}}
       IN  IF moving = {} THEN free ELSE ListIn(proc[CHOOSE p \in moving : TRUE].bno)

\* The entries that lead to the blocks of a file, as places <<i, c, e>>: of
\* i_addr, and, unless -1, of the indirect and of the double indirect block.
Pointer(f, k) ==
    LET ip == inode[f]
        one == ip.addr[k[1]]
        two == data[one][k[2]]
    IN  IF k[2] = -1 THEN one
        ELSE IF ~ip.large \/ Badblock(one) THEN 0
        ELSE IF k[3] = -1 THEN two
        ELSE IF k[1] # NADDR - 1 \/ Badblock(two) THEN 0
        ELSE data[two][k[3]]

Places3 == {<<i, -1, -1>> : i \in Index}
           \cup (Index \X Word \X (Word \cup {-1}))

Before(k, l) == \/ k[1] < l[1]
                \/ k[1] = l[1] /\ k[2] < l[2]
                \/ k[1] = l[1] /\ k[2] = l[2] /\ k[3] < l[3]

\* Those that itrunc has still to visit.
Entries(f) ==
    {k \in Places3 : \A p \in Proc :
        proc[p].op = "trunc" /\ proc[p].f = f => Before(k, proc[p].pos)}

InHand(p) == proc[p].bno # 0

\* Every block of the device is in exactly one place: on the free list, in one
\* entry of one file, or in the hands of one process that is allocating or
\* freeing it; alloc, free, bmap and itrunc lose none and share none.
OnePlace ==
    \A b \in Blk :
        Cardinality({<<n, i>> \in (0 .. start.nblk) \X (1 .. NICFREE) :
                        i \in DOMAIN Lists(Top)[n] /\ Lists(Top)[n][i] = b})
        + Cardinality({x \in File \X Places3 : x[2] \in Entries(x[1]) /\ Pointer(x[1], x[2]) = b})
        + Cardinality({p \in Proc : proc[p].bno = b}) = 1

\* s_fmod is clear only when block 1 has what the super-block has: update does
\* not leave out a change of the free list for good.
FmodTells ==
    ~fmod /\ (\A p \in Proc : ~InHand(p)) => OnLists(copy) = OnLists(free)

\* Blocks are neither lost nor shared, the list in core fits s_free, and the
\* list on disk is behind only while s_fmod says so (alloc.c, subr.c, iget.c).
BlocksKept == TypeOK /\ OnePlace /\ FmodTells

\* alloc reports "no space" only when no block is free.
NoSpaceIsTrue ==
    [][\A p \in Proc : proc'[p].pc = "nospace" /\ proc[p].pc # "nospace"
           => OnLists(Top) = {}]_vars

\* What update writes to block 1 is the whole free list, not what is left of
\* it while alloc or free moves it from or to a block.
SyncCopiesAll == [][fmod /\ ~fmod' => OnLists(copy') = OnLists(Top)]_vars

\* The block of a file, or 0, and the contents a reader finds.
BlockAt(f, bn) ==
    IF inode[f].large
    THEN IF Entry(bn) < NADDR - 1 THEN Pointer(f, <<Entry(bn), bn % NWORD, -1>>)
         ELSE Pointer(f, <<NADDR - 1, DoubleEntry(bn), bn % NWORD>>)
    ELSE IF bn < NADDR THEN inode[f].addr[bn] ELSE 0

Content(f) ==
    IF \E p \in Proc : proc[p].op = "trunc" /\ proc[p].f = f THEN <<>>
    ELSE [i \in 1 .. inode[f].size |->
             IF Badblock(BlockAt(f, i - 1)) THEN Zero ELSE data[BlockAt(f, i - 1)]]

Abstract == INSTANCE Files WITH
    content <- [f \in File |-> Content(f)],
    req <- [p \in Proc |-> [op |-> proc[p].op, f |-> proc[p].f, bn |-> proc[p].bn,
                            n |-> proc[p].n, v |-> proc[p].v]],
    done <- [p \in Proc |-> proc[p].done],
    got <- [p \in Proc |-> proc[p].got]

\* Files are what Files says: a read gives what was last written there, or
\* zeros, whatever else happens to the free list and to other files; a change
\* from small to large, or a call that ends for lack of space, changes nothing.
ImplementsFiles == Abstract!Init /\ [][Abstract!Next]_(Abstract!vars)

\* Every call returns: nobody waits for ever for the list or for a buffer, one
\* of his own included.
CallsReturn == \A p \in Proc : proc[p].pc # "user" ~> proc[p].pc = "user"
=============================================================================
