------------------------------ MODULE BufCache ------------------------------
(***************************************************************************)
(* The block buffer cache (dmr/bio.c) on top of the disk driver            *)
(* (dmr/rk.c, dmr/ide.c): processes that read and write blocks through     *)
(* getblk, bread, breada, brelse, bwrite, bdwrite, bawrite and bflush, and *)
(* the disk interrupt that completes their transfers.                      *)
(*                                                                         *)
(* The kernel is not preemptive: a process that runs in the kernel (cur)   *)
(* runs until it sleeps or returns to user mode.  Interrupts are only held *)
(* off between spl6 and spl0.  A step below is the code between two points *)
(* where the order of the process and the interrupt matters.  An interrupt *)
(* only clears B_BUSY, sets B_DONE and appends to the free list, so one    *)
(* that falls inside a step leaves the same state as one just before it.   *)
(***************************************************************************)
EXTENDS Integers, Sequences, FiniteSets

CONSTANTS
    Proc,       \* processes
    Buf,        \* the headers buf[0..NBUF-1]
    Blk,        \* (device, block) pairs inside the device
    BadBlk,     \* pairs with b_blkno beyond the end of the device
    Val,        \* contents of a block
    Zero,       \* the contents clrbuf leaves
    NEXEC,      \* limit on processes in exec
    Workload,   \* the operations the processes perform
    NoBuf, Nodev, NoProc, NoIO, Awake

ASSUME BufAssumption ==
    /\ Zero \in Val
    /\ IsFiniteSet(Buf)
    /\ NEXEC \in Nat
    /\ Workload \subseteq {"bread", "getblk", "breada", "bmap", "bflush", "exec"}
    /\ NoBuf \notin Buf
    /\ NoProc \notin Proc
    /\ Nodev \notin Blk \cup BadBlk
    /\ Blk \cap BadBlk = {}
    /\ {Awake, "bfreelist", "execnt"} \cap Buf = {}
    /\ Awake \notin {"bfreelist", "execnt"}
    /\ NoIO \notin [buf : Buf, blk : Blk, read : BOOLEAN, val : Val]

VARIABLES
    flags,      \* b_flags of each header
    assoc,      \* b_dev, b_blkno of each header; Nodev when it has no block
    data,       \* the 512 bytes at b_addr
    freelist,   \* the available list of bfreelist, oldest first
    freeWanted, \* B_WANTED of bfreelist
    queue,      \* rktab.d_actf ... d_actl
    io,         \* the transfer devstart handed to the controller
    disk,       \* the blocks of the device
    cur,        \* the process running in the kernel
    wchan,      \* p_wchan of each process
    pc,         \* where each process is
    want,       \* the block getblk looks for
    ret,        \* where getblk returns to
    bp,         \* the buffer getblk gave the process
    rbp,        \* a buffer kept while another is asked for
    arg,        \* the buffer exec keeps its arguments in
    blkno, rablkno, \* arguments of breada
    execnt      \* processes in exec

bufvars == <<flags, assoc, freelist, freeWanted, wchan>>
devvars == <<queue, io>>
ownvars == <<bp, rbp, arg>>
argvars == <<want, ret, blkno, rablkno>>
vars == <<flags, assoc, data, freelist, freeWanted, queue, io, disk, cur,
          wchan, pc, want, ret, bp, rbp, arg, blkno, rablkno, execnt>>

Flags == {"READ", "DONE", "ERROR", "BUSY", "WANTED", "ASYNC", "DELWRI"}
Block == Blk \cup BadBlk
Transfer == [buf : Buf, blk : Blk, read : BOOLEAN, val : Val]
GetblkRet == {"bread", "fill", "breada1", "breada2", "alloc", "exec"}
Pc == GetblkRet \cup
      {"user", "getblk", "breada", "ahead", "main", "iowait", "held", "dirty",
       "bwait", "ind", "nbdw", "dwrite", "bflush", "execwait", "inexec"}

\* The elements of a list, and a list with one of them unlinked.
Elems(s) == {s[i] : i \in 1..Len(s)}
Unlink(s, b) ==
    LET i == CHOOSE k \in 1..Len(s) : s[k] = b
    IN  [j \in 1..(Len(s) - 1) |-> IF j < i THEN s[j] ELSE s[j + 1]]

-----------------------------------------------------------------------------
(* Sleeping and waking. *)

\* wakeup(chan) for every channel in C.
Wakeup(C) == wchan' = [q \in Proc |-> IF wchan[q] \in C THEN Awake ELSE wchan[q]]

\* sleep(c, pri) with pri < 0: no signal ends it.
Sleep(p, c) ==
    /\ wchan' = [wchan EXCEPT ![p] = c]
    /\ cur' = NoProc

-----------------------------------------------------------------------------
(* Buffers.  f and fl are b_flags and the available list on entry. *)

\* Mutant of brelse: who wants this buffer is not woken.
BrelseDeaf(b, f, fl) ==
    /\ flags' = [flags EXCEPT ![b] = f \ {"WANTED", "BUSY", "ASYNC"}]
    /\ assoc' = [assoc EXCEPT ![b] = IF "ERROR" \in f THEN Nodev ELSE @]
    /\ freelist' = Append(fl, b)
    /\ freeWanted' = FALSE
    /\ Wakeup(IF freeWanted THEN {"bfreelist"} ELSE {})

\* brelse: wake who wants this buffer or any buffer, put it on the list's end.
Brelse(b, f, fl) ==
    /\ flags' = [flags EXCEPT ![b] = f \ {"WANTED", "BUSY", "ASYNC"}]
    /\ assoc' = [assoc EXCEPT ![b] = IF "ERROR" \in f THEN Nodev ELSE @]
    /\ freelist' = Append(fl, b)
    /\ freeWanted' = FALSE
    /\ Wakeup((IF "WANTED" \in f THEN {b} ELSE {})
              \cup (IF freeWanted THEN {"bfreelist"} ELSE {}))

\* iodone: release an asynchronous buffer, else wake everyone waiting on it.
Iodone(b, f, fl) ==
    IF "ASYNC" \in f
    THEN Brelse(b, f \cup {"DONE"}, fl)
    ELSE /\ flags' = [flags EXCEPT ![b] = (f \cup {"DONE"}) \ {"WANTED"}]
         /\ Wakeup({b})
         /\ freelist' = fl
         /\ UNCHANGED <<assoc, freeWanted>>

\* devstart, ideio, idestart: a write's data goes to the controller at once.
Devstart(b, f) ==
    [buf |-> b, blk |-> assoc[b], read |-> "READ" \in f, val |-> data[b]]

\* rkstrategy: fail a block beyond the device, queue any other.
Rkstrategy(b, f, fl) ==
    IF assoc[b] \in BadBlk
    THEN Iodone(b, f \cup {"ERROR"}, fl) /\ UNCHANGED devvars
    ELSE /\ flags' = [flags EXCEPT ![b] = f]
         /\ freelist' = fl
         /\ queue' = Append(queue, b)
         /\ io' = IF io = NoIO THEN Devstart(b, f) ELSE io
         /\ UNCHANGED <<assoc, freeWanted, wchan>>

\* bwrite as far as the call of the strategy routine.
BwriteStart(b, f, fl) ==
    Rkstrategy(b, f \ {"READ", "DONE", "ERROR", "DELWRI"}, fl)

\* incore
Incore(k) == \E b \in Buf : assoc[b] = k

-----------------------------------------------------------------------------
(* getblk: one action for each way through the body of its loop. *)

\* The block's buffer is busy: ask for a wakeup, sleep, start over.
GetblkBusy(p) ==
    /\ cur = p /\ pc[p] = "getblk" /\ want[p] # Nodev
    /\ \E b \in Buf :
          /\ assoc[b] = want[p]
          /\ "BUSY" \in flags[b]
          /\ flags' = [flags EXCEPT ![b] = @ \cup {"WANTED"}]
          /\ Sleep(p, b)
    /\ UNCHANGED <<assoc, freelist, freeWanted, data, devvars, disk, pc,
                   argvars, ownvars, execnt>>

\* Mutants: a buffer that is busy is taken all the same; a buffer is marked
\* busy but left on the available list.
GetblkHitSteals(p) ==
    /\ cur = p /\ pc[p] = "getblk" /\ want[p] # Nodev
    /\ \E b \in Buf :
          /\ assoc[b] = want[p]
          /\ flags' = [flags EXCEPT ![b] = @ \cup {"BUSY"}]
          /\ freelist' = IF b \in Elems(freelist) THEN Unlink(freelist, b) ELSE freelist
          /\ bp' = [bp EXCEPT ![p] = b]
    /\ pc' = [pc EXCEPT ![p] = ret[p]]
    /\ UNCHANGED <<assoc, freeWanted, wchan, data, devvars, disk, cur,
                   argvars, rbp, arg, execnt>>
GetblkHitListed(p) ==
    /\ cur = p /\ pc[p] = "getblk" /\ want[p] # Nodev
    /\ \E b \in Buf :
          /\ assoc[b] = want[p]
          /\ "BUSY" \notin flags[b]
          /\ flags' = [flags EXCEPT ![b] = @ \cup {"BUSY"}]
          /\ bp' = [bp EXCEPT ![p] = b]
    /\ pc' = [pc EXCEPT ![p] = ret[p]]
    /\ UNCHANGED <<freelist, assoc, freeWanted, wchan, data, devvars, disk, cur,
                   argvars, rbp, arg, execnt>>

\* The block's buffer is available: notavail, and return it.
GetblkHit(p) ==
    /\ cur = p /\ pc[p] = "getblk" /\ want[p] # Nodev
    /\ \E b \in Buf :
          /\ assoc[b] = want[p]
          /\ "BUSY" \notin flags[b]
          /\ flags' = [flags EXCEPT ![b] = @ \cup {"BUSY"}]
          /\ freelist' = Unlink(freelist, b)
          /\ bp' = [bp EXCEPT ![p] = b]
    /\ pc' = [pc EXCEPT ![p] = ret[p]]
    /\ UNCHANGED <<assoc, freeWanted, wchan, data, devvars, disk, cur,
                   argvars, rbp, arg, execnt>>

\* No buffer has the block (never looked for when dev is NODEV).
Miss(p) == want[p] = Nodev \/ ~Incore(want[p])

\* Nothing available: sleep on the list, start over.
GetblkEmpty(p) ==
    /\ cur = p /\ pc[p] = "getblk" /\ Miss(p)
    /\ freelist = <<>>
    /\ freeWanted' = TRUE
    /\ Sleep(p, "bfreelist")
    /\ UNCHANGED <<flags, assoc, freelist, data, devvars, disk, pc, argvars,
                   ownvars, execnt>>

\* Mutant: the delayed write is dropped with the buffer that holds it.
GetblkDelwriSkips(p) ==
    /\ cur = p /\ pc[p] = "getblk" /\ Miss(p)
    /\ freelist # <<>>
    /\ "DELWRI" \in flags[Head(freelist)]
    /\ Brelse(Head(freelist), flags[Head(freelist)] \ {"DELWRI"}, Tail(freelist))
    /\ UNCHANGED <<data, disk, devvars, cur, pc, argvars, ownvars, execnt>>

\* The oldest buffer holds a delayed write: start writing it, start over.
GetblkDelwri(p) ==
    /\ cur = p /\ pc[p] = "getblk" /\ Miss(p)
    /\ freelist # <<>>
    /\ "DELWRI" \in flags[Head(freelist)]
    /\ BwriteStart(Head(freelist),
                   flags[Head(freelist)] \cup {"BUSY", "ASYNC"}, Tail(freelist))
    /\ UNCHANGED <<data, disk, cur, pc, argvars, ownvars, execnt>>

\* Mutant: after a sleep the search for the block is not made again.
GetblkReassignBlind(p) ==
    /\ cur = p /\ pc[p] = "getblk"
    /\ freelist # <<>>
    /\ LET b == Head(freelist)
       IN  /\ "DELWRI" \notin flags[b]
           /\ flags' = [flags EXCEPT ![b] = {"BUSY"}]
           /\ assoc' = [assoc EXCEPT ![b] = want[p]]
           /\ freelist' = Tail(freelist)
           /\ bp' = [bp EXCEPT ![p] = b]
    /\ pc' = [pc EXCEPT ![p] = ret[p]]
    /\ UNCHANGED <<freeWanted, wchan, data, devvars, disk, cur, argvars, rbp,
                   arg, execnt>>

\* The oldest buffer is clean: give it the block.
GetblkReassign(p) ==
    /\ cur = p /\ pc[p] = "getblk" /\ Miss(p)
    /\ freelist # <<>>
    /\ LET b == Head(freelist)
       IN  /\ "DELWRI" \notin flags[b]
           /\ flags' = [flags EXCEPT ![b] = {"BUSY"}]
           /\ assoc' = [assoc EXCEPT ![b] = want[p]]
           /\ freelist' = Tail(freelist)
           /\ bp' = [bp EXCEPT ![p] = b]
    /\ pc' = [pc EXCEPT ![p] = ret[p]]
    /\ UNCHANGED <<freeWanted, wchan, data, devvars, disk, cur, argvars, rbp,
                   arg, execnt>>

Getblk(p) == \/ GetblkBusy(p) \/ GetblkHit(p) \/ GetblkEmpty(p)
             \/ GetblkDelwri(p) \/ GetblkReassign(p)

-----------------------------------------------------------------------------
(* Starting and finishing an operation. *)

\* p may start a buffer operation: from user mode, or from within exec.
CanBegin(p) == \/ pc[p] = "user" /\ cur = NoProc
               \/ pc[p] = "inexec" /\ cur = p

\* Where p goes when the operation is over; its local variables are gone.
Finish(p) ==
    /\ IF arg[p] = NoBuf
       THEN pc' = [pc EXCEPT ![p] = "user"] /\ cur' = NoProc
       ELSE pc' = [pc EXCEPT ![p] = "inexec"] /\ UNCHANGED cur
    /\ want' = [want EXCEPT ![p] = Nodev]
    /\ ret' = [ret EXCEPT ![p] = "bread"]
    /\ blkno' = [blkno EXCEPT ![p] = Nodev]
    /\ rablkno' = [rablkno EXCEPT ![p] = Nodev]

\* Enter getblk(k), returning to r.
CallGetblk(p, k, r) ==
    /\ want' = [want EXCEPT ![p] = k]
    /\ ret' = [ret EXCEPT ![p] = r]
    /\ pc' = [pc EXCEPT ![p] = "getblk"]

\* A call of bread (readi, iget, iupdat ...) or of getblk for a block that
\* will be overwritten (writei, free, update).
BeginGetblk(p, k, r) ==
    /\ CanBegin(p)
    /\ cur' = p
    /\ CallGetblk(p, k, r)
    /\ UNCHANGED <<bufvars, data, devvars, disk, ownvars, blkno, rablkno, execnt>>

\* A call of breada (readi); no read-ahead when r is Nodev.
BeginBreada(p, k, r) ==
    /\ CanBegin(p)
    /\ cur' = p
    /\ blkno' = [blkno EXCEPT ![p] = k]
    /\ rablkno' = [rablkno EXCEPT ![p] = r]
    /\ pc' = [pc EXCEPT ![p] = "breada"]
    /\ UNCHANGED <<bufvars, data, devvars, disk, ownvars, want, ret, execnt>>

\* The scheduler lets an awakened process go on.
Dispatch(p) ==
    /\ cur = NoProc /\ wchan[p] = Awake /\ pc[p] # "user"
    /\ cur' = p
    /\ UNCHANGED <<bufvars, data, devvars, disk, pc, argvars, ownvars, execnt>>

-----------------------------------------------------------------------------
(* bread, breada, iowait. *)

\* bread with the buffer in hand: read the block unless it is there already.
Bread(p) ==
    /\ cur = p /\ pc[p] = "bread"
    /\ IF "DONE" \in flags[bp[p]]
       THEN pc' = [pc EXCEPT ![p] = "held"] /\ UNCHANGED <<bufvars, devvars>>
       ELSE /\ Rkstrategy(bp[p], flags[bp[p]] \cup {"READ"}, freelist)
            /\ pc' = [pc EXCEPT ![p] = "iowait"]
    /\ UNCHANGED <<data, disk, cur, argvars, ownvars, execnt>>

\* Mutant of iowait: it does not look at B_DONE again after a wakeup.
IowaitOnce(p) ==
    /\ cur = p /\ pc[p] = "iowait"
    /\ pc' = [pc EXCEPT ![p] = "held"]
    /\ UNCHANGED <<bufvars, data, devvars, disk, cur, argvars, ownvars, execnt>>

\* iowait at the end of bread or breada.
Iowait(p) ==
    /\ cur = p /\ pc[p] = "iowait"
    /\ IF "DONE" \in flags[bp[p]]
       THEN /\ pc' = [pc EXCEPT ![p] = "held"]
            /\ UNCHANGED <<wchan, cur>>
       ELSE Sleep(p, bp[p]) /\ UNCHANGED pc
    /\ UNCHANGED <<flags, assoc, freelist, freeWanted, data, devvars, disk,
                   argvars, ownvars, execnt>>

\* breada: ask for the block itself unless it is in core.
Breada(p) ==
    /\ cur = p /\ pc[p] = "breada"
    /\ IF Incore(blkno[p])
       THEN pc' = [pc EXCEPT ![p] = "ahead"] /\ UNCHANGED <<want, ret>>
       ELSE CallGetblk(p, blkno[p], "breada1")
    /\ UNCHANGED <<bufvars, data, devvars, disk, cur, blkno, rablkno, ownvars,
                   execnt>>

\* breada: start reading the block.
Breada1(p) ==
    /\ cur = p /\ pc[p] = "breada1"
    /\ IF "DONE" \in flags[bp[p]]
       THEN UNCHANGED <<bufvars, devvars>>
       ELSE Rkstrategy(bp[p], flags[bp[p]] \cup {"READ"}, freelist)
    /\ rbp' = [rbp EXCEPT ![p] = bp[p]]
    /\ bp' = [bp EXCEPT ![p] = NoBuf]
    /\ pc' = [pc EXCEPT ![p] = "ahead"]
    /\ UNCHANGED <<data, disk, cur, argvars, arg, execnt>>

\* breada: ask for the read-ahead block unless it is in core.
Ahead(p) ==
    /\ cur = p /\ pc[p] = "ahead"
    /\ IF rablkno[p] = Nodev \/ Incore(rablkno[p])
       THEN pc' = [pc EXCEPT ![p] = "main"] /\ UNCHANGED <<want, ret>>
       ELSE CallGetblk(p, rablkno[p], "breada2")
    /\ UNCHANGED <<bufvars, data, devvars, disk, cur, blkno, rablkno, ownvars,
                   execnt>>

\* breada: start the read-ahead, which nobody waits for.
Breada2(p) ==
    /\ cur = p /\ pc[p] = "breada2"
    /\ IF "DONE" \in flags[bp[p]]
       THEN Brelse(bp[p], flags[bp[p]], freelist) /\ UNCHANGED devvars
       ELSE Rkstrategy(bp[p], flags[bp[p]] \cup {"READ", "ASYNC"}, freelist)
    /\ bp' = [bp EXCEPT ![p] = NoBuf]
    /\ pc' = [pc EXCEPT ![p] = "main"]
    /\ UNCHANGED <<data, disk, cur, argvars, rbp, arg, execnt>>

\* breada: wait for the block, or bread it when it was in core before.
BreadaMain(p) ==
    /\ cur = p /\ pc[p] = "main"
    /\ IF rbp[p] = NoBuf
       THEN CallGetblk(p, blkno[p], "bread") /\ UNCHANGED <<bp, rbp>>
       ELSE /\ bp' = [bp EXCEPT ![p] = rbp[p]]
            /\ rbp' = [rbp EXCEPT ![p] = NoBuf]
            /\ pc' = [pc EXCEPT ![p] = "iowait"]
            /\ UNCHANGED <<want, ret>>
    /\ UNCHANGED <<bufvars, data, devvars, disk, cur, blkno, rablkno, arg, execnt>>

-----------------------------------------------------------------------------
(* What the callers do with a buffer, and how they give it back. *)

\* iomove into a block just read (unless it could not be read), or into the
\* whole of one got by getblk.
Modify(p, v) ==
    /\ cur = p
    /\ \/ pc[p] = "held" /\ "ERROR" \notin flags[bp[p]]
       \/ pc[p] = "fill"
    /\ data' = [data EXCEPT ![bp[p]] = v]
    /\ pc' = [pc EXCEPT ![p] = "dirty"]
    /\ UNCHANGED <<bufvars, devvars, disk, cur, argvars, ownvars, execnt>>

\* brelse after a read.
ReleaseClean(p) ==
    /\ cur = p /\ pc[p] = "held"
    /\ Brelse(bp[p], flags[bp[p]], freelist)
    /\ bp' = [bp EXCEPT ![p] = NoBuf]
    /\ Finish(p)
    /\ UNCHANGED <<data, devvars, disk, rbp, arg, execnt>>

\* bwrite: start the write; the process keeps the buffer until it is done.
Bwrite(p) ==
    /\ cur = p /\ pc[p] = "dirty"
    /\ BwriteStart(bp[p], flags[bp[p]], freelist)
    /\ pc' = [pc EXCEPT ![p] = "bwait"]
    /\ UNCHANGED <<data, disk, cur, argvars, ownvars, execnt>>

\* bwrite: iowait, then brelse.
BwriteWait(p) ==
    /\ cur = p /\ pc[p] = "bwait"
    /\ IF "DONE" \in flags[bp[p]]
       THEN /\ Brelse(bp[p], flags[bp[p]], freelist)
            /\ bp' = [bp EXCEPT ![p] = NoBuf]
            /\ Finish(p)
       ELSE /\ Sleep(p, bp[p])
            /\ UNCHANGED <<flags, assoc, freelist, freeWanted, bp, pc, argvars>>
    /\ UNCHANGED <<data, devvars, disk, rbp, arg, execnt>>

\* bawrite: start the write; the interrupt releases the buffer.
Bawrite(p) ==
    /\ cur = p /\ pc[p] = "dirty"
    /\ BwriteStart(bp[p], flags[bp[p]] \cup {"ASYNC"}, freelist)
    /\ bp' = [bp EXCEPT ![p] = NoBuf]
    /\ Finish(p)
    /\ UNCHANGED <<data, disk, rbp, arg, execnt>>

\* bdwrite; never used for a block beyond the device, whose read failed.
Bdwrite(p) ==
    /\ cur = p /\ pc[p] \in {"dirty", "dwrite"} /\ assoc[bp[p]] \in Blk
    /\ Brelse(bp[p], flags[bp[p]] \cup {"DELWRI", "DONE"}, freelist)
    /\ bp' = [bp EXCEPT ![p] = NoBuf]
    /\ Finish(p)
    /\ UNCHANGED <<data, devvars, disk, rbp, arg, execnt>>

-----------------------------------------------------------------------------
(* bmap with an indirect block in hand: alloc a block, note it, write both. *)

\* The buffers a process has in hand.
Held(p) == {bp[p], rbp[p], arg[p]} \ {NoBuf}

\* bmap calls alloc, which gets the buffer of a free block: one no process
\* has in hand or asks for, though its last write may still be under way.
BmapAlloc(p, k) ==
    /\ cur = p /\ pc[p] = "held" /\ "ERROR" \notin flags[bp[p]] /\ arg[p] = NoBuf
    /\ \A q \in Proc : k # want[q] /\ \A b \in Held(q) : assoc[b] # k
    /\ rbp' = [rbp EXCEPT ![p] = bp[p]]
    /\ bp' = [bp EXCEPT ![p] = NoBuf]
    /\ CallGetblk(p, k, "alloc")
    /\ UNCHANGED <<bufvars, data, devvars, disk, cur, blkno, rablkno, arg, execnt>>

\* alloc: clrbuf.
AllocClrbuf(p) ==
    /\ cur = p /\ pc[p] = "alloc"
    /\ data' = [data EXCEPT ![bp[p]] = Zero]
    /\ pc' = [pc EXCEPT ![p] = "ind"]
    /\ UNCHANGED <<bufvars, devvars, disk, cur, argvars, ownvars, execnt>>

\* bmap: the new block's number goes into the indirect block.
BmapIndirect(p, v) ==
    /\ cur = p /\ pc[p] = "ind"
    /\ data' = [data EXCEPT ![rbp[p]] = v]
    /\ pc' = [pc EXCEPT ![p] = "nbdw"]
    /\ UNCHANGED <<bufvars, devvars, disk, cur, argvars, ownvars, execnt>>

\* Mutant: the new block is released, not written.
BmapBdwriteDrops(p) ==
    /\ cur = p /\ pc[p] = "nbdw"
    /\ Brelse(bp[p], flags[bp[p]], freelist)
    /\ bp' = [bp EXCEPT ![p] = rbp[p]]
    /\ rbp' = [rbp EXCEPT ![p] = NoBuf]
    /\ pc' = [pc EXCEPT ![p] = "dwrite"]
    /\ UNCHANGED <<data, devvars, disk, cur, argvars, arg, execnt>>

\* bmap: bdwrite the new block; Bdwrite then does the indirect block.
BmapBdwrite(p) ==
    /\ cur = p /\ pc[p] = "nbdw"
    /\ Brelse(bp[p], flags[bp[p]] \cup {"DELWRI", "DONE"}, freelist)
    /\ bp' = [bp EXCEPT ![p] = rbp[p]]
    /\ rbp' = [rbp EXCEPT ![p] = NoBuf]
    /\ pc' = [pc EXCEPT ![p] = "dwrite"]
    /\ UNCHANGED <<data, devvars, disk, cur, argvars, arg, execnt>>

-----------------------------------------------------------------------------
(* bflush, exec. *)

\* update and sumount call bflush.
BeginBflush(p) ==
    /\ pc[p] = "user" /\ cur = NoProc
    /\ cur' = p
    /\ pc' = [pc EXCEPT ![p] = "bflush"]
    /\ UNCHANGED <<bufvars, data, devvars, disk, argvars, ownvars, execnt>>

\* Positions of delayed writes on the available list.
Delayed == {i \in 1..Len(freelist) : "DELWRI" \in flags[freelist[i]]}

\* bflush: write the first delayed write on the list, scan from the start.
Bflush(p) ==
    /\ cur = p /\ pc[p] = "bflush"
    /\ \E i \in Delayed :
          /\ \A j \in Delayed : i <= j
          /\ BwriteStart(freelist[i], flags[freelist[i]] \cup {"BUSY", "ASYNC"},
                         Unlink(freelist, freelist[i]))
    /\ UNCHANGED <<data, disk, cur, pc, argvars, ownvars, execnt>>

\* bflush: no delayed write left on the list.
BflushEnd(p) ==
    /\ cur = p /\ pc[p] = "bflush"
    /\ Delayed = {}
    /\ Finish(p)
    /\ UNCHANGED <<bufvars, data, devvars, disk, ownvars, execnt>>

\* exec, after namei.
BeginExec(p) ==
    /\ pc[p] = "user" /\ cur = NoProc
    /\ cur' = p
    /\ pc' = [pc EXCEPT ![p] = "execwait"]
    /\ UNCHANGED <<bufvars, data, devvars, disk, argvars, ownvars, execnt>>

\* exec: wait for fewer than NEXEC, then get a buffer for the arguments.
ExecEnter(p) ==
    /\ cur = p /\ pc[p] = "execwait"
    /\ IF execnt >= NEXEC
       THEN /\ Sleep(p, "execnt")
            /\ UNCHANGED <<flags, assoc, freelist, freeWanted, pc, want, ret, execnt>>
       ELSE /\ execnt' = execnt + 1
            /\ CallGetblk(p, Nodev, "exec")
            /\ UNCHANGED <<bufvars, cur>>
    /\ UNCHANGED <<data, devvars, disk, blkno, rablkno, ownvars>>

\* exec: the arguments are packed into the buffer.
ExecArgs(p) ==
    /\ cur = p /\ pc[p] = "exec"
    /\ arg' = [arg EXCEPT ![p] = bp[p]]
    /\ bp' = [bp EXCEPT ![p] = NoBuf]
    /\ pc' = [pc EXCEPT ![p] = "inexec"]
    /\ UNCHANGED <<bufvars, data, devvars, disk, cur, argvars, rbp, execnt>>

\* exec from bad: on, the end of every exec: brelse, wakeup, execnt--.
ExecEnd(p) ==
    /\ cur = p /\ pc[p] = "inexec"
    /\ LET b == arg[p]
           f == flags[b]
       IN  /\ flags' = [flags EXCEPT ![b] = f \ {"WANTED", "BUSY", "ASYNC"}]
           /\ freelist' = Append(freelist, b)
           /\ freeWanted' = FALSE
           /\ Wakeup((IF "WANTED" \in f THEN {b} ELSE {})
                     \cup (IF freeWanted THEN {"bfreelist"} ELSE {})
                     \cup (IF execnt >= NEXEC THEN {"execnt"} ELSE {}))
    /\ arg' = [arg EXCEPT ![p] = NoBuf]
    /\ execnt' = execnt - 1
    /\ pc' = [pc EXCEPT ![p] = "user"] /\ cur' = NoProc
    /\ UNCHANGED <<assoc, data, devvars, disk, argvars, bp, rbp>>

-----------------------------------------------------------------------------
(* The disk. *)

\* ideintr, rkintr: store what was read, iodone, start the next request.
DiskIntr ==
    /\ io # NoIO
    /\ LET b == Head(queue)
           q == Tail(queue)
       IN  /\ IF io.read
              THEN /\ data' = [data EXCEPT ![io.buf] = disk[io.blk]]
                   /\ UNCHANGED disk
              ELSE /\ disk' = [disk EXCEPT ![io.blk] = io.val]
                   /\ UNCHANGED data
           /\ queue' = q
           /\ io' = IF q = <<>> THEN NoIO ELSE Devstart(Head(q), flags[Head(q)])
           /\ Iodone(b, flags[b], freelist)
    /\ UNCHANGED <<cur, pc, argvars, ownvars, execnt>>

-----------------------------------------------------------------------------
Init ==
    /\ flags = [b \in Buf |-> {}]
    /\ assoc = [b \in Buf |-> Nodev]
    /\ data = [b \in Buf |-> Zero]
    /\ freelist \in [1..Cardinality(Buf) -> Buf]
    /\ \A i, j \in 1..Len(freelist) : freelist[i] = freelist[j] => i = j
    /\ Elems(freelist) = Buf
    /\ freeWanted = FALSE
    /\ queue = <<>>
    /\ io = NoIO
    /\ disk \in [Blk -> Val]
    /\ cur = NoProc
    /\ wchan = [p \in Proc |-> Awake]
    /\ pc = [p \in Proc |-> "user"]
    /\ want = [p \in Proc |-> Nodev]
    /\ ret = [p \in Proc |-> "bread"]
    /\ bp = [p \in Proc |-> NoBuf]
    /\ rbp = [p \in Proc |-> NoBuf]
    /\ arg = [p \in Proc |-> NoBuf]
    /\ blkno = [p \in Proc |-> Nodev]
    /\ rablkno = [p \in Proc |-> Nodev]
    /\ execnt = 0

\* An operation begins; k ranges over all blocks, in range or not.
Begin(p) ==
    \/ "bread" \in Workload /\ \E k \in Block : BeginGetblk(p, k, "bread")
    \/ "getblk" \in Workload /\ \E k \in Block : BeginGetblk(p, k, "fill")
    \/ "breada" \in Workload
       /\ \E k \in Block, r \in Block \cup {Nodev} : BeginBreada(p, k, r)
    \/ "bflush" \in Workload /\ BeginBflush(p)
    \/ "exec" \in Workload /\ BeginExec(p)

\* A step of an operation under way, other than the end of exec.
Step(p) ==
    \/ Getblk(p)
    \/ Bread(p) \/ Iowait(p)
    \/ Breada(p) \/ Breada1(p) \/ Ahead(p) \/ Breada2(p) \/ BreadaMain(p)
    \/ \E v \in Val : Modify(p, v)
    \/ ReleaseClean(p) \/ Bwrite(p) \/ BwriteWait(p) \/ Bawrite(p) \/ Bdwrite(p)
    \/ "bmap" \in Workload /\ \E k \in Blk : BmapAlloc(p, k)
    \/ AllocClrbuf(p) \/ (\E v \in Val : BmapIndirect(p, v)) \/ BmapBdwrite(p)
    \/ Bflush(p) \/ BflushEnd(p)
    \/ ExecEnter(p) \/ ExecArgs(p)

Next ==
    \/ \E p \in Proc : Begin(p) \/ Dispatch(p) \/ Step(p) \/ ExecEnd(p)
    \/ DiskIntr

Spec == Init /\ [][Next]_vars

\* The disk answers; the process in the kernel goes on; swtch does not pass
\* over a ready process for ever; the file exec reads is finite.
Fairness ==
    /\ WF_vars(DiskIntr)
    /\ \A p \in Proc : /\ WF_vars(Step(p))
                       /\ SF_vars(Dispatch(p))
                       /\ SF_vars(ExecEnd(p))

FairSpec == Spec /\ Fairness

-----------------------------------------------------------------------------
(* Properties. *)

\* Every variable stays in its range.
TypeOK ==
    /\ flags \in [Buf -> SUBSET Flags]
    /\ assoc \in [Buf -> Block \cup {Nodev}]
    /\ data \in [Buf -> Val]
    /\ freelist \in Seq(Buf)
    /\ freeWanted \in BOOLEAN
    /\ queue \in Seq(Buf)
    /\ io \in Transfer \cup {NoIO}
    /\ disk \in [Blk -> Val]
    /\ cur \in Proc \cup {NoProc}
    /\ wchan \in [Proc -> Buf \cup {Awake, "bfreelist", "execnt"}]
    /\ pc \in [Proc -> Pc]
    /\ want \in [Proc -> Block \cup {Nodev}]
    /\ ret \in [Proc -> GetblkRet]
    /\ bp \in [Proc -> Buf \cup {NoBuf}]
    /\ rbp \in [Proc -> Buf \cup {NoBuf}]
    /\ arg \in [Proc -> Buf \cup {NoBuf}]
    /\ blkno \in [Proc -> Block \cup {Nodev}]
    /\ rablkno \in [Proc -> Block \cup {Nodev}]
    /\ execnt \in Int

\* buf.h: a buffer is on the available list if and only if it is not BUSY,
\* and it is there once.
AvailIffNotBusy ==
    /\ \A i, j \in 1..Len(freelist) : freelist[i] = freelist[j] => i = j
    /\ \A b \in Buf : b \in Elems(freelist) <=> "BUSY" \notin flags[b]

\* A block never has two buffers, though getblk may sleep between looking for
\* one and taking one.
OneBufferPerBlock ==
    \A a, b \in Buf : assoc[a] = assoc[b] /\ assoc[a] # Nodev => a = b

Busy(b) == "BUSY" \in flags[b]

\* bio.c: the buffer is marked "busy" so that no one else can touch it.  A busy
\* buffer has one owner: one process, or the driver until its interrupt.
OneOwner ==
    /\ \A p, q \in Proc : p # q => Held(p) \cap Held(q) = {}
    /\ \A p \in Proc : /\ bp[p] # NoBuf => bp[p] \notin {rbp[p], arg[p]}
                       /\ rbp[p] # NoBuf => rbp[p] # arg[p]
    /\ \A b \in Buf :
          Busy(b) <=> \/ \E p \in Proc : b \in Held(p)
                      \/ b \in Elems(queue) /\ "ASYNC" \in flags[b]

\* Nobody sleeps for something that will not be signalled: on a buffer only
\* while it is busy and its release or the end of its transfer wakes them, on
\* the list only while it is empty, on execnt only while exec is full.
NoLostWakeup ==
    \A p \in Proc :
        /\ wchan[p] \in Buf =>
              /\ Busy(wchan[p])
              /\ \/ "WANTED" \in flags[wchan[p]]
                 \/ /\ wchan[p] \in Elems(queue)
                    /\ "ASYNC" \notin flags[wchan[p]]
        /\ wchan[p] = "bfreelist" => freelist = <<>> /\ freeWanted
        /\ wchan[p] = "execnt" => execnt >= NEXEC

\* A process with a block in hand after bread has the block's contents: the
\* read is over, and it is the block it asked for.
ReadIsComplete ==
    \A p \in Proc : pc[p] = "held" =>
        /\ "DONE" \in flags[bp[p]]
        /\ bp[p] \notin Elems(queue)
        /\ assoc[bp[p]] = IF blkno[p] = Nodev THEN want[p] ELSE blkno[p]

\* sleep and wakeup in bio.c: nobody sleeps for what has happened, and nobody
\* goes on before it has.
WaitsAreRight == NoLostWakeup /\ ReadIsComplete

\* Somebody can always go on: every process asleep is not a state with no
\* transfer under way.
NoDeadlyEmbrace ==
    (\A p \in Proc : wchan[p] # Awake) => io # NoIO

\* Every sleep on a buffer, on the list or on execnt ends.
SleepersWake == \A p \in Proc : wchan[p] # Awake ~> wchan[p] = Awake

-----------------------------------------------------------------------------
(* What the cache promises (BlockStore): a block has one contents, which only *)
(* the process that has the block in hand changes.                            *)

\* The buffer has the contents of its block: read or written, on its way to
\* the disk, or just filled by the process that has it.
Valid(b) ==
    \/ "DONE" \in flags[b]
    \/ b \in Elems(queue) /\ "READ" \notin flags[b]
    \/ \E p \in Proc : bp[p] = b /\ pc[p] \in {"dirty", "ind", "nbdw"}

Contents(k) ==
    IF \E b \in Buf : assoc[b] = k /\ Valid(b)
    THEN data[CHOOSE b \in Buf : assoc[b] = k /\ Valid(b)]
    ELSE disk[k]

Holder(k) ==
    IF \E p \in Proc : \E b \in Held(p) : assoc[b] = k
    THEN CHOOSE p \in Proc : \E b \in Held(p) : assoc[b] = k
    ELSE NoProc

Writing(p) == /\ pc[p] \in {"dirty", "bwait", "ind", "nbdw", "dwrite"}
              /\ assoc[bp[p]] \in Blk

Store == INSTANCE BlockStore WITH
            store <- [k \in Blk |-> Contents(k)],
            holder <- [k \in Blk |-> Holder(k)],
            writing <- [p \in Proc |-> Writing(p)]

\* The cache implements the block store.
ImplementsStore == Store!Spec
=============================================================================
