--------------------------- MODULE BufCacheProofs ---------------------------
(***************************************************************************)
(* Proofs about the buffer cache, for any number of processes, buffers and *)
(* blocks and any workload.                                                *)
(***************************************************************************)
EXTENDS BufCache, FiniteSetTheorems, TLAPS

-----------------------------------------------------------------------------
(* Lists. *)

Distinct(s) == \A i, j \in 1..Len(s) : s[i] = s[j] => i = j

\* The elements of a list belong to the set the list is over.
LEMMA ElemsIn ==
    ASSUME NEW S, NEW s \in Seq(S)
    PROVE  Elems(s) \subseteq S
BY DEF Elems

\* Appending an element that is not on a list.
LEMMA AppendElems ==
    ASSUME NEW S, NEW s \in Seq(S), NEW b \in S
    PROVE  /\ Append(s, b) \in Seq(S)
           /\ Elems(Append(s, b)) = Elems(s) \cup {b}
           /\ Distinct(s) /\ b \notin Elems(s) => Distinct(Append(s, b))
BY DEF Elems, Distinct

\* Taking the first element off a list.
LEMMA TailElems ==
    ASSUME NEW S, NEW s \in Seq(S), s # <<>>
    PROVE  /\ Head(s) \in S
           /\ Head(s) \in Elems(s)
           /\ Tail(s) \in Seq(S)
           /\ Distinct(s) => /\ Elems(Tail(s)) = Elems(s) \ {Head(s)}
                             /\ Distinct(Tail(s))
BY DEF Elems, Distinct

\* Taking any element off a list.
LEMMA UnlinkElems ==
    ASSUME NEW S, NEW s \in Seq(S), NEW b \in Elems(s), Distinct(s)
    PROVE  /\ Unlink(s, b) \in Seq(S)
           /\ Elems(Unlink(s, b)) = Elems(s) \ {b}
           /\ Distinct(Unlink(s, b))
<1> DEFINE i == CHOOSE k \in 1..Len(s) : s[k] = b
           t == Unlink(s, b)
<1>1. i \in 1..Len(s) /\ s[i] = b
  BY DEF Elems
<1>2. /\ Len(s) \in Nat
      /\ \A j \in 1..Len(s) : s[j] \in S
  OBVIOUS
<1>3. t = [j \in 1..(Len(s) - 1) |-> IF j < i THEN s[j] ELSE s[j + 1]]
  BY DEF Unlink
<1> HIDE DEF i, t
<1>4. t \in Seq(S) /\ Len(t) = Len(s) - 1
  <2>1. t \in [1..(Len(s) - 1) -> S]
    BY <1>1, <1>2, <1>3
  <2> QED
    BY <1>1, <1>2, <2>1
<1>5. \A j \in 1..Len(t) : t[j] \in Elems(s) \ {b}
  BY <1>1, <1>2, <1>3, <1>4 DEF Elems, Distinct
<1>6. \A j \in 1..Len(s) : s[j] # b => \E k \in 1..Len(t) : t[k] = s[j]
  <2>1. SUFFICES ASSUME NEW j \in 1..Len(s), s[j] # b
                 PROVE  \E k \in 1..Len(t) : t[k] = s[j]
    OBVIOUS
  <2>2. CASE j < i
    BY <1>1, <1>2, <1>3, <1>4, <2>1, <2>2
  <2>3. CASE i < j
    <3>1. j - 1 \in 1..Len(t) /\ t[j - 1] = s[j]
      BY <1>1, <1>2, <1>3, <1>4, <2>3
    <3> QED
      BY <3>1
  <2> QED
    BY <1>1, <1>2, <2>1, <2>2, <2>3
<1>7. Elems(t) = Elems(s) \ {b}
  BY <1>5, <1>6 DEF Elems
<1>8. Distinct(t)
  BY <1>1, <1>2, <1>3, <1>4 DEF Distinct
<1> QED
  BY <1>4, <1>7, <1>8 DEF t

-----------------------------------------------------------------------------
(* The inductive invariant. *)

\* The pcs at which getblk's buffer is in hand, and those of them at which it
\* may be under transfer.
InHand == GetblkRet \cup {"iowait", "held", "dirty", "bwait", "ind", "nbdw", "dwrite"}
InTransfer == {"iowait", "bwait"}

\* p is in bmap, between asking for the new block and releasing it.
InBmap(p) == \/ pc[p] \in {"alloc", "ind", "nbdw"}
             \/ pc[p] = "getblk" /\ ret[p] = "alloc"

\* p may be in breada, between starting on the block and waiting for it.
InBreada(p) == \/ pc[p] \in {"ahead", "main", "breada2"}
               \/ pc[p] = "getblk" /\ ret[p] = "breada2"

\* The lists.  A buffer is available iff it is not busy; what is queued for
\* the disk is busy, is not done and has a block; io is the head of the queue.
ListInv ==
    /\ Distinct(freelist) /\ Distinct(queue)
    /\ \A b \in Buf : b \in Elems(freelist) <=> "BUSY" \notin flags[b]
    /\ \A b \in Elems(queue) :
          "BUSY" \in flags[b] /\ "DONE" \notin flags[b] /\ assoc[b] \in Blk
    /\ io = NoIO <=> queue = <<>>

\* The flags.  Asynchronous buffers are the driver's; a delayed write is for a
\* block of the device; an error is for one that is not.
FlagInv ==
    \A b \in Buf :
        /\ "ASYNC" \in flags[b] => b \in Elems(queue)
        /\ "DELWRI" \in flags[b] => assoc[b] \in Blk
        /\ "ERROR" \in flags[b] => assoc[b] \notin Blk

\* Ownership: what a process has in hand is busy and not the driver's, and two
\* processes, or two hands of one, never have the same buffer.
OwnInv ==
    /\ \A p \in Proc : \A b \in Held(p) : "BUSY" \in flags[b] /\ "ASYNC" \notin flags[b]
    /\ \A b \in Buf : "BUSY" \in flags[b] =>
          "ASYNC" \in flags[b] \/ \E p \in Proc : b \in Held(p)
    /\ \A p, q \in Proc : p # q => Held(p) \cap Held(q) = {}
    /\ \A p \in Proc : /\ bp[p] # NoBuf => bp[p] # rbp[p] /\ bp[p] # arg[p]
                       /\ rbp[p] # NoBuf => rbp[p] # arg[p]

\* What a process has in hand, by where it is.
ProcInv(p) ==
    /\ bp[p] # NoBuf <=> pc[p] \in InHand
    /\ rbp[p] # NoBuf => InBmap(p) \/ InBreada(p)
    /\ InBmap(p) => /\ rbp[p] # NoBuf /\ rbp[p] \notin Elems(queue)
                    /\ arg[p] = NoBuf /\ want[p] \in Blk
    /\ arg[p] # NoBuf => pc[p] \notin {"user", "execwait", "bflush", "exec"}
    /\ pc[p] = "getblk" /\ ret[p] = "exec" => arg[p] = NoBuf
    /\ pc[p] = "inexec" => arg[p] # NoBuf
    /\ arg[p] \notin Elems(queue)
    /\ pc[p] \in InHand \ InTransfer => bp[p] \notin Elems(queue)
    /\ pc[p] \in InHand \ {"exec"} => assoc[bp[p]] # Nodev
    /\ pc[p] \in {"alloc", "ind", "nbdw"} => assoc[bp[p]] \in Blk
    /\ pc[p] \in {"getblk"} \cup GetblkRet /\ ret[p] # "exec" => want[p] # Nodev
    /\ pc[p] \in GetblkRet => pc[p] = ret[p] /\ assoc[bp[p]] = want[p]
    /\ rbp[p] # NoBuf => assoc[rbp[p]] # Nodev
    /\ pc[p] \in {"breada", "ahead", "main", "breada1", "breada2"} => blkno[p] # Nodev
    /\ pc[p] = "getblk" /\ ret[p] \in {"breada1", "breada2"} => blkno[p] # Nodev
    /\ pc[p] = "held" => "DONE" \in flags[bp[p]]

Inv == /\ TypeOK
       /\ ListInv
       /\ FlagInv
       /\ OwnInv
       /\ OneBufferPerBlock
       /\ \A p \in Proc : ProcInv(p)

-----------------------------------------------------------------------------
(* What the routines of bio.c and rk.c do to the lists and the flags. *)

Chan == Buf \cup {Awake, "bfreelist", "execnt"}

\* wakeup leaves every process on a channel, or awake.
LEMMA WakeupType ==
    ASSUME wchan \in [Proc -> Chan], NEW C, Wakeup(C)
    PROVE  wchan' \in [Proc -> Chan]
BY DEF Wakeup, Chan

\* brelse puts the buffer on the available list and clears B_BUSY.
LEMMA BrelseEffect ==
    ASSUME TypeOK, NEW b \in Buf, NEW f \in SUBSET Flags, NEW fl \in Seq(Buf),
           Brelse(b, f, fl)
    PROVE  /\ flags' = [flags EXCEPT ![b] = f \ {"WANTED", "BUSY", "ASYNC"}]
           /\ flags' \in [Buf -> SUBSET Flags]
           /\ assoc' = [assoc EXCEPT ![b] = IF "ERROR" \in f THEN Nodev ELSE @]
           /\ assoc' \in [Buf -> Block \cup {Nodev}]
           /\ freelist' \in Seq(Buf)
           /\ Elems(freelist') = Elems(fl) \cup {b}
           /\ Distinct(fl) /\ b \notin Elems(fl) => Distinct(freelist')
           /\ freeWanted' \in BOOLEAN
           /\ wchan' \in [Proc -> Chan]
<1>1. wchan' \in [Proc -> Chan]
  BY WakeupType DEF Brelse, TypeOK, Chan
<1>2. /\ freelist' \in Seq(Buf)
      /\ Elems(freelist') = Elems(fl) \cup {b}
      /\ Distinct(fl) /\ b \notin Elems(fl) => Distinct(freelist')
  BY AppendElems DEF Brelse
<1>3. /\ flags' = [flags EXCEPT ![b] = f \ {"WANTED", "BUSY", "ASYNC"}]
      /\ flags' \in [Buf -> SUBSET Flags]
  BY DEF Brelse, TypeOK
<1>4. /\ assoc' = [assoc EXCEPT ![b] = IF "ERROR" \in f THEN Nodev ELSE @]
      /\ assoc' \in [Buf -> Block \cup {Nodev}]
      /\ freeWanted' \in BOOLEAN
  BY DEF Brelse, TypeOK
<1> QED
  BY <1>1, <1>2, <1>3, <1>4

\* iodone releases an asynchronous buffer; another stays with its owner, done.
LEMMA IodoneEffect ==
    ASSUME TypeOK, NEW b \in Buf, NEW f \in SUBSET Flags, NEW fl \in Seq(Buf),
           Iodone(b, f, fl)
    PROVE  /\ flags' \in [Buf -> SUBSET Flags]
           /\ assoc' \in [Buf -> Block \cup {Nodev}]
           /\ freelist' \in Seq(Buf)
           /\ freeWanted' \in BOOLEAN
           /\ wchan' \in [Proc -> Chan]
           /\ "ASYNC" \in f =>
                /\ flags' = [flags EXCEPT ![b] =
                                (f \cup {"DONE"}) \ {"WANTED", "BUSY", "ASYNC"}]
                /\ assoc' = [assoc EXCEPT ![b] = IF "ERROR" \in f THEN Nodev ELSE @]
                /\ Elems(freelist') = Elems(fl) \cup {b}
                /\ Distinct(fl) /\ b \notin Elems(fl) => Distinct(freelist')
           /\ "ASYNC" \notin f =>
                /\ flags' = [flags EXCEPT ![b] = (f \cup {"DONE"}) \ {"WANTED"}]
                /\ assoc' = assoc
                /\ freelist' = fl
<1>0. f \cup {"DONE"} \in SUBSET Flags
  BY DEF Flags
<1>1. CASE "ASYNC" \in f
  <2>1. Brelse(b, f \cup {"DONE"}, fl)
    BY <1>1 DEF Iodone
  <2>2. "ERROR" \in f \cup {"DONE"} <=> "ERROR" \in f
    OBVIOUS
  <2> QED
    BY <1>0, <1>1, <2>1, <2>2, BrelseEffect
<1>2. CASE "ASYNC" \notin f
  <2>1. wchan' \in [Proc -> Chan]
    BY <1>2, WakeupType DEF Iodone, TypeOK, Chan
  <2>2. flags' \in [Buf -> SUBSET Flags]
    BY ZenonT(40), <1>0, <1>2 DEF Iodone, TypeOK
  <2> QED
    BY <1>2, <2>1, <2>2 DEF Iodone, TypeOK
<1> QED
  BY <1>1, <1>2

\* rkstrategy queues a block of the device, starting the disk if it is idle,
\* and completes any other with an error.
LEMMA RkstrategyEffect ==
    ASSUME TypeOK, NEW b \in Buf, NEW f \in SUBSET Flags, NEW fl \in Seq(Buf),
           assoc[b] # Nodev, Rkstrategy(b, f, fl)
    PROVE  /\ assoc[b] \in BadBlk =>
                Iodone(b, f \cup {"ERROR"}, fl) /\ queue' = queue /\ io' = io
           /\ assoc[b] \notin BadBlk =>
                /\ assoc[b] \in Blk
                /\ flags' = [flags EXCEPT ![b] = f]
                /\ flags' \in [Buf -> SUBSET Flags]
                /\ freelist' = fl
                /\ queue' \in Seq(Buf) /\ queue' # <<>>
                /\ Elems(queue') = Elems(queue) \cup {b}
                /\ Distinct(queue) /\ b \notin Elems(queue) => Distinct(queue')
                /\ io' \in Transfer
                /\ assoc' = assoc /\ freeWanted' = freeWanted /\ wchan' = wchan
<1>1. CASE assoc[b] \in BadBlk
  BY <1>1 DEF Rkstrategy, devvars
<1>2. CASE assoc[b] \notin BadBlk
  <2>1. assoc[b] \in Blk
    BY <1>2 DEF TypeOK, Block
  <2>2. /\ flags' = [flags EXCEPT ![b] = f]
        /\ freelist' = fl
        /\ queue' = Append(queue, b)
        /\ io' = IF io = NoIO THEN Devstart(b, f) ELSE io
        /\ assoc' = assoc /\ freeWanted' = freeWanted /\ wchan' = wchan
    BY <1>2 DEF Rkstrategy
  <2>3. flags' \in [Buf -> SUBSET Flags]
    BY <2>2 DEF TypeOK
  <2>4. /\ queue' \in Seq(Buf) /\ queue' # <<>>
        /\ Elems(queue') = Elems(queue) \cup {b}
        /\ Distinct(queue) /\ b \notin Elems(queue) => Distinct(queue')
    BY <2>2, AppendElems DEF TypeOK
  <2>5. Devstart(b, f) \in Transfer
    BY <2>1 DEF Devstart, Transfer, TypeOK
  <2>6. io' \in Transfer
    BY <2>2, <2>5 DEF TypeOK
  <2> QED
    BY <1>2, <2>1, <2>2, <2>3, <2>4, <2>6
<1> QED
  BY <1>1, <1>2
-----------------------------------------------------------------------------
(* Frames. *)

Shared == <<flags, assoc, freelist, queue, io>>

\* A step that changes no buffer, list or hand.
LEMMA QuietFrame ==
    ASSUME Inv, Shared' = Shared, ownvars' = ownvars
    PROVE  ListInv' /\ FlagInv' /\ OwnInv' /\ OneBufferPerBlock'
BY DEF Inv, Shared, ownvars, ListInv, FlagInv, OwnInv, OneBufferPerBlock, Held

\* A process that does not move keeps its part of the invariant when what it
\* has in hand keeps its block, is not queued and does not lose B_DONE.
LEMMA OtherFrame ==
    ASSUME Inv, NEW q \in Proc,
           pc'[q] = pc[q], ret'[q] = ret[q], want'[q] = want[q], blkno'[q] = blkno[q],
           bp'[q] = bp[q], rbp'[q] = rbp[q], arg'[q] = arg[q],
           \A b \in Held(q) : /\ b \in Elems(queue') => b \in Elems(queue)
                              /\ assoc'[b] = assoc[b]
                              /\ "DONE" \in flags[b] => "DONE" \in flags'[b],
           NoBuf \notin Elems(queue')
    PROVE  ProcInv(q)'
<1>1. ProcInv(q) /\ pc[q] \in Pc
  BY DEF Inv, TypeOK
<1>2. /\ InBmap(q)' <=> InBmap(q)
      /\ InBreada(q)' <=> InBreada(q)
  BY DEF InBmap, InBreada
<1>3. bp[q] # NoBuf => /\ bp[q] \in Elems(queue') => bp[q] \in Elems(queue)
                       /\ assoc'[bp[q]] = assoc[bp[q]]
                       /\ "DONE" \in flags[bp[q]] => "DONE" \in flags'[bp[q]]
  BY DEF Held
<1>4. rbp[q] # NoBuf => /\ rbp[q] \in Elems(queue') => rbp[q] \in Elems(queue)
                        /\ assoc'[rbp[q]] = assoc[rbp[q]]
  BY DEF Held
<1>5. arg[q] \in Elems(queue') => arg[q] \in Elems(queue)
  BY DEF Held
<1>6. InTransfer \subseteq InHand /\ GetblkRet \subseteq InHand
      /\ {"alloc", "ind", "nbdw", "held"} \subseteq InHand
  BY DEF InTransfer, InHand, GetblkRet
<1> QED
  BY <1>1, <1>2, <1>3, <1>4, <1>5, <1>6 DEF ProcInv

\* The same for a step that changes no buffer and no queue.
LEMMA QuietOther ==
    ASSUME Inv, NEW q \in Proc, Shared' = Shared,
           pc'[q] = pc[q], ret'[q] = ret[q], want'[q] = want[q], blkno'[q] = blkno[q],
           bp'[q] = bp[q], rbp'[q] = rbp[q], arg'[q] = arg[q]
    PROVE  ProcInv(q)'
<1>1. NoBuf \notin Elems(queue')
  BY ElemsIn, BufAssumption DEF Inv, TypeOK, Shared
<1> QED
  BY <1>1, OtherFrame DEF Shared

\* bread and getblk start from user mode or from exec.
LEMMA BeginGetblkInv ==
    ASSUME Inv, NEW p \in Proc, NEW k \in Block, NEW r \in {"bread", "fill"}, BeginGetblk(p, k, r)
    PROVE  Inv'
<1>1. /\ want' = [want EXCEPT ![p] = k]
      /\ ret' = [ret EXCEPT ![p] = r]
      /\ pc' = [pc EXCEPT ![p] = "getblk"]
      /\ UNCHANGED <<flags, assoc, data, freelist, freeWanted, queue,
                     io, disk, wchan, bp, rbp, arg, blkno, rablkno,
                     execnt>>
  BY DEF BeginGetblk, CallGetblk, bufvars, devvars, argvars, ownvars
<1>2. Shared' = Shared /\ ownvars' = ownvars
  BY <1>1 DEF Shared, ownvars
<1>3. ListInv' /\ FlagInv' /\ OwnInv' /\ OneBufferPerBlock'
  BY <1>2, QuietFrame
<1>4. TypeOK'
  BY <1>1, BufAssumption DEF Inv, TypeOK, Pc, GetblkRet, Block, BeginGetblk, CallGetblk, bufvars, devvars, argvars, ownvars
<1>5. ASSUME NEW q \in Proc, q # p
      PROVE  ProcInv(q)'
  <2>1. /\ pc'[q] = pc[q] /\ ret'[q] = ret[q] /\ want'[q] = want[q]
        /\ blkno'[q] = blkno[q]
    BY <1>1, <1>5 DEF Inv, TypeOK
  <2> QED
    BY <1>2, <2>1, QuietOther DEF ownvars
<1>6. ProcInv(p)'
  <2>1. /\ pc'[p] = "getblk" /\ ret'[p] = r /\ want'[p] = k
        /\ blkno'[p] = blkno[p]
    BY <1>1 DEF Inv, TypeOK
  <2>2. ProcInv(p)
    BY DEF Inv
  <2> QED
    BY <1>2, <2>1, <2>2, BufAssumption
    DEF BeginGetblk, CanBegin, ProcInv, Shared, ownvars, InHand, InTransfer, InBmap, InBreada,
        GetblkRet, Block
<1> QED
  BY <1>3, <1>4, <1>5, <1>6 DEF Inv

\* breada starts.
LEMMA BeginBreadaInv ==
    ASSUME Inv, NEW p \in Proc, NEW k \in Block, NEW r \in Block \cup {Nodev}, BeginBreada(p, k, r)
    PROVE  Inv'
<1>1. /\ blkno' = [blkno EXCEPT ![p] = k]
      /\ rablkno' = [rablkno EXCEPT ![p] = r]
      /\ pc' = [pc EXCEPT ![p] = "breada"]
      /\ UNCHANGED <<flags, assoc, data, freelist, freeWanted, queue,
                     io, disk, wchan, want, ret, bp, rbp, arg,
                     execnt>>
  BY DEF BeginBreada, bufvars, devvars, argvars, ownvars
<1>2. Shared' = Shared /\ ownvars' = ownvars
  BY <1>1 DEF Shared, ownvars
<1>3. ListInv' /\ FlagInv' /\ OwnInv' /\ OneBufferPerBlock'
  BY <1>2, QuietFrame
<1>4. TypeOK'
  BY <1>1, BufAssumption DEF Inv, TypeOK, Pc, GetblkRet, Block, BeginBreada, bufvars, devvars, argvars, ownvars
<1>5. ASSUME NEW q \in Proc, q # p
      PROVE  ProcInv(q)'
  <2>1. /\ pc'[q] = pc[q] /\ ret'[q] = ret[q] /\ want'[q] = want[q]
        /\ blkno'[q] = blkno[q]
    BY <1>1, <1>5 DEF Inv, TypeOK
  <2> QED
    BY <1>2, <2>1, QuietOther DEF ownvars
<1>6. ProcInv(p)'
  <2>1. /\ pc'[p] = "breada" /\ ret'[p] = ret[p] /\ want'[p] = want[p]
        /\ blkno'[p] = k
    BY <1>1 DEF Inv, TypeOK
  <2>2. ProcInv(p)
    BY DEF Inv
  <2> QED
    BY <1>2, <2>1, <2>2, BufAssumption
    DEF BeginBreada, CanBegin, ProcInv, Shared, ownvars, InHand, InTransfer, InBmap, InBreada,
        GetblkRet, Block
<1> QED
  BY <1>3, <1>4, <1>5, <1>6 DEF Inv

\* bflush starts.
LEMMA BeginBflushInv ==
    ASSUME Inv, NEW p \in Proc, BeginBflush(p)
    PROVE  Inv'
<1>1. /\ pc' = [pc EXCEPT ![p] = "bflush"]
      /\ UNCHANGED <<flags, assoc, data, freelist, freeWanted, queue,
                     io, disk, wchan, want, ret, bp, rbp, arg, blkno,
                     rablkno, execnt>>
  BY DEF BeginBflush, bufvars, devvars, argvars, ownvars
<1>2. Shared' = Shared /\ ownvars' = ownvars
  BY <1>1 DEF Shared, ownvars
<1>3. ListInv' /\ FlagInv' /\ OwnInv' /\ OneBufferPerBlock'
  BY <1>2, QuietFrame
<1>4. TypeOK'
  BY <1>1, BufAssumption DEF Inv, TypeOK, Pc, GetblkRet, Block, BeginBflush, bufvars, devvars, argvars, ownvars
<1>5. ASSUME NEW q \in Proc, q # p
      PROVE  ProcInv(q)'
  <2>1. /\ pc'[q] = pc[q] /\ ret'[q] = ret[q] /\ want'[q] = want[q]
        /\ blkno'[q] = blkno[q]
    BY <1>1, <1>5 DEF Inv, TypeOK
  <2> QED
    BY <1>2, <2>1, QuietOther DEF ownvars
<1>6. ProcInv(p)'
  <2>1. /\ pc'[p] = "bflush" /\ ret'[p] = ret[p] /\ want'[p] = want[p]
        /\ blkno'[p] = blkno[p]
    BY <1>1 DEF Inv, TypeOK
  <2>2. ProcInv(p)
    BY DEF Inv
  <2> QED
    BY <1>2, <2>1, <2>2, BufAssumption
    DEF BeginBflush, CanBegin, ProcInv, Shared, ownvars, InHand, InTransfer, InBmap, InBreada,
        GetblkRet, Block
<1> QED
  BY <1>3, <1>4, <1>5, <1>6 DEF Inv

\* exec starts.
LEMMA BeginExecInv ==
    ASSUME Inv, NEW p \in Proc, BeginExec(p)
    PROVE  Inv'
<1>1. /\ pc' = [pc EXCEPT ![p] = "execwait"]
      /\ UNCHANGED <<flags, assoc, data, freelist, freeWanted, queue,
                     io, disk, wchan, want, ret, bp, rbp, arg, blkno,
                     rablkno, execnt>>
  BY DEF BeginExec, bufvars, devvars, argvars, ownvars
<1>2. Shared' = Shared /\ ownvars' = ownvars
  BY <1>1 DEF Shared, ownvars
<1>3. ListInv' /\ FlagInv' /\ OwnInv' /\ OneBufferPerBlock'
  BY <1>2, QuietFrame
<1>4. TypeOK'
  BY <1>1, BufAssumption DEF Inv, TypeOK, Pc, GetblkRet, Block, BeginExec, bufvars, devvars, argvars, ownvars
<1>5. ASSUME NEW q \in Proc, q # p
      PROVE  ProcInv(q)'
  <2>1. /\ pc'[q] = pc[q] /\ ret'[q] = ret[q] /\ want'[q] = want[q]
        /\ blkno'[q] = blkno[q]
    BY <1>1, <1>5 DEF Inv, TypeOK
  <2> QED
    BY <1>2, <2>1, QuietOther DEF ownvars
<1>6. ProcInv(p)'
  <2>1. /\ pc'[p] = "execwait" /\ ret'[p] = ret[p] /\ want'[p] = want[p]
        /\ blkno'[p] = blkno[p]
    BY <1>1 DEF Inv, TypeOK
  <2>2. ProcInv(p)
    BY DEF Inv
  <2> QED
    BY <1>2, <2>1, <2>2, BufAssumption
    DEF BeginExec, CanBegin, ProcInv, Shared, ownvars, InHand, InTransfer, InBmap, InBreada,
        GetblkRet, Block
<1> QED
  BY <1>3, <1>4, <1>5, <1>6 DEF Inv

\* A process is dispatched.
LEMMA DispatchInv ==
    ASSUME Inv, NEW p \in Proc, Dispatch(p)
    PROVE  Inv'
<1>1. /\ UNCHANGED <<flags, assoc, data, freelist, freeWanted, queue,
                     io, disk, wchan, pc, want, ret, bp, rbp, arg,
                     blkno, rablkno, execnt>>
  BY DEF Dispatch, bufvars, devvars, argvars, ownvars
<1>2. Shared' = Shared /\ ownvars' = ownvars
  BY <1>1 DEF Shared, ownvars
<1>3. ListInv' /\ FlagInv' /\ OwnInv' /\ OneBufferPerBlock'
  BY <1>2, QuietFrame
<1>4. TypeOK'
  BY <1>1, BufAssumption DEF Inv, TypeOK, Pc, GetblkRet, Block, Dispatch, bufvars, devvars, argvars, ownvars
<1>5. ASSUME NEW q \in Proc, q # p
      PROVE  ProcInv(q)'
  <2>1. /\ pc'[q] = pc[q] /\ ret'[q] = ret[q] /\ want'[q] = want[q]
        /\ blkno'[q] = blkno[q]
    BY <1>1, <1>5 DEF Inv, TypeOK
  <2> QED
    BY <1>2, <2>1, QuietOther DEF ownvars
<1>6. ProcInv(p)'
  <2>1. /\ pc'[p] = pc[p] /\ ret'[p] = ret[p] /\ want'[p] = want[p]
        /\ blkno'[p] = blkno[p]
    BY <1>1 DEF Inv, TypeOK
  <2>2. ProcInv(p)
    BY DEF Inv
  <2> QED
    BY <1>2, <2>1, <2>2, BufAssumption
    DEF Dispatch, CanBegin, ProcInv, Shared, ownvars, InHand, InTransfer, InBmap, InBreada,
        GetblkRet, Block
<1> QED
  BY <1>3, <1>4, <1>5, <1>6 DEF Inv

\* getblk sleeps for any buffer.
LEMMA GetblkEmptyInv ==
    ASSUME Inv, NEW p \in Proc, GetblkEmpty(p)
    PROVE  Inv'
<1>1. /\ wchan' = [wchan EXCEPT ![p] = "bfreelist"]
      /\ UNCHANGED <<flags, assoc, data, freelist, queue, io, disk,
                     pc, want, ret, bp, rbp, arg, blkno, rablkno,
                     execnt>>
  BY DEF GetblkEmpty, Sleep, bufvars, devvars, argvars, ownvars
<1>2. Shared' = Shared /\ ownvars' = ownvars
  BY <1>1 DEF Shared, ownvars
<1>3. ListInv' /\ FlagInv' /\ OwnInv' /\ OneBufferPerBlock'
  BY <1>2, QuietFrame
<1>4. TypeOK'
  BY <1>1, BufAssumption DEF Inv, TypeOK, Pc, GetblkRet, Block, GetblkEmpty, Sleep, bufvars, devvars, argvars, ownvars
<1>5. ASSUME NEW q \in Proc, q # p
      PROVE  ProcInv(q)'
  <2>1. /\ pc'[q] = pc[q] /\ ret'[q] = ret[q] /\ want'[q] = want[q]
        /\ blkno'[q] = blkno[q]
    BY <1>1, <1>5 DEF Inv, TypeOK
  <2> QED
    BY <1>2, <2>1, QuietOther DEF ownvars
<1>6. ProcInv(p)'
  <2>1. /\ pc'[p] = pc[p] /\ ret'[p] = ret[p] /\ want'[p] = want[p]
        /\ blkno'[p] = blkno[p]
    BY <1>1 DEF Inv, TypeOK
  <2>2. ProcInv(p)
    BY DEF Inv
  <2> QED
    BY <1>2, <2>1, <2>2, BufAssumption
    DEF GetblkEmpty, CanBegin, ProcInv, Shared, ownvars, InHand, InTransfer, InBmap, InBreada,
        GetblkRet, Block
<1> QED
  BY <1>3, <1>4, <1>5, <1>6 DEF Inv

\* breada looks for its block.
LEMMA BreadaInv ==
    ASSUME Inv, NEW p \in Proc, Breada(p)
    PROVE  Inv'
<1>1. CASE Incore(blkno[p])
  <2>1. /\ pc' = [pc EXCEPT ![p] = "ahead"]
        /\ UNCHANGED <<flags, assoc, data, freelist, freeWanted,
                       queue, io, disk, cur, wchan, want, ret, bp,
                       rbp, arg, blkno, rablkno, execnt>>
    BY <1>1 DEF Breada, CallGetblk, bufvars, devvars, argvars, ownvars
  <2>2. Shared' = Shared /\ ownvars' = ownvars
    BY <2>1 DEF Shared, ownvars
  <2>3. ListInv' /\ FlagInv' /\ OwnInv' /\ OneBufferPerBlock'
    BY <2>2, QuietFrame
  <2>4. TypeOK'
    BY <2>1, <1>1, BufAssumption DEF Inv, TypeOK, Pc, GetblkRet, Block
  <2>5. ASSUME NEW q \in Proc, q # p
        PROVE  ProcInv(q)'
    <3>1. /\ pc'[q] = pc[q] /\ ret'[q] = ret[q] /\ want'[q] = want[q]
          /\ blkno'[q] = blkno[q]
      BY <2>1, <2>5 DEF Inv, TypeOK
    <3> QED
      BY <2>2, <3>1, QuietOther DEF ownvars
  <2>6. ProcInv(p)'
    <3>1. /\ pc'[p] = "ahead" /\ ret'[p] = ret[p] /\ want'[p] = want[p]
          /\ blkno'[p] = blkno[p]
      BY <2>1 DEF Inv, TypeOK
    <3>2. ProcInv(p)
      BY DEF Inv
    <3> QED
      BY <1>1, <2>2, <3>1, <3>2, BufAssumption
      DEF Breada, CanBegin, ProcInv, Shared, ownvars, InHand, InTransfer, InBmap, InBreada,
          GetblkRet, Block
  <2> QED
    BY <2>3, <2>4, <2>5, <2>6 DEF Inv
<1>2. CASE ~Incore(blkno[p])
  <2>1. /\ pc' = [pc EXCEPT ![p] = "getblk"]
        /\ want' = [want EXCEPT ![p] = blkno[p]]
        /\ ret' = [ret EXCEPT ![p] = "breada1"]
        /\ UNCHANGED <<flags, assoc, data, freelist, freeWanted,
                       queue, io, disk, cur, wchan, bp, rbp, arg,
                       blkno, rablkno, execnt>>
    BY <1>2 DEF Breada, CallGetblk, bufvars, devvars, argvars, ownvars
  <2>2. Shared' = Shared /\ ownvars' = ownvars
    BY <2>1 DEF Shared, ownvars
  <2>3. ListInv' /\ FlagInv' /\ OwnInv' /\ OneBufferPerBlock'
    BY <2>2, QuietFrame
  <2>4. TypeOK'
    BY <2>1, <1>2, BufAssumption DEF Inv, TypeOK, Pc, GetblkRet, Block
  <2>5. ASSUME NEW q \in Proc, q # p
        PROVE  ProcInv(q)'
    <3>1. /\ pc'[q] = pc[q] /\ ret'[q] = ret[q] /\ want'[q] = want[q]
          /\ blkno'[q] = blkno[q]
      BY <2>1, <2>5 DEF Inv, TypeOK
    <3> QED
      BY <2>2, <3>1, QuietOther DEF ownvars
  <2>6. ProcInv(p)'
    <3>1. /\ pc'[p] = "getblk" /\ ret'[p] = "breada1" /\ want'[p] = blkno[p]
          /\ blkno'[p] = blkno[p]
      BY <2>1 DEF Inv, TypeOK
    <3>2. ProcInv(p)
      BY DEF Inv
    <3> QED
      BY <1>2, <2>2, <3>1, <3>2, BufAssumption
      DEF Breada, CanBegin, ProcInv, Shared, ownvars, InHand, InTransfer, InBmap, InBreada,
          GetblkRet, Block
  <2> QED
    BY <2>3, <2>4, <2>5, <2>6 DEF Inv
<1> QED
  BY <1>1, <1>2

\* breada looks for the read-ahead block.
LEMMA AheadInv ==
    ASSUME Inv, NEW p \in Proc, Ahead(p)
    PROVE  Inv'
<1>1. CASE rablkno[p] = Nodev \/ Incore(rablkno[p])
  <2>1. /\ pc' = [pc EXCEPT ![p] = "main"]
        /\ UNCHANGED <<flags, assoc, data, freelist, freeWanted,
                       queue, io, disk, cur, wchan, want, ret, bp,
                       rbp, arg, blkno, rablkno, execnt>>
    BY <1>1 DEF Ahead, CallGetblk, bufvars, devvars, argvars, ownvars
  <2>2. Shared' = Shared /\ ownvars' = ownvars
    BY <2>1 DEF Shared, ownvars
  <2>3. ListInv' /\ FlagInv' /\ OwnInv' /\ OneBufferPerBlock'
    BY <2>2, QuietFrame
  <2>4. TypeOK'
    BY <2>1, <1>1, BufAssumption DEF Inv, TypeOK, Pc, GetblkRet, Block
  <2>5. ASSUME NEW q \in Proc, q # p
        PROVE  ProcInv(q)'
    <3>1. /\ pc'[q] = pc[q] /\ ret'[q] = ret[q] /\ want'[q] = want[q]
          /\ blkno'[q] = blkno[q]
      BY <2>1, <2>5 DEF Inv, TypeOK
    <3> QED
      BY <2>2, <3>1, QuietOther DEF ownvars
  <2>6. ProcInv(p)'
    <3>1. /\ pc'[p] = "main" /\ ret'[p] = ret[p] /\ want'[p] = want[p]
          /\ blkno'[p] = blkno[p]
      BY <2>1 DEF Inv, TypeOK
    <3>2. ProcInv(p)
      BY DEF Inv
    <3> QED
      BY <1>1, <2>2, <3>1, <3>2, BufAssumption
      DEF Ahead, CanBegin, ProcInv, Shared, ownvars, InHand, InTransfer, InBmap, InBreada,
          GetblkRet, Block
  <2> QED
    BY <2>3, <2>4, <2>5, <2>6 DEF Inv
<1>2. CASE ~(rablkno[p] = Nodev \/ Incore(rablkno[p]))
  <2>1. /\ pc' = [pc EXCEPT ![p] = "getblk"]
        /\ want' = [want EXCEPT ![p] = rablkno[p]]
        /\ ret' = [ret EXCEPT ![p] = "breada2"]
        /\ UNCHANGED <<flags, assoc, data, freelist, freeWanted,
                       queue, io, disk, cur, wchan, bp, rbp, arg,
                       blkno, rablkno, execnt>>
    BY <1>2 DEF Ahead, CallGetblk, bufvars, devvars, argvars, ownvars
  <2>2. Shared' = Shared /\ ownvars' = ownvars
    BY <2>1 DEF Shared, ownvars
  <2>3. ListInv' /\ FlagInv' /\ OwnInv' /\ OneBufferPerBlock'
    BY <2>2, QuietFrame
  <2>4. TypeOK'
    BY <2>1, <1>2, BufAssumption DEF Inv, TypeOK, Pc, GetblkRet, Block
  <2>5. ASSUME NEW q \in Proc, q # p
        PROVE  ProcInv(q)'
    <3>1. /\ pc'[q] = pc[q] /\ ret'[q] = ret[q] /\ want'[q] = want[q]
          /\ blkno'[q] = blkno[q]
      BY <2>1, <2>5 DEF Inv, TypeOK
    <3> QED
      BY <2>2, <3>1, QuietOther DEF ownvars
  <2>6. ProcInv(p)'
    <3>1. /\ pc'[p] = "getblk" /\ ret'[p] = "breada2" /\ want'[p] = rablkno[p]
          /\ blkno'[p] = blkno[p]
      BY <2>1 DEF Inv, TypeOK
    <3>2. ProcInv(p)
      BY DEF Inv
    <3> QED
      BY <1>2, <2>2, <3>1, <3>2, BufAssumption
      DEF Ahead, CanBegin, ProcInv, Shared, ownvars, InHand, InTransfer, InBmap, InBreada,
          GetblkRet, Block
  <2> QED
    BY <2>3, <2>4, <2>5, <2>6 DEF Inv
<1> QED
  BY <1>1, <1>2

\* iowait sleeps or returns.
LEMMA IowaitInv ==
    ASSUME Inv, NEW p \in Proc, Iowait(p)
    PROVE  Inv'
<1>0. bp[p] \in Buf /\ (bp[p] \in Elems(queue) => "DONE" \notin flags[bp[p]])
  BY DEF Inv, TypeOK, ListInv, ProcInv, InHand, Iowait
<1>1. CASE "DONE" \in flags[bp[p]]
  <2>1. /\ pc' = [pc EXCEPT ![p] = "held"]
        /\ UNCHANGED <<flags, assoc, data, freelist, freeWanted,
                       queue, io, disk, cur, wchan, want, ret, bp,
                       rbp, arg, blkno, rablkno, execnt>>
    BY <1>0, <1>1 DEF Iowait, Sleep, bufvars, devvars, argvars, ownvars
  <2>2. Shared' = Shared /\ ownvars' = ownvars
    BY <2>1 DEF Shared, ownvars
  <2>3. ListInv' /\ FlagInv' /\ OwnInv' /\ OneBufferPerBlock'
    BY <2>2, QuietFrame
  <2>4. TypeOK'
    BY <2>1, <1>0, <1>1, BufAssumption DEF Inv, TypeOK, Pc, GetblkRet, Block
  <2>5. ASSUME NEW q \in Proc, q # p
        PROVE  ProcInv(q)'
    <3>1. /\ pc'[q] = pc[q] /\ ret'[q] = ret[q] /\ want'[q] = want[q]
          /\ blkno'[q] = blkno[q]
      BY <2>1, <2>5 DEF Inv, TypeOK
    <3> QED
      BY <2>2, <3>1, QuietOther DEF ownvars
  <2>6. ProcInv(p)'
    <3>1. /\ pc'[p] = "held" /\ ret'[p] = ret[p] /\ want'[p] = want[p]
          /\ blkno'[p] = blkno[p]
      BY <2>1 DEF Inv, TypeOK
    <3>2. ProcInv(p)
      BY DEF Inv
    <3> QED
      BY <1>0, <1>1, <2>2, <3>1, <3>2, BufAssumption
      DEF Iowait, CanBegin, ProcInv, Shared, ownvars, InHand, InTransfer, InBmap, InBreada,
          GetblkRet, Block
  <2> QED
    BY <2>3, <2>4, <2>5, <2>6 DEF Inv
<1>2. CASE "DONE" \notin flags[bp[p]]
  <2>1. /\ wchan' = [wchan EXCEPT ![p] = bp[p]]
        /\ UNCHANGED <<flags, assoc, data, freelist, freeWanted,
                       queue, io, disk, pc, want, ret, bp, rbp, arg,
                       blkno, rablkno, execnt>>
    BY <1>0, <1>2 DEF Iowait, Sleep, bufvars, devvars, argvars, ownvars
  <2>2. Shared' = Shared /\ ownvars' = ownvars
    BY <2>1 DEF Shared, ownvars
  <2>3. ListInv' /\ FlagInv' /\ OwnInv' /\ OneBufferPerBlock'
    BY <2>2, QuietFrame
  <2>4. TypeOK'
    BY <2>1, <1>0, <1>2, BufAssumption DEF Inv, TypeOK, Pc, GetblkRet, Block, Iowait, Sleep, bufvars, devvars, argvars, ownvars
  <2>5. ASSUME NEW q \in Proc, q # p
        PROVE  ProcInv(q)'
    <3>1. /\ pc'[q] = pc[q] /\ ret'[q] = ret[q] /\ want'[q] = want[q]
          /\ blkno'[q] = blkno[q]
      BY <2>1, <2>5 DEF Inv, TypeOK
    <3> QED
      BY <2>2, <3>1, QuietOther DEF ownvars
  <2>6. ProcInv(p)'
    <3>1. /\ pc'[p] = pc[p] /\ ret'[p] = ret[p] /\ want'[p] = want[p]
          /\ blkno'[p] = blkno[p]
      BY <2>1 DEF Inv, TypeOK
    <3>2. ProcInv(p)
      BY DEF Inv
    <3> QED
      BY <1>0, <1>2, <2>2, <3>1, <3>2, BufAssumption
      DEF Iowait, CanBegin, ProcInv, Shared, ownvars, InHand, InTransfer, InBmap, InBreada,
          GetblkRet, Block
  <2> QED
    BY <2>3, <2>4, <2>5, <2>6 DEF Inv
<1> QED
  BY <1>1, <1>2

\* bflush ends.
LEMMA BflushEndInv ==
    ASSUME Inv, NEW p \in Proc, BflushEnd(p)
    PROVE  Inv'
<1>1. CASE arg[p] = NoBuf
  <2>1. /\ pc' = [pc EXCEPT ![p] = "user"]
        /\ want' = [want EXCEPT ![p] = Nodev]
        /\ ret' = [ret EXCEPT ![p] = "bread"]
        /\ blkno' = [blkno EXCEPT ![p] = Nodev]
        /\ rablkno' = [rablkno EXCEPT ![p] = Nodev]
        /\ UNCHANGED <<flags, assoc, data, freelist, freeWanted,
                       queue, io, disk, wchan, bp, rbp, arg, execnt>>
    BY <1>1 DEF BflushEnd, Finish, bufvars, devvars, argvars, ownvars
  <2>2. Shared' = Shared /\ ownvars' = ownvars
    BY <2>1 DEF Shared, ownvars
  <2>3. ListInv' /\ FlagInv' /\ OwnInv' /\ OneBufferPerBlock'
    BY <2>2, QuietFrame
  <2>4. TypeOK'
    BY <2>1, <1>1, BufAssumption DEF Inv, TypeOK, Pc, GetblkRet, Block, BflushEnd, Finish, bufvars, devvars, argvars, ownvars
  <2>5. ASSUME NEW q \in Proc, q # p
        PROVE  ProcInv(q)'
    <3>1. /\ pc'[q] = pc[q] /\ ret'[q] = ret[q] /\ want'[q] = want[q]
          /\ blkno'[q] = blkno[q]
      BY <2>1, <2>5 DEF Inv, TypeOK
    <3> QED
      BY <2>2, <3>1, QuietOther DEF ownvars
  <2>6. ProcInv(p)'
    <3>1. /\ pc'[p] = "user" /\ ret'[p] = "bread" /\ want'[p] = Nodev
          /\ blkno'[p] = Nodev
      BY <2>1 DEF Inv, TypeOK
    <3>2. ProcInv(p)
      BY DEF Inv
    <3> QED
      BY <1>1, <2>2, <3>1, <3>2, BufAssumption
      DEF BflushEnd, CanBegin, ProcInv, Shared, ownvars, InHand, InTransfer, InBmap, InBreada,
          GetblkRet, Block
  <2> QED
    BY <2>3, <2>4, <2>5, <2>6 DEF Inv
<1>2. CASE arg[p] # NoBuf
  <2>1. /\ pc' = [pc EXCEPT ![p] = "inexec"]
        /\ want' = [want EXCEPT ![p] = Nodev]
        /\ ret' = [ret EXCEPT ![p] = "bread"]
        /\ blkno' = [blkno EXCEPT ![p] = Nodev]
        /\ rablkno' = [rablkno EXCEPT ![p] = Nodev]
        /\ UNCHANGED <<flags, assoc, data, freelist, freeWanted,
                       queue, io, disk, cur, wchan, bp, rbp, arg,
                       execnt>>
    BY <1>2 DEF BflushEnd, Finish, bufvars, devvars, argvars, ownvars
  <2>2. Shared' = Shared /\ ownvars' = ownvars
    BY <2>1 DEF Shared, ownvars
  <2>3. ListInv' /\ FlagInv' /\ OwnInv' /\ OneBufferPerBlock'
    BY <2>2, QuietFrame
  <2>4. TypeOK'
    BY <2>1, <1>2, BufAssumption DEF Inv, TypeOK, Pc, GetblkRet, Block
  <2>5. ASSUME NEW q \in Proc, q # p
        PROVE  ProcInv(q)'
    <3>1. /\ pc'[q] = pc[q] /\ ret'[q] = ret[q] /\ want'[q] = want[q]
          /\ blkno'[q] = blkno[q]
      BY <2>1, <2>5 DEF Inv, TypeOK
    <3> QED
      BY <2>2, <3>1, QuietOther DEF ownvars
  <2>6. ProcInv(p)'
    <3>1. /\ pc'[p] = "inexec" /\ ret'[p] = "bread" /\ want'[p] = Nodev
          /\ blkno'[p] = Nodev
      BY <2>1 DEF Inv, TypeOK
    <3>2. ProcInv(p)
      BY DEF Inv
    <3> QED
      BY <1>2, <2>2, <3>1, <3>2, BufAssumption
      DEF BflushEnd, CanBegin, ProcInv, Shared, ownvars, InHand, InTransfer, InBmap, InBreada,
          GetblkRet, Block
  <2> QED
    BY <2>3, <2>4, <2>5, <2>6 DEF Inv
<1> QED
  BY <1>1, <1>2

\* exec waits, or asks for its buffer.
LEMMA ExecEnterInv ==
    ASSUME Inv, NEW p \in Proc, ExecEnter(p)
    PROVE  Inv'
<1>1. CASE execnt >= NEXEC
  <2>1. /\ wchan' = [wchan EXCEPT ![p] = "execnt"]
        /\ UNCHANGED <<flags, assoc, data, freelist, freeWanted,
                       queue, io, disk, pc, want, ret, bp, rbp, arg,
                       blkno, rablkno, execnt>>
    BY <1>1 DEF ExecEnter, Sleep, CallGetblk, bufvars, devvars, argvars, ownvars
  <2>2. Shared' = Shared /\ ownvars' = ownvars
    BY <2>1 DEF Shared, ownvars
  <2>3. ListInv' /\ FlagInv' /\ OwnInv' /\ OneBufferPerBlock'
    BY <2>2, QuietFrame
  <2>4. TypeOK'
    BY <2>1, <1>1, BufAssumption DEF Inv, TypeOK, Pc, GetblkRet, Block, ExecEnter, Sleep, CallGetblk, bufvars, devvars, argvars, ownvars
  <2>5. ASSUME NEW q \in Proc, q # p
        PROVE  ProcInv(q)'
    <3>1. /\ pc'[q] = pc[q] /\ ret'[q] = ret[q] /\ want'[q] = want[q]
          /\ blkno'[q] = blkno[q]
      BY <2>1, <2>5 DEF Inv, TypeOK
    <3> QED
      BY <2>2, <3>1, QuietOther DEF ownvars
  <2>6. ProcInv(p)'
    <3>1. /\ pc'[p] = pc[p] /\ ret'[p] = ret[p] /\ want'[p] = want[p]
          /\ blkno'[p] = blkno[p]
      BY <2>1 DEF Inv, TypeOK
    <3>2. ProcInv(p)
      BY DEF Inv
    <3> QED
      BY <1>1, <2>2, <3>1, <3>2, BufAssumption
      DEF ExecEnter, CanBegin, ProcInv, Shared, ownvars, InHand, InTransfer, InBmap, InBreada,
          GetblkRet, Block
  <2> QED
    BY <2>3, <2>4, <2>5, <2>6 DEF Inv
<1>2. CASE ~(execnt >= NEXEC)
  <2>1. /\ pc' = [pc EXCEPT ![p] = "getblk"]
        /\ want' = [want EXCEPT ![p] = Nodev]
        /\ ret' = [ret EXCEPT ![p] = "exec"]
        /\ UNCHANGED <<flags, assoc, data, freelist, freeWanted,
                       queue, io, disk, cur, wchan, bp, rbp, arg,
                       blkno, rablkno>>
    BY <1>2 DEF ExecEnter, Sleep, CallGetblk, bufvars, devvars, argvars, ownvars
  <2>2. Shared' = Shared /\ ownvars' = ownvars
    BY <2>1 DEF Shared, ownvars
  <2>3. ListInv' /\ FlagInv' /\ OwnInv' /\ OneBufferPerBlock'
    BY <2>2, QuietFrame
  <2>4. TypeOK'
    BY <2>1, <1>2, BufAssumption DEF Inv, TypeOK, Pc, GetblkRet, Block, ExecEnter, Sleep, CallGetblk, bufvars, devvars, argvars, ownvars
  <2>5. ASSUME NEW q \in Proc, q # p
        PROVE  ProcInv(q)'
    <3>1. /\ pc'[q] = pc[q] /\ ret'[q] = ret[q] /\ want'[q] = want[q]
          /\ blkno'[q] = blkno[q]
      BY <2>1, <2>5 DEF Inv, TypeOK
    <3> QED
      BY <2>2, <3>1, QuietOther DEF ownvars
  <2>6. ProcInv(p)'
    <3>1. /\ pc'[p] = "getblk" /\ ret'[p] = "exec" /\ want'[p] = Nodev
          /\ blkno'[p] = blkno[p]
      BY <2>1 DEF Inv, TypeOK
    <3>2. ProcInv(p)
      BY DEF Inv
    <3> QED
      BY <1>2, <2>2, <3>1, <3>2, BufAssumption
      DEF ExecEnter, CanBegin, ProcInv, Shared, ownvars, InHand, InTransfer, InBmap, InBreada,
          GetblkRet, Block
  <2> QED
    BY <2>3, <2>4, <2>5, <2>6 DEF Inv
<1> QED
  BY <1>1, <1>2

\* A caller writes into its buffer.
LEMMA ModifyInv ==
    ASSUME Inv, NEW p \in Proc, NEW v \in Val, Modify(p, v)
    PROVE  Inv'
<1>1. /\ pc' = [pc EXCEPT ![p] = "dirty"]
      /\ UNCHANGED <<flags, assoc, freelist, freeWanted, queue, io,
                     disk, cur, wchan, want, ret, bp, rbp, arg, blkno,
                     rablkno, execnt>>
  BY DEF Modify, bufvars, devvars, argvars, ownvars
<1>2. Shared' = Shared /\ ownvars' = ownvars
  BY <1>1 DEF Shared, ownvars
<1>3. ListInv' /\ FlagInv' /\ OwnInv' /\ OneBufferPerBlock'
  BY <1>2, QuietFrame
<1>4. TypeOK'
  BY ZenonT(40), <1>1, BufAssumption DEF Inv, TypeOK, Pc, GetblkRet, Block, Modify, bufvars, devvars, argvars, ownvars
<1>5. ASSUME NEW q \in Proc, q # p
      PROVE  ProcInv(q)'
  <2>1. /\ pc'[q] = pc[q] /\ ret'[q] = ret[q] /\ want'[q] = want[q]
        /\ blkno'[q] = blkno[q]
    BY <1>1, <1>5 DEF Inv, TypeOK
  <2> QED
    BY <1>2, <2>1, QuietOther DEF ownvars
<1>6. ProcInv(p)'
  <2>1. /\ pc'[p] = "dirty" /\ ret'[p] = ret[p] /\ want'[p] = want[p]
        /\ blkno'[p] = blkno[p]
    BY <1>1 DEF Inv, TypeOK
  <2>2. ProcInv(p)
    BY DEF Inv
  <2> QED
    BY <1>2, <2>1, <2>2, BufAssumption
    DEF Modify, CanBegin, ProcInv, Shared, ownvars, InHand, InTransfer, InBmap, InBreada,
        GetblkRet, Block
<1> QED
  BY <1>3, <1>4, <1>5, <1>6 DEF Inv

\* alloc clears the new block.
LEMMA AllocClrbufInv ==
    ASSUME Inv, NEW p \in Proc, AllocClrbuf(p)
    PROVE  Inv'
<1>1. /\ pc' = [pc EXCEPT ![p] = "ind"]
      /\ UNCHANGED <<flags, assoc, freelist, freeWanted, queue, io,
                     disk, cur, wchan, want, ret, bp, rbp, arg, blkno,
                     rablkno, execnt>>
  BY DEF AllocClrbuf, bufvars, devvars, argvars, ownvars
<1>2. Shared' = Shared /\ ownvars' = ownvars
  BY <1>1 DEF Shared, ownvars
<1>3. ListInv' /\ FlagInv' /\ OwnInv' /\ OneBufferPerBlock'
  BY <1>2, QuietFrame
<1>4. TypeOK'
  BY ZenonT(40), <1>1, BufAssumption DEF Inv, TypeOK, Pc, GetblkRet, Block, AllocClrbuf, bufvars, devvars, argvars, ownvars
<1>5. ASSUME NEW q \in Proc, q # p
      PROVE  ProcInv(q)'
  <2>1. /\ pc'[q] = pc[q] /\ ret'[q] = ret[q] /\ want'[q] = want[q]
        /\ blkno'[q] = blkno[q]
    BY <1>1, <1>5 DEF Inv, TypeOK
  <2> QED
    BY <1>2, <2>1, QuietOther DEF ownvars
<1>6. ProcInv(p)'
  <2>1. /\ pc'[p] = "ind" /\ ret'[p] = ret[p] /\ want'[p] = want[p]
        /\ blkno'[p] = blkno[p]
    BY <1>1 DEF Inv, TypeOK
  <2>2. ProcInv(p)
    BY DEF Inv
  <2> QED
    BY <1>2, <2>1, <2>2, BufAssumption
    DEF AllocClrbuf, CanBegin, ProcInv, Shared, ownvars, InHand, InTransfer, InBmap, InBreada,
        GetblkRet, Block
<1> QED
  BY <1>3, <1>4, <1>5, <1>6 DEF Inv

\* bmap writes into the indirect block.
LEMMA BmapIndirectInv ==
    ASSUME Inv, NEW p \in Proc, NEW v \in Val, BmapIndirect(p, v)
    PROVE  Inv'
<1>1. /\ pc' = [pc EXCEPT ![p] = "nbdw"]
      /\ UNCHANGED <<flags, assoc, freelist, freeWanted, queue, io,
                     disk, cur, wchan, want, ret, bp, rbp, arg, blkno,
                     rablkno, execnt>>
  BY DEF BmapIndirect, bufvars, devvars, argvars, ownvars
<1>2. Shared' = Shared /\ ownvars' = ownvars
  BY <1>1 DEF Shared, ownvars
<1>3. ListInv' /\ FlagInv' /\ OwnInv' /\ OneBufferPerBlock'
  BY <1>2, QuietFrame
<1>4. TypeOK'
  BY ZenonT(40), <1>1, BufAssumption DEF Inv, TypeOK, Pc, GetblkRet, Block, BmapIndirect, bufvars, devvars, argvars, ownvars
<1>5. ASSUME NEW q \in Proc, q # p
      PROVE  ProcInv(q)'
  <2>1. /\ pc'[q] = pc[q] /\ ret'[q] = ret[q] /\ want'[q] = want[q]
        /\ blkno'[q] = blkno[q]
    BY <1>1, <1>5 DEF Inv, TypeOK
  <2> QED
    BY <1>2, <2>1, QuietOther DEF ownvars
<1>6. ProcInv(p)'
  <2>1. /\ pc'[p] = "nbdw" /\ ret'[p] = ret[p] /\ want'[p] = want[p]
        /\ blkno'[p] = blkno[p]
    BY <1>1 DEF Inv, TypeOK
  <2>2. ProcInv(p)
    BY DEF Inv
  <2> QED
    BY <1>2, <2>1, <2>2, BufAssumption
    DEF BmapIndirect, CanBegin, ProcInv, Shared, ownvars, InHand, InTransfer, InBmap, InBreada,
        GetblkRet, Block
<1> QED
  BY <1>3, <1>4, <1>5, <1>6 DEF Inv

-----------------------------------------------------------------------------
(* Steps that change one buffer. *)

\* The part of the invariant that is about one buffer.
BufOK(b) ==
    /\ b \in Elems(freelist) <=> "BUSY" \notin flags[b]
    /\ b \in Elems(queue) =>
          "BUSY" \in flags[b] /\ "DONE" \notin flags[b] /\ assoc[b] \in Blk
    /\ "ASYNC" \in flags[b] => b \in Elems(queue)
    /\ "DELWRI" \in flags[b] => assoc[b] \in Blk
    /\ "ERROR" \in flags[b] => assoc[b] \notin Blk
    /\ "BUSY" \in flags[b] => "ASYNC" \in flags[b] \/ \E p \in Proc : b \in Held(p)
    /\ \A p \in Proc : b \in Held(p) => "BUSY" \in flags[b] /\ "ASYNC" \notin flags[b]
    /\ \A p, q \in Proc : b \in Held(p) /\ b \in Held(q) => p = q
    /\ assoc[b] # Nodev => \A a \in Buf : assoc[a] = assoc[b] => a = b

\* No process has one buffer in two hands.
Hands(p) == /\ bp[p] # NoBuf => bp[p] # rbp[p] /\ bp[p] # arg[p]
            /\ rbp[p] # NoBuf => rbp[p] # arg[p]

\* The shared part of the invariant is about each buffer, and the lists.
SharedInv == ListInv /\ FlagInv /\ OwnInv /\ OneBufferPerBlock

\* Every buffer satisfies its part of the invariant.
LEMMA BufOKs ==
    ASSUME Inv, NEW b \in Buf
    PROVE  BufOK(b)
BY DEF Inv, BufOK, ListInv, FlagInv, OwnInv, OneBufferPerBlock

\* What a process has in hand is a buffer.
LEMMA HeldIn ==
    ASSUME TypeOK, NEW p \in Proc
    PROVE  Held(p) \subseteq Buf
BY DEF TypeOK, Held

\* The other buffers are as they were.
OthersSame(b) ==
    \A a \in Buf : a # b =>
        /\ flags'[a] = flags[a] /\ assoc'[a] = assoc[a]
        /\ a \in Elems(freelist') <=> a \in Elems(freelist)
        /\ a \in Elems(queue') <=> a \in Elems(queue)
        /\ \A q \in Proc : a \in Held(q)' <=> a \in Held(q)

\* A step that changes one buffer has to restore the invariant for that one.
LEMMA OneBufferFrame ==
    ASSUME Inv, TypeOK', NEW b \in Buf, OthersSame(b), BufOK(b)',
           Distinct(freelist'), Distinct(queue'), io' = NoIO <=> queue' = <<>>,
           \A q \in Proc : Hands(q)'
    PROVE  SharedInv'
<1>0. Elems(queue') \subseteq Buf /\ \A q \in Proc : Held(q)' \subseteq Buf
  <2>1. Elems(queue') \subseteq Buf
    BY ElemsIn DEF TypeOK
  <2> QED
    BY <2>1 DEF TypeOK, Held
<1>1. \A a \in Buf : BufOK(a)'
  <2>1. ASSUME NEW a \in Buf, a # b
        PROVE  BufOK(a)'
    <3>1. BufOK(a)
      BY BufOKs
    <3>2. assoc'[a] # Nodev => \A c \in Buf : assoc'[c] = assoc'[a] => c = a
      BY <2>1, <3>1 DEF BufOK, OthersSame
    <3> QED
      BY <2>1, <3>1, <3>2 DEF BufOK, OthersSame
  <2> QED
    BY <2>1
<1>2. ListInv'
  BY <1>0, <1>1 DEF ListInv, BufOK
<1>3. FlagInv'
  BY <1>1 DEF FlagInv, BufOK
<1>4. OwnInv'
  <2>1. \A p \in Proc : \A a \in Held(p)' : "BUSY" \in flags'[a] /\ "ASYNC" \notin flags'[a]
    BY <1>0, <1>1 DEF BufOK
  <2>2. \A a \in Buf : "BUSY" \in flags'[a] =>
            "ASYNC" \in flags'[a] \/ \E p \in Proc : a \in Held(p)'
    BY <1>1 DEF BufOK
  <2>3. \A p, q \in Proc : p # q => Held(p)' \cap Held(q)' = {}
    BY <1>0, <1>1 DEF BufOK
  <2> QED
    BY <2>1, <2>2, <2>3 DEF OwnInv, Hands
<1>5. OneBufferPerBlock'
  BY <1>1 DEF OneBufferPerBlock, BufOK
<1> QED
  BY <1>2, <1>3, <1>4, <1>5 DEF SharedInv

\* The processes do not change hands.
SameHands == \A q \in Proc : Held(q)' = Held(q)

\* A process starts a transfer of a buffer and keeps it: bread, bwrite.
LEMMA KeepStart ==
    ASSUME Inv, TypeOK', NEW p \in Proc, NEW b \in Held(p), b \notin Elems(queue),
           assoc[b] # Nodev, NEW f \in SUBSET Flags,
           "BUSY" \in f, "ASYNC" \notin f, "DONE" \notin f,
           "DELWRI" \in f => assoc[b] \in Blk, "ERROR" \in f => assoc[b] \notin Blk,
           Rkstrategy(b, f, freelist), SameHands, \A q \in Proc : Hands(q)'
    PROVE  /\ SharedInv' /\ assoc' = assoc
           /\ Elems(queue') \subseteq Elems(queue) \cup {b}
           /\ \A a \in Buf : a # b => flags'[a] = flags[a]
<1>1. b \in Buf /\ TypeOK /\ BufOK(b) /\ freelist \in Seq(Buf)
  BY BufOKs, HeldIn DEF Inv, TypeOK
<1>2. f \cup {"ERROR"} \in SUBSET Flags
  BY DEF Flags
<1>3. CASE assoc[b] \in BadBlk
  <2>1. /\ flags' = [flags EXCEPT ![b] = (f \cup {"ERROR", "DONE"}) \ {"WANTED"}]
        /\ assoc' = assoc /\ freelist' = freelist /\ queue' = queue /\ io' = io
    <3>1. Iodone(b, f \cup {"ERROR"}, freelist) /\ queue' = queue /\ io' = io
      BY <1>1, <1>3, RkstrategyEffect
    <3>2. "ASYNC" \notin f \cup {"ERROR"}
      OBVIOUS
    <3> QED
      BY <1>1, <1>2, <3>1, <3>2, IodoneEffect
  <2>2. OthersSame(b)
    BY <1>1, <2>1 DEF OthersSame, SameHands, TypeOK
  <2>3. assoc[b] \notin Blk /\ flags'[b] = (f \cup {"ERROR", "DONE"}) \ {"WANTED"}
    BY <1>1, <1>3, <2>1, BufAssumption DEF TypeOK
  <2>4. BufOK(b)'
    BY <1>1, <2>1, <2>3 DEF BufOK, SameHands
  <2> QED
    BY <1>1, <2>1, <2>2, <2>4, OneBufferFrame DEF Inv, ListInv, OthersSame
<1>4. CASE assoc[b] \notin BadBlk
  <2>1. /\ assoc[b] \in Blk /\ flags' = [flags EXCEPT ![b] = f]
        /\ assoc' = assoc /\ freelist' = freelist /\ queue' # <<>>
        /\ Elems(queue') = Elems(queue) \cup {b}
        /\ Distinct(queue) => Distinct(queue')
        /\ io' \in Transfer
    BY <1>1, <1>4, RkstrategyEffect
  <2>2. OthersSame(b)
    BY <1>1, <2>1 DEF OthersSame, SameHands, TypeOK
  <2>3. flags'[b] = f
    BY <1>1, <2>1 DEF TypeOK
  <2>4. BufOK(b)'
    BY <1>1, <2>1, <2>3 DEF BufOK, SameHands
  <2>5. io' # NoIO
    BY <2>1, BufAssumption DEF Transfer
  <2> QED
    BY <1>1, <2>1, <2>2, <2>4, <2>5, OneBufferFrame DEF Inv, ListInv, OthersSame
<1> QED
  BY <1>3, <1>4

\* A buffer goes to the driver: bawrite, read-ahead, a delayed write.
LEMMA GiveStart ==
    ASSUME Inv, TypeOK', NEW b \in Buf, b \notin Elems(queue), assoc[b] # Nodev,
           NEW fl \in Seq(Buf), Distinct(fl), Elems(fl) = Elems(freelist) \ {b},
           NEW f \in SUBSET Flags, "BUSY" \in f, "ASYNC" \in f, "DONE" \notin f,
           "DELWRI" \in f => assoc[b] \in Blk, "ERROR" \in f => assoc[b] \notin Blk,
           Rkstrategy(b, f, fl),
           \A q \in Proc : Held(q)' = Held(q) \ {b}, \A q \in Proc : Hands(q)'
    PROVE  /\ SharedInv'
           /\ Elems(queue') \subseteq Elems(queue) \cup {b}
           /\ \A a \in Buf : a # b => flags'[a] = flags[a] /\ assoc'[a] = assoc[a]
<1>1. TypeOK /\ BufOK(b)
  BY BufOKs DEF Inv
<1>2. f \cup {"ERROR"} \in SUBSET Flags
  BY DEF Flags
<1>3. CASE assoc[b] \in BadBlk
  <2>1. /\ flags' = [flags EXCEPT ![b] =
                        (f \cup {"ERROR", "DONE"}) \ {"WANTED", "BUSY", "ASYNC"}]
        /\ assoc' = [assoc EXCEPT ![b] = Nodev]
        /\ Elems(freelist') = Elems(freelist) \cup {b} /\ Distinct(freelist')
        /\ queue' = queue /\ io' = io
    <3>1. Iodone(b, f \cup {"ERROR"}, fl) /\ queue' = queue /\ io' = io
      BY <1>1, <1>3, RkstrategyEffect
    <3>2. "ASYNC" \in f \cup {"ERROR"} /\ "ERROR" \in f \cup {"ERROR"} /\ b \notin Elems(fl)
      OBVIOUS
    <3>3. /\ flags' = [flags EXCEPT ![b] = ((f \cup {"ERROR"}) \cup {"DONE"})
                                            \ {"WANTED", "BUSY", "ASYNC"}]
          /\ assoc' = [assoc EXCEPT ![b] = IF "ERROR" \in f \cup {"ERROR"} THEN Nodev ELSE @]
          /\ Elems(freelist') = Elems(fl) \cup {b} /\ Distinct(freelist')
      BY <1>1, <1>2, <3>1, <3>2, IodoneEffect
    <3> QED
      BY <3>1, <3>2, <3>3
  <2>2. OthersSame(b)
    BY <1>1, <2>1 DEF OthersSame, TypeOK
  <2>3. /\ assoc[b] \notin Blk /\ assoc'[b] = Nodev /\ Nodev \notin Blk
        /\ flags'[b] = (f \cup {"ERROR", "DONE"}) \ {"WANTED", "BUSY", "ASYNC"}
    BY <1>1, <1>3, <2>1, BufAssumption DEF TypeOK
  <2>4. BufOK(b)'
    BY <1>1, <2>1, <2>3 DEF BufOK
  <2> QED
    BY <1>1, <2>1, <2>2, <2>4, OneBufferFrame DEF Inv, ListInv, OthersSame
<1>4. CASE assoc[b] \notin BadBlk
  <2>1. /\ assoc[b] \in Blk /\ flags' = [flags EXCEPT ![b] = f]
        /\ assoc' = assoc /\ freelist' = fl /\ queue' # <<>>
        /\ Elems(queue') = Elems(queue) \cup {b}
        /\ Distinct(queue) => Distinct(queue')
        /\ io' \in Transfer
    BY <1>1, <1>4, RkstrategyEffect
  <2>2. OthersSame(b)
    BY <1>1, <2>1 DEF OthersSame, TypeOK
  <2>3. flags'[b] = f
    BY <1>1, <2>1 DEF TypeOK
  <2>4. BufOK(b)'
    BY <1>1, <2>1, <2>3 DEF BufOK
  <2>5. io' # NoIO
    BY <2>1, BufAssumption DEF Transfer
  <2> QED
    BY <1>1, <2>1, <2>2, <2>4, <2>5, OneBufferFrame DEF Inv, ListInv, OthersSame
<1> QED
  BY <1>3, <1>4

\* A process gives a buffer back: brelse.
LEMMA Release ==
    ASSUME Inv, TypeOK', NEW p \in Proc, NEW b \in Held(p), b \notin Elems(queue),
           NEW f \in SUBSET Flags,
           "DELWRI" \in f => assoc[b] \in Blk, "ERROR" \in f => assoc[b] \notin Blk,
           Brelse(b, f, freelist), queue' = queue, io' = io,
           \A q \in Proc : Held(q)' = Held(q) \ {b}, \A q \in Proc : Hands(q)'
    PROVE  /\ SharedInv'
           /\ \A a \in Buf : a # b => flags'[a] = flags[a] /\ assoc'[a] = assoc[a]
<1>1. b \in Buf /\ TypeOK /\ BufOK(b) /\ freelist \in Seq(Buf) /\ Distinct(freelist)
  BY BufOKs, HeldIn DEF Inv, TypeOK, ListInv
<1>2. b \notin Elems(freelist)
  BY <1>1 DEF BufOK
<1>3. /\ flags' = [flags EXCEPT ![b] = f \ {"WANTED", "BUSY", "ASYNC"}]
      /\ assoc' = [assoc EXCEPT ![b] = IF "ERROR" \in f THEN Nodev ELSE @]
      /\ Elems(freelist') = Elems(freelist) \cup {b} /\ Distinct(freelist')
  BY <1>1, <1>2, BrelseEffect
<1>4. /\ flags'[b] = f \ {"WANTED", "BUSY", "ASYNC"}
      /\ assoc'[b] = IF "ERROR" \in f THEN Nodev ELSE assoc[b]
      /\ Nodev \notin Blk
  BY <1>1, <1>3, BufAssumption DEF TypeOK
<1>5. OthersSame(b)
  BY <1>1, <1>3 DEF OthersSame, TypeOK
<1>6. \A a \in Buf : a # b => assoc'[a] = assoc[a]
  BY <1>5 DEF OthersSame
<1>7. BufOK(b)'
  BY <1>1, <1>3, <1>4, <1>6 DEF BufOK
<1> QED
  BY <1>1, <1>3, <1>5, <1>7, OneBufferFrame DEF Inv, ListInv, OthersSame

-----------------------------------------------------------------------------
(* The processes, when one of them moves. *)

\* Only p moves.
OnlyMoves(p) ==
    \A q \in Proc : q # p =>
        /\ pc'[q] = pc[q] /\ ret'[q] = ret[q] /\ want'[q] = want[q]
        /\ blkno'[q] = blkno[q]
        /\ bp'[q] = bp[q] /\ rbp'[q] = rbp[q] /\ arg'[q] = arg[q]

\* The others keep their part of the invariant when the one buffer that
\* changes is not in their hands.
LEMMA OthersInv ==
    ASSUME Inv, TypeOK', NEW p \in Proc, NEW b \in Buf, OnlyMoves(p),
           \A q \in Proc : q # p => b \notin Held(q),
           \A a \in Buf : a # b => flags'[a] = flags[a] /\ assoc'[a] = assoc[a],
           Elems(queue') \subseteq Elems(queue) \cup {b}
    PROVE  \A q \in Proc : q # p => ProcInv(q)'
<1>1. SUFFICES ASSUME NEW q \in Proc, q # p
               PROVE  ProcInv(q)'
  OBVIOUS
<1>2. NoBuf \notin Elems(queue')
  BY ElemsIn, BufAssumption DEF TypeOK
<1>3. Held(q) \subseteq Buf /\ b \notin Held(q)
  BY <1>1, HeldIn DEF Inv
<1>4. \A a \in Held(q) : /\ a \in Elems(queue') => a \in Elems(queue)
                         /\ assoc'[a] = assoc[a]
                         /\ "DONE" \in flags[a] => "DONE" \in flags'[a]
  BY <1>3
<1>5. /\ pc'[q] = pc[q] /\ ret'[q] = ret[q] /\ want'[q] = want[q]
      /\ blkno'[q] = blkno[q]
      /\ bp'[q] = bp[q] /\ rbp'[q] = rbp[q] /\ arg'[q] = arg[q]
  BY <1>1 DEF OnlyMoves
<1> QED
  BY <1>2, <1>4, <1>5, OtherFrame

\* A buffer in one process's hands is in nobody else's.
LEMMA HeldAlone ==
    ASSUME Inv, NEW p \in Proc, NEW b \in Held(p)
    PROVE  b \in Buf /\ \A q \in Proc : q # p => b \notin Held(q)
<1>1. b \in Buf
  BY HeldIn DEF Inv
<1> QED
  BY <1>1 DEF Inv, OwnInv

\* Where an operation that is over leaves the process.
LEMMA FinishEffect ==
    ASSUME TypeOK, NEW p \in Proc, Finish(p)
    PROVE  /\ pc' \in [Proc -> Pc] /\ cur' \in Proc \cup {NoProc}
           /\ want' \in [Proc -> Block \cup {Nodev}] /\ ret' \in [Proc -> GetblkRet]
           /\ blkno' \in [Proc -> Block \cup {Nodev}]
           /\ rablkno' \in [Proc -> Block \cup {Nodev}]
           /\ \A q \in Proc : q # p => /\ pc'[q] = pc[q] /\ ret'[q] = ret[q]
                                       /\ want'[q] = want[q] /\ blkno'[q] = blkno[q]
           /\ pc'[p] = IF arg[p] = NoBuf THEN "user" ELSE "inexec"
<1>1. CASE arg[p] = NoBuf
  BY <1>1 DEF TypeOK, Finish, Pc, GetblkRet
<1>2. CASE arg[p] # NoBuf
  BY <1>2 DEF TypeOK, Finish, Pc, GetblkRet
<1> QED
  BY <1>1, <1>2

\* A process whose operation is over has its part of the invariant.
LEMMA FinishInv ==
    ASSUME Inv, NEW p \in Proc, Finish(p), bp'[p] = NoBuf, rbp'[p] = NoBuf,
           arg'[p] = arg[p], arg[p] \notin Elems(queue')
    PROVE  ProcInv(p)'
<1>1. pc'[p] = IF arg[p] = NoBuf THEN "user" ELSE "inexec"
  BY FinishEffect DEF Inv
<1> QED
  BY <1>1 DEF ProcInv, InHand, InTransfer, InBmap, InBreada, GetblkRet

\* Every process has the part of the invariant about its hands.
LEMMA HandsNow ==
    ASSUME Inv, NEW q \in Proc
    PROVE  Hands(q) /\ ProcInv(q)
BY DEF Inv, OwnInv, Hands

\* breada takes up its own block again.
LEMMA BreadaMainInv ==
    ASSUME Inv, NEW p \in Proc, BreadaMain(p)
    PROVE  Inv'
<1>0. TypeOK /\ ProcInv(p) /\ Hands(p)
  BY HandsNow DEF Inv
<1>1. CASE rbp[p] = NoBuf
  <2>1. /\ pc' = [pc EXCEPT ![p] = "getblk"]
        /\ want' = [want EXCEPT ![p] = blkno[p]]
        /\ ret' = [ret EXCEPT ![p] = "bread"]
        /\ UNCHANGED <<flags, assoc, data, freelist, freeWanted, queue, io, disk, cur,
                       wchan, bp, rbp, arg, blkno, rablkno, execnt>>
    BY <1>1 DEF BreadaMain, CallGetblk, bufvars, devvars
  <2>2. SharedInv'
    BY <2>1, QuietFrame DEF SharedInv, Shared, ownvars
  <2>3. TypeOK'
    BY <1>0, <2>1 DEF TypeOK, Pc, GetblkRet
  <2>4. ASSUME NEW q \in Proc, q # p
        PROVE  ProcInv(q)'
    <3>1. /\ pc'[q] = pc[q] /\ ret'[q] = ret[q] /\ want'[q] = want[q]
      BY <1>0, <2>1, <2>4 DEF TypeOK
    <3> QED
      BY <2>1, <3>1, QuietOther DEF Shared
  <2>5. ProcInv(p)'
    <3>1. pc[p] = "main" /\ pc'[p] = "getblk" /\ ret'[p] = "bread" /\ want'[p] = blkno[p]
      BY <1>0, <2>1 DEF TypeOK, BreadaMain
    <3> QED
      BY <1>0, <1>1, <2>1, <3>1
      DEF ProcInv, InHand, InTransfer, InBmap, InBreada, GetblkRet
  <2> QED
    BY <2>2, <2>3, <2>4, <2>5 DEF Inv, SharedInv
<1>2. CASE rbp[p] # NoBuf
  <2>1. /\ pc' = [pc EXCEPT ![p] = "iowait"]
        /\ bp' = [bp EXCEPT ![p] = rbp[p]]
        /\ rbp' = [rbp EXCEPT ![p] = NoBuf]
        /\ UNCHANGED <<flags, assoc, data, freelist, freeWanted, queue, io, disk, cur,
                       wchan, want, ret, arg, blkno, rablkno, execnt>>
    BY <1>2 DEF BreadaMain, bufvars, devvars
  <2>2. pc[p] = "main" /\ bp[p] = NoBuf
    BY <1>0 DEF BreadaMain, ProcInv, InHand, GetblkRet
  <2>3. TypeOK'
    BY <1>0, <2>1 DEF TypeOK, Pc
  <2>4. /\ \A q \in Proc : Held(q)' = Held(q) /\ Hands(q)'
        /\ OnlyMoves(p)
    <3>1. bp'[p] = rbp[p] /\ rbp'[p] = NoBuf /\ arg'[p] = arg[p]
      BY <1>0, <2>1 DEF TypeOK
    <3>2. OnlyMoves(p)
      BY <1>0, <2>1 DEF TypeOK, OnlyMoves
    <3>3. ASSUME NEW q \in Proc
          PROVE  Held(q)' = Held(q) /\ Hands(q)'
      BY <1>0, <1>2, <2>2, <3>1, <3>2, HandsNow DEF OnlyMoves, Hands, Held
    <3> QED
      BY <3>2, <3>3
  <2>5. SharedInv'
    BY <2>1, <2>4 DEF Inv, SharedInv, ListInv, FlagInv, OwnInv, OneBufferPerBlock, Hands
  <2>6. \A q \in Proc : q # p => ProcInv(q)'
    BY <1>2, <2>1, <2>3, <2>4, HeldAlone, OthersInv DEF Held
  <2>7. ProcInv(p)'
    <3>1. pc'[p] = "iowait" /\ bp'[p] = rbp[p] /\ rbp'[p] = NoBuf
      BY <1>0, <2>1 DEF TypeOK
    <3> QED
      BY <1>0, <1>2, <2>1, <2>2, <3>1
      DEF ProcInv, InHand, InTransfer, InBmap, InBreada, GetblkRet
  <2> QED
    BY <2>3, <2>5, <2>6, <2>7 DEF Inv, SharedInv
<1> QED
  BY <1>1, <1>2

\* bmap keeps the indirect block and asks for a new one.
LEMMA BmapAllocInv ==
    ASSUME Inv, NEW p \in Proc, NEW k \in Blk, BmapAlloc(p, k)
    PROVE  Inv'
<1>0. /\ TypeOK /\ ProcInv(p) /\ Hands(p)
      /\ pc[p] = "held" /\ arg[p] = NoBuf
  BY HandsNow DEF Inv, BmapAlloc
<1>1. bp[p] # NoBuf /\ rbp[p] = NoBuf
  BY <1>0 DEF ProcInv, InHand, InBmap, InBreada, GetblkRet
<1>2. /\ rbp' = [rbp EXCEPT ![p] = bp[p]]
      /\ bp' = [bp EXCEPT ![p] = NoBuf]
      /\ pc' = [pc EXCEPT ![p] = "getblk"]
      /\ want' = [want EXCEPT ![p] = k]
      /\ ret' = [ret EXCEPT ![p] = "alloc"]
      /\ UNCHANGED <<flags, assoc, data, freelist, freeWanted, queue, io, disk, cur,
                     wchan, arg, blkno, rablkno, execnt>>
  BY DEF BmapAlloc, CallGetblk, bufvars, devvars
<1>3. TypeOK'
  BY <1>0, <1>2 DEF TypeOK, Pc, GetblkRet, Block
<1>4. /\ \A q \in Proc : Held(q)' = Held(q) /\ Hands(q)'
      /\ OnlyMoves(p)
  <2>1. bp'[p] = NoBuf /\ rbp'[p] = bp[p] /\ arg'[p] = arg[p]
    BY <1>0, <1>2 DEF TypeOK
  <2>2. OnlyMoves(p)
    BY <1>0, <1>2 DEF TypeOK, OnlyMoves
  <2>3. ASSUME NEW q \in Proc
        PROVE  Held(q)' = Held(q) /\ Hands(q)'
    BY <1>0, <1>1, <2>1, <2>2, HandsNow DEF OnlyMoves, Hands, Held
  <2> QED
    BY <2>2, <2>3
<1>5. SharedInv'
  BY <1>2, <1>4 DEF Inv, SharedInv, ListInv, FlagInv, OwnInv, OneBufferPerBlock, Hands
<1>6. \A q \in Proc : q # p => ProcInv(q)'
  BY <1>1, <1>2, <1>3, <1>4, HeldAlone, OthersInv DEF Held
<1>7. ProcInv(p)'
  <2>1. /\ pc'[p] = "getblk" /\ bp'[p] = NoBuf /\ rbp'[p] = bp[p]
        /\ want'[p] = k /\ ret'[p] = "alloc"
    BY <1>0, <1>2 DEF TypeOK
  <2>2. k # Nodev
    BY BufAssumption
  <2> QED
    BY <1>0, <1>1, <1>2, <2>1, <2>2
    DEF ProcInv, InHand, InTransfer, InBmap, InBreada, GetblkRet
<1> QED
  BY <1>3, <1>5, <1>6, <1>7 DEF Inv, SharedInv

\* exec packs its arguments into its buffer.
LEMMA ExecArgsInv ==
    ASSUME Inv, NEW p \in Proc, ExecArgs(p)
    PROVE  Inv'
<1>0. TypeOK /\ ProcInv(p) /\ Hands(p) /\ pc[p] = "exec"
  BY HandsNow DEF Inv, ExecArgs
<1>1. bp[p] # NoBuf /\ rbp[p] = NoBuf /\ arg[p] = NoBuf
  BY <1>0 DEF ProcInv, InHand, InBmap, InBreada, GetblkRet
<1>2. /\ arg' = [arg EXCEPT ![p] = bp[p]]
      /\ bp' = [bp EXCEPT ![p] = NoBuf]
      /\ pc' = [pc EXCEPT ![p] = "inexec"]
      /\ UNCHANGED <<flags, assoc, data, freelist, freeWanted, queue, io, disk, cur,
                     wchan, want, ret, rbp, blkno, rablkno, execnt>>
  BY DEF ExecArgs, bufvars, devvars, argvars
<1>3. TypeOK'
  BY <1>0, <1>2 DEF TypeOK, Pc
<1>4. /\ \A q \in Proc : Held(q)' = Held(q) /\ Hands(q)'
      /\ OnlyMoves(p)
  <2>1. bp'[p] = NoBuf /\ rbp'[p] = rbp[p] /\ arg'[p] = bp[p]
    BY <1>0, <1>2 DEF TypeOK
  <2>2. OnlyMoves(p)
    BY <1>0, <1>2 DEF TypeOK, OnlyMoves
  <2>3. ASSUME NEW q \in Proc
        PROVE  Held(q)' = Held(q) /\ Hands(q)'
    BY <1>0, <1>1, <2>1, <2>2, HandsNow DEF OnlyMoves, Hands, Held
  <2> QED
    BY <2>2, <2>3
<1>5. SharedInv'
  BY <1>2, <1>4 DEF Inv, SharedInv, ListInv, FlagInv, OwnInv, OneBufferPerBlock, Hands
<1>6. \A q \in Proc : q # p => ProcInv(q)'
  BY <1>1, <1>2, <1>3, <1>4, HeldAlone, OthersInv DEF Held
<1>7. ProcInv(p)'
  <2>1. pc'[p] = "inexec" /\ bp'[p] = NoBuf /\ arg'[p] = bp[p]
    BY <1>0, <1>2 DEF TypeOK
  <2> QED
    BY <1>0, <1>1, <1>2, <2>1
    DEF ProcInv, InHand, InTransfer, InBmap, InBreada, GetblkRet
<1> QED
  BY <1>3, <1>5, <1>6, <1>7 DEF Inv, SharedInv

-----------------------------------------------------------------------------
(* Transfers. *)

\* The types of what rkstrategy, iodone and brelse change.
BufTypes ==
    /\ flags \in [Buf -> SUBSET Flags]
    /\ assoc \in [Buf -> Block \cup {Nodev}]
    /\ freelist \in Seq(Buf)
    /\ freeWanted \in BOOLEAN
    /\ queue \in Seq(Buf)
    /\ io \in Transfer \cup {NoIO}
    /\ wchan \in [Proc -> Chan]

\* rkstrategy keeps the types.
LEMMA StrategyType ==
    ASSUME TypeOK, NEW b \in Buf, NEW f \in SUBSET Flags, NEW fl \in Seq(Buf),
           assoc[b] # Nodev, Rkstrategy(b, f, fl)
    PROVE  BufTypes'
<1>1. CASE assoc[b] \in BadBlk
  <2>1. Iodone(b, f \cup {"ERROR"}, fl) /\ queue' = queue /\ io' = io
    BY <1>1, RkstrategyEffect
  <2>2. f \cup {"ERROR"} \in SUBSET Flags
    BY DEF Flags
  <2> QED
    BY <2>1, <2>2, IodoneEffect DEF BufTypes, TypeOK
<1>2. CASE assoc[b] \notin BadBlk
  <2>1. /\ flags' \in [Buf -> SUBSET Flags] /\ freelist' = fl
        /\ queue' \in Seq(Buf) /\ io' \in Transfer
        /\ assoc' = assoc /\ freeWanted' = freeWanted /\ wchan' = wchan
    BY <1>2, RkstrategyEffect
  <2> QED
    BY <2>1 DEF BufTypes, TypeOK, Chan
<1> QED
  BY <1>1, <1>2

\* bread starts to read a block that is not in core.
LEMMA BreadStart ==
    ASSUME Inv, NEW p \in Proc, Bread(p), "DONE" \notin flags[bp[p]]
    PROVE  Inv'
<1> DEFINE b == bp[p]
           f == flags[bp[p]] \cup {"READ"}
<1>0. TypeOK /\ ProcInv(p) /\ Hands(p) /\ pc[p] = "bread"
  BY HandsNow DEF Inv, Bread
<1>1. /\ b \in Held(p) /\ b \in Buf /\ b \notin Elems(queue)
      /\ assoc[b] # Nodev /\ rbp[p] = NoBuf
  BY <1>0, HeldIn DEF ProcInv, Held, InHand, InTransfer, InBmap, InBreada, GetblkRet
<1>2. BufOK(b)
  BY <1>1, BufOKs
<1>3. /\ Rkstrategy(b, f, freelist)
      /\ pc' = [pc EXCEPT ![p] = "iowait"]
      /\ UNCHANGED <<data, disk, cur, want, ret, bp, rbp, arg, blkno, rablkno, execnt>>
  BY DEF Bread, bufvars, devvars, argvars, ownvars
<1>4. /\ f \in SUBSET Flags /\ "BUSY" \in f /\ "ASYNC" \notin f /\ "DONE" \notin f
      /\ "DELWRI" \in f => assoc[b] \in Blk
      /\ "ERROR" \in f => assoc[b] \notin Blk
  BY <1>0, <1>1, <1>2 DEF TypeOK, Flags, BufOK
<1> HIDE DEF f
<1>5. TypeOK'
  <2>1. BufTypes'
    BY <1>0, <1>1, <1>3, <1>4, StrategyType DEF TypeOK
  <2> QED
    BY <1>0, <1>3, <2>1 DEF TypeOK, BufTypes, Chan, Pc, GetblkRet
<1>6. /\ \A q \in Proc : Held(q)' = Held(q) /\ Hands(q)'
      /\ OnlyMoves(p)
  <2>1. bp'[p] = bp[p] /\ rbp'[p] = rbp[p] /\ arg'[p] = arg[p]
    BY <1>0, <1>3 DEF TypeOK
  <2>2. OnlyMoves(p)
    BY <1>0, <1>3 DEF TypeOK, OnlyMoves
  <2>3. ASSUME NEW q \in Proc
        PROVE  Held(q)' = Held(q) /\ Hands(q)'
    BY <1>0, <1>1, <2>1, <2>2, HandsNow DEF OnlyMoves, Hands, Held
  <2> QED
    BY <2>2, <2>3
<1>7. /\ SharedInv' /\ assoc' = assoc
      /\ Elems(queue') \subseteq Elems(queue) \cup {b}
      /\ \A a \in Buf : a # b => flags'[a] = flags[a]
  <2>1. SameHands /\ \A q \in Proc : Hands(q)'
    BY <1>6 DEF SameHands
  <2> QED
    BY <1>1, <1>3, <1>4, <1>5, <2>1, KeepStart
<1>8. \A q \in Proc : q # p => ProcInv(q)'
  <2>1. \A q \in Proc : q # p => b \notin Held(q)
    BY <1>1, HeldAlone
  <2> QED
    BY <1>1, <1>5, <1>6, <1>7, <2>1, OthersInv
<1>9. ProcInv(p)'
  <2>1. pc'[p] = "iowait" /\ bp'[p] = bp[p] /\ rbp'[p] = rbp[p] /\ arg'[p] = arg[p]
    BY <1>0, <1>3 DEF TypeOK
  <2>2. arg[p] \notin Elems(queue')
    BY <1>0, <1>1, <1>7 DEF ProcInv, Hands, Held
  <2> QED
    BY <1>0, <1>1, <1>3, <1>7, <2>1, <2>2
    DEF ProcInv, InHand, InTransfer, InBmap, InBreada, GetblkRet
<1> QED
  BY <1>5, <1>7, <1>8, <1>9 DEF Inv, SharedInv

\* breada starts to read its block.
LEMMA Breada1Start ==
    ASSUME Inv, NEW p \in Proc, Breada1(p), "DONE" \notin flags[bp[p]]
    PROVE  Inv'
<1> DEFINE b == bp[p]
           f == flags[bp[p]] \cup {"READ"}
<1>0. TypeOK /\ ProcInv(p) /\ Hands(p) /\ pc[p] = "breada1"
  BY HandsNow DEF Inv, Breada1
<1>1. /\ b \in Held(p) /\ b \in Buf /\ b \notin Elems(queue)
      /\ assoc[b] # Nodev /\ rbp[p] = NoBuf
  BY <1>0, HeldIn DEF ProcInv, Held, InHand, InTransfer, InBmap, InBreada, GetblkRet
<1>2. BufOK(b)
  BY <1>1, BufOKs
<1>3. /\ Rkstrategy(b, f, freelist)
      /\ rbp' = [rbp EXCEPT ![p] = bp[p]]
      /\ bp' = [bp EXCEPT ![p] = NoBuf]
      /\ pc' = [pc EXCEPT ![p] = "ahead"]
      /\ UNCHANGED <<data, disk, cur, want, ret, arg, blkno, rablkno, execnt>>
  BY DEF Breada1, bufvars, devvars, argvars, ownvars
<1>4. /\ f \in SUBSET Flags /\ "BUSY" \in f /\ "ASYNC" \notin f /\ "DONE" \notin f
      /\ "DELWRI" \in f => assoc[b] \in Blk
      /\ "ERROR" \in f => assoc[b] \notin Blk
  BY <1>0, <1>1, <1>2 DEF TypeOK, Flags, BufOK
<1> HIDE DEF f
<1>5. TypeOK'
  <2>1. BufTypes'
    BY <1>0, <1>1, <1>3, <1>4, StrategyType DEF TypeOK
  <2> QED
    BY <1>0, <1>3, <2>1 DEF TypeOK, BufTypes, Chan, Pc, GetblkRet
<1>6. /\ \A q \in Proc : Held(q)' = Held(q) /\ Hands(q)'
      /\ OnlyMoves(p)
  <2>1. bp'[p] = NoBuf /\ rbp'[p] = bp[p] /\ arg'[p] = arg[p]
    BY <1>0, <1>3 DEF TypeOK
  <2>2. OnlyMoves(p)
    BY <1>0, <1>3 DEF TypeOK, OnlyMoves
  <2>3. ASSUME NEW q \in Proc
        PROVE  Held(q)' = Held(q) /\ Hands(q)'
    BY <1>0, <1>1, <2>1, <2>2, HandsNow DEF OnlyMoves, Hands, Held
  <2> QED
    BY <2>2, <2>3
<1>7. /\ SharedInv' /\ assoc' = assoc
      /\ Elems(queue') \subseteq Elems(queue) \cup {b}
      /\ \A a \in Buf : a # b => flags'[a] = flags[a]
  <2>1. SameHands /\ \A q \in Proc : Hands(q)'
    BY <1>6 DEF SameHands
  <2> QED
    BY <1>1, <1>3, <1>4, <1>5, <2>1, KeepStart
<1>8. \A q \in Proc : q # p => ProcInv(q)'
  <2>1. \A q \in Proc : q # p => b \notin Held(q)
    BY <1>1, HeldAlone
  <2> QED
    BY <1>1, <1>5, <1>6, <1>7, <2>1, OthersInv
<1>9. ProcInv(p)'
  <2>1. pc'[p] = "ahead" /\ bp'[p] = NoBuf /\ rbp'[p] = bp[p] /\ arg'[p] = arg[p]
    BY <1>0, <1>3 DEF TypeOK
  <2>2. arg[p] \notin Elems(queue')
    BY <1>0, <1>1, <1>7 DEF ProcInv, Hands, Held
  <2> QED
    BY <1>0, <1>1, <1>3, <1>7, <2>1, <2>2
    DEF ProcInv, InHand, InTransfer, InBmap, InBreada, GetblkRet
<1> QED
  BY <1>5, <1>7, <1>8, <1>9 DEF Inv, SharedInv

\* bwrite starts the transfer.
LEMMA BwriteInv ==
    ASSUME Inv, NEW p \in Proc, Bwrite(p)
    PROVE  Inv'
<1> DEFINE b == bp[p]
           f == flags[bp[p]] \ {"READ", "DONE", "ERROR", "DELWRI"}
<1>0. TypeOK /\ ProcInv(p) /\ Hands(p) /\ pc[p] = "dirty"
  BY HandsNow DEF Inv, Bwrite
<1>1. /\ b \in Held(p) /\ b \in Buf /\ b \notin Elems(queue)
      /\ assoc[b] # Nodev /\ rbp[p] = NoBuf
  BY <1>0, HeldIn DEF ProcInv, Held, InHand, InTransfer, InBmap, InBreada, GetblkRet
<1>2. BufOK(b)
  BY <1>1, BufOKs
<1>3. /\ Rkstrategy(b, f, freelist)
      /\ pc' = [pc EXCEPT ![p] = "bwait"]
      /\ UNCHANGED <<data, disk, cur, want, ret, bp, rbp, arg, blkno, rablkno, execnt>>
  BY DEF Bwrite, BwriteStart, bufvars, devvars, argvars, ownvars
<1>4. /\ f \in SUBSET Flags /\ "BUSY" \in f /\ "ASYNC" \notin f /\ "DONE" \notin f
      /\ "DELWRI" \in f => assoc[b] \in Blk
      /\ "ERROR" \in f => assoc[b] \notin Blk
  BY <1>0, <1>1, <1>2 DEF TypeOK, Flags, BufOK
<1> HIDE DEF f
<1>5. TypeOK'
  <2>1. BufTypes'
    BY <1>0, <1>1, <1>3, <1>4, StrategyType DEF TypeOK
  <2> QED
    BY <1>0, <1>3, <2>1 DEF TypeOK, BufTypes, Chan, Pc, GetblkRet
<1>6. /\ \A q \in Proc : Held(q)' = Held(q) /\ Hands(q)'
      /\ OnlyMoves(p)
  <2>1. bp'[p] = bp[p] /\ rbp'[p] = rbp[p] /\ arg'[p] = arg[p]
    BY <1>0, <1>3 DEF TypeOK
  <2>2. OnlyMoves(p)
    BY <1>0, <1>3 DEF TypeOK, OnlyMoves
  <2>3. ASSUME NEW q \in Proc
        PROVE  Held(q)' = Held(q) /\ Hands(q)'
    BY <1>0, <1>1, <2>1, <2>2, HandsNow DEF OnlyMoves, Hands, Held
  <2> QED
    BY <2>2, <2>3
<1>7. /\ SharedInv' /\ assoc' = assoc
      /\ Elems(queue') \subseteq Elems(queue) \cup {b}
      /\ \A a \in Buf : a # b => flags'[a] = flags[a]
  <2>1. SameHands /\ \A q \in Proc : Hands(q)'
    BY <1>6 DEF SameHands
  <2> QED
    BY <1>1, <1>3, <1>4, <1>5, <2>1, KeepStart
<1>8. \A q \in Proc : q # p => ProcInv(q)'
  <2>1. \A q \in Proc : q # p => b \notin Held(q)
    BY <1>1, HeldAlone
  <2> QED
    BY <1>1, <1>5, <1>6, <1>7, <2>1, OthersInv
<1>9. ProcInv(p)'
  <2>1. pc'[p] = "bwait" /\ bp'[p] = bp[p] /\ rbp'[p] = rbp[p] /\ arg'[p] = arg[p]
    BY <1>0, <1>3 DEF TypeOK
  <2>2. arg[p] \notin Elems(queue')
    BY <1>0, <1>1, <1>7 DEF ProcInv, Hands, Held
  <2> QED
    BY <1>0, <1>1, <1>3, <1>7, <2>1, <2>2
    DEF ProcInv, InHand, InTransfer, InBmap, InBreada, GetblkRet
<1> QED
  BY <1>5, <1>7, <1>8, <1>9 DEF Inv, SharedInv

\* bread finds the block in core, or starts to read it.
LEMMA BreadInv ==
    ASSUME Inv, NEW p \in Proc, Bread(p)
    PROVE  Inv'
<1>1. CASE "DONE" \notin flags[bp[p]]
  BY <1>1, BreadStart
<1>2. CASE "DONE" \in flags[bp[p]]
  <2>1. /\ pc' = [pc EXCEPT ![p] = "held"] /\ pc[p] = "bread"
        /\ UNCHANGED <<flags, assoc, data, freelist, freeWanted, queue, io, disk, cur,
                       wchan, want, ret, bp, rbp, arg, blkno, rablkno, execnt>>
    BY <1>2 DEF Bread, bufvars, devvars, argvars, ownvars
  <2>2. Shared' = Shared /\ ownvars' = ownvars
    BY <2>1 DEF Shared, ownvars
  <2>3. ListInv' /\ FlagInv' /\ OwnInv' /\ OneBufferPerBlock'
    BY <2>2, QuietFrame
  <2>4. TypeOK'
    BY <2>1 DEF Inv, TypeOK, Pc
  <2>5. ASSUME NEW q \in Proc, q # p
        PROVE  ProcInv(q)'
    <3>1. pc'[q] = pc[q]
      BY <2>1, <2>5 DEF Inv, TypeOK
    <3> QED
      BY <2>1, <2>2, <3>1, QuietOther
  <2>6. ProcInv(p)'
    <3>1. pc'[p] = "held" /\ ProcInv(p)
      BY <2>1 DEF Inv, TypeOK
    <3> QED
      BY <1>2, <2>1, <3>1 DEF ProcInv, InHand, InTransfer, InBmap, InBreada, GetblkRet
  <2> QED
    BY <2>3, <2>4, <2>5, <2>6 DEF Inv
<1> QED
  BY <1>1, <1>2

\* breada keeps its block while it asks for the read-ahead block.
LEMMA Breada1Inv ==
    ASSUME Inv, NEW p \in Proc, Breada1(p)
    PROVE  Inv'
<1>1. CASE "DONE" \notin flags[bp[p]]
  BY <1>1, Breada1Start
<1>2. CASE "DONE" \in flags[bp[p]]
  <2>0. /\ TypeOK /\ ProcInv(p) /\ Hands(p) /\ pc[p] = "breada1"
    BY HandsNow DEF Inv, Breada1
  <2>1. bp[p] # NoBuf /\ rbp[p] = NoBuf
    BY <2>0 DEF ProcInv, InHand, InBmap, InBreada, GetblkRet
  <2>2. /\ rbp' = [rbp EXCEPT ![p] = bp[p]]
        /\ bp' = [bp EXCEPT ![p] = NoBuf]
        /\ pc' = [pc EXCEPT ![p] = "ahead"]
        /\ UNCHANGED <<flags, assoc, data, freelist, freeWanted, queue, io, disk, cur,
                       wchan, want, ret, arg, blkno, rablkno, execnt>>
    BY <1>2 DEF Breada1, bufvars, devvars, argvars
  <2>3. TypeOK'
    BY <2>0, <2>2 DEF TypeOK, Pc
  <2>4. /\ \A q \in Proc : Held(q)' = Held(q) /\ Hands(q)'
        /\ OnlyMoves(p)
    <3>1. bp'[p] = NoBuf /\ rbp'[p] = bp[p] /\ arg'[p] = arg[p]
      BY <2>0, <2>2 DEF TypeOK
    <3>2. OnlyMoves(p)
      BY <2>0, <2>2 DEF TypeOK, OnlyMoves
    <3>3. ASSUME NEW q \in Proc
          PROVE  Held(q)' = Held(q) /\ Hands(q)'
      BY <2>0, <2>1, <3>1, <3>2, HandsNow DEF OnlyMoves, Hands, Held
    <3> QED
      BY <3>2, <3>3
  <2>5. SharedInv'
    BY <2>2, <2>4 DEF Inv, SharedInv, ListInv, FlagInv, OwnInv, OneBufferPerBlock, Hands
  <2>6. \A q \in Proc : q # p => ProcInv(q)'
    BY <2>1, <2>2, <2>3, <2>4, HeldAlone, OthersInv DEF Held
  <2>7. ProcInv(p)'
    <3>1. pc'[p] = "ahead" /\ bp'[p] = NoBuf /\ rbp'[p] = bp[p]
      BY <2>0, <2>2 DEF TypeOK
    <3> QED
      BY <2>0, <2>1, <2>2, <3>1
      DEF ProcInv, InHand, InTransfer, InBmap, InBreada, GetblkRet
  <2> QED
    BY <2>3, <2>5, <2>6, <2>7 DEF Inv, SharedInv
<1> QED
  BY <1>1, <1>2

-----------------------------------------------------------------------------
(* Giving a buffer away. *)

\* brelse keeps the types.
LEMMA BrelseType ==
    ASSUME TypeOK, NEW b \in Buf, NEW f \in SUBSET Flags, Brelse(b, f, freelist),
           queue' = queue, io' = io
    PROVE  BufTypes'
<1>1. freelist \in Seq(Buf)
  BY DEF TypeOK
<1>2. /\ flags' \in [Buf -> SUBSET Flags] /\ assoc' \in [Buf -> Block \cup {Nodev}]
      /\ freelist' \in Seq(Buf) /\ freeWanted' \in BOOLEAN /\ wchan' \in [Proc -> Chan]
  BY <1>1, BrelseEffect
<1> QED
  BY <1>2 DEF BufTypes, TypeOK

\* A block that was read is released.
LEMMA ReleaseCleanInv ==
    ASSUME Inv, NEW p \in Proc, ReleaseClean(p)
    PROVE  Inv'
<1> DEFINE b == bp[p]
           f == flags[bp[p]]
<1>0. TypeOK /\ ProcInv(p) /\ Hands(p) /\ pc[p] \in {"held"}
  BY HandsNow DEF Inv, ReleaseClean
<1>1. /\ b \in Held(p) /\ b \in Buf /\ rbp[p] = NoBuf
      /\ pc[p] # "bwait" => b \notin Elems(queue)
      /\ assoc[b] # Nodev
  BY <1>0, HeldIn DEF ProcInv, Held, InHand, InTransfer, InBmap, InBreada, GetblkRet
<1>2. BufOK(b)
  BY <1>1, BufOKs
<1>3. /\ Brelse(b, f, freelist) /\ queue' = queue /\ io' = io
      /\ bp' = [bp EXCEPT ![p] = NoBuf]
      /\ Finish(p)
      /\ UNCHANGED <<data, disk, rbp, arg, execnt>>
  BY DEF ReleaseClean, bufvars, devvars, argvars, ownvars
<1>4. /\ f \in SUBSET Flags
      /\ "DELWRI" \in f => assoc[b] \in Blk
      /\ "ERROR" \in f => assoc[b] \notin Blk
      /\ b \notin Elems(queue)
  BY <1>0, <1>1, <1>2 DEF TypeOK, Flags, BufOK, ProcInv, ReleaseClean
<1> HIDE DEF f
<1>5. TypeOK'
  <2>1. BufTypes'
    BY <1>0, <1>1, <1>3, <1>4, BrelseType
  <2>2. /\ pc' \in [Proc -> Pc] /\ cur' \in Proc \cup {NoProc}
        /\ want' \in [Proc -> Block \cup {Nodev}] /\ ret' \in [Proc -> GetblkRet]
        /\ blkno' \in [Proc -> Block \cup {Nodev}]
        /\ rablkno' \in [Proc -> Block \cup {Nodev}]
    BY <1>0, <1>3, FinishEffect
  <2> QED
    BY <1>0, <1>3, <2>1, <2>2 DEF TypeOK, BufTypes, Chan
<1>6. /\ \A q \in Proc : Held(q)' = Held(q) \ {b} /\ Hands(q)'
      /\ OnlyMoves(p)
  <2>1. bp'[p] = NoBuf /\ rbp'[p] = rbp[p] /\ arg'[p] = arg[p]
    BY <1>0, <1>3 DEF TypeOK
  <2>2. OnlyMoves(p)
    BY <1>0, <1>3, FinishEffect DEF TypeOK, OnlyMoves
  <2>3. ASSUME NEW q \in Proc
        PROVE  Held(q)' = Held(q) \ {b} /\ Hands(q)'
    <3>1. CASE q = p
      BY <1>0, <1>1, <2>1, <3>1 DEF Hands, Held
    <3>2. CASE q # p
      <4>1. b \notin Held(q)
        BY <1>1, <3>2, HeldAlone
      <4> QED
        BY <2>2, <3>2, <4>1, HandsNow DEF OnlyMoves, Hands, Held
    <3> QED
      BY <3>1, <3>2
  <2> QED
    BY <2>2, <2>3
<1>7. /\ SharedInv'
      /\ Elems(queue') \subseteq Elems(queue) \cup {b}
      /\ \A a \in Buf : a # b => flags'[a] = flags[a] /\ assoc'[a] = assoc[a]
  BY <1>1, <1>3, <1>4, <1>5, <1>6, Release
<1>8. \A q \in Proc : q # p => ProcInv(q)'
  <2>1. \A q \in Proc : q # p => b \notin Held(q)
    BY <1>1, HeldAlone
  <2> QED
    BY <1>1, <1>5, <1>6, <1>7, <2>1, OthersInv
<1>9. ProcInv(p)'
  <2>1. bp'[p] = NoBuf /\ rbp'[p] = rbp[p] /\ arg'[p] = arg[p]
    BY <1>0, <1>3 DEF TypeOK
  <2>2. arg[p] \notin Elems(queue')
    BY <1>0, <1>1, <1>7 DEF ProcInv, Hands, Held
  <2> QED
    BY <1>1, <1>3, <2>1, <2>2, FinishInv
<1> QED
  BY <1>5, <1>7, <1>8, <1>9 DEF Inv, SharedInv

\* bwrite releases the buffer when the transfer is over.
LEMMA BwriteRelease ==
    ASSUME Inv, NEW p \in Proc, BwriteWait(p), "DONE" \in flags[bp[p]]
    PROVE  Inv'
<1> DEFINE b == bp[p]
           f == flags[bp[p]]
<1>0. TypeOK /\ ProcInv(p) /\ Hands(p) /\ pc[p] \in {"bwait"}
  BY HandsNow DEF Inv, BwriteWait
<1>1. /\ b \in Held(p) /\ b \in Buf /\ rbp[p] = NoBuf
      /\ pc[p] # "bwait" => b \notin Elems(queue)
      /\ assoc[b] # Nodev
  BY <1>0, HeldIn DEF ProcInv, Held, InHand, InTransfer, InBmap, InBreada, GetblkRet
<1>2. BufOK(b)
  BY <1>1, BufOKs
<1>3. /\ Brelse(b, f, freelist) /\ queue' = queue /\ io' = io
      /\ bp' = [bp EXCEPT ![p] = NoBuf]
      /\ Finish(p)
      /\ UNCHANGED <<data, disk, rbp, arg, execnt>>
  BY DEF BwriteWait, bufvars, devvars, argvars, ownvars
<1>4. /\ f \in SUBSET Flags
      /\ "DELWRI" \in f => assoc[b] \in Blk
      /\ "ERROR" \in f => assoc[b] \notin Blk
      /\ b \notin Elems(queue)
  BY <1>0, <1>1, <1>2 DEF TypeOK, Flags, BufOK, ProcInv, BwriteWait
<1> HIDE DEF f
<1>5. TypeOK'
  <2>1. BufTypes'
    BY <1>0, <1>1, <1>3, <1>4, BrelseType
  <2>2. /\ pc' \in [Proc -> Pc] /\ cur' \in Proc \cup {NoProc}
        /\ want' \in [Proc -> Block \cup {Nodev}] /\ ret' \in [Proc -> GetblkRet]
        /\ blkno' \in [Proc -> Block \cup {Nodev}]
        /\ rablkno' \in [Proc -> Block \cup {Nodev}]
    BY <1>0, <1>3, FinishEffect
  <2> QED
    BY <1>0, <1>3, <2>1, <2>2 DEF TypeOK, BufTypes, Chan
<1>6. /\ \A q \in Proc : Held(q)' = Held(q) \ {b} /\ Hands(q)'
      /\ OnlyMoves(p)
  <2>1. bp'[p] = NoBuf /\ rbp'[p] = rbp[p] /\ arg'[p] = arg[p]
    BY <1>0, <1>3 DEF TypeOK
  <2>2. OnlyMoves(p)
    BY <1>0, <1>3, FinishEffect DEF TypeOK, OnlyMoves
  <2>3. ASSUME NEW q \in Proc
        PROVE  Held(q)' = Held(q) \ {b} /\ Hands(q)'
    <3>1. CASE q = p
      BY <1>0, <1>1, <2>1, <3>1 DEF Hands, Held
    <3>2. CASE q # p
      <4>1. b \notin Held(q)
        BY <1>1, <3>2, HeldAlone
      <4> QED
        BY <2>2, <3>2, <4>1, HandsNow DEF OnlyMoves, Hands, Held
    <3> QED
      BY <3>1, <3>2
  <2> QED
    BY <2>2, <2>3
<1>7. /\ SharedInv'
      /\ Elems(queue') \subseteq Elems(queue) \cup {b}
      /\ \A a \in Buf : a # b => flags'[a] = flags[a] /\ assoc'[a] = assoc[a]
  BY <1>1, <1>3, <1>4, <1>5, <1>6, Release
<1>8. \A q \in Proc : q # p => ProcInv(q)'
  <2>1. \A q \in Proc : q # p => b \notin Held(q)
    BY <1>1, HeldAlone
  <2> QED
    BY <1>1, <1>5, <1>6, <1>7, <2>1, OthersInv
<1>9. ProcInv(p)'
  <2>1. bp'[p] = NoBuf /\ rbp'[p] = rbp[p] /\ arg'[p] = arg[p]
    BY <1>0, <1>3 DEF TypeOK
  <2>2. arg[p] \notin Elems(queue')
    BY <1>0, <1>1, <1>7 DEF ProcInv, Hands, Held
  <2> QED
    BY <1>1, <1>3, <2>1, <2>2, FinishInv
<1> QED
  BY <1>5, <1>7, <1>8, <1>9 DEF Inv, SharedInv

\* bdwrite releases the buffer.
LEMMA BdwriteInv ==
    ASSUME Inv, NEW p \in Proc, Bdwrite(p)
    PROVE  Inv'
<1> DEFINE b == bp[p]
           f == flags[bp[p]] \cup {"DELWRI", "DONE"}
<1>0. TypeOK /\ ProcInv(p) /\ Hands(p) /\ pc[p] \in {"dirty", "dwrite"}
  BY HandsNow DEF Inv, Bdwrite
<1>1. /\ b \in Held(p) /\ b \in Buf /\ rbp[p] = NoBuf
      /\ pc[p] # "bwait" => b \notin Elems(queue)
      /\ assoc[b] # Nodev
  BY <1>0, HeldIn DEF ProcInv, Held, InHand, InTransfer, InBmap, InBreada, GetblkRet
<1>2. BufOK(b)
  BY <1>1, BufOKs
<1>3. /\ Brelse(b, f, freelist) /\ queue' = queue /\ io' = io
      /\ bp' = [bp EXCEPT ![p] = NoBuf]
      /\ Finish(p)
      /\ UNCHANGED <<data, disk, rbp, arg, execnt>>
  BY DEF Bdwrite, bufvars, devvars, argvars, ownvars
<1>4. /\ f \in SUBSET Flags
      /\ "DELWRI" \in f => assoc[b] \in Blk
      /\ "ERROR" \in f => assoc[b] \notin Blk
      /\ b \notin Elems(queue)
  BY <1>0, <1>1, <1>2 DEF TypeOK, Flags, BufOK, ProcInv, Bdwrite
<1> HIDE DEF f
<1>5. TypeOK'
  <2>1. BufTypes'
    BY <1>0, <1>1, <1>3, <1>4, BrelseType
  <2>2. /\ pc' \in [Proc -> Pc] /\ cur' \in Proc \cup {NoProc}
        /\ want' \in [Proc -> Block \cup {Nodev}] /\ ret' \in [Proc -> GetblkRet]
        /\ blkno' \in [Proc -> Block \cup {Nodev}]
        /\ rablkno' \in [Proc -> Block \cup {Nodev}]
    BY <1>0, <1>3, FinishEffect
  <2> QED
    BY <1>0, <1>3, <2>1, <2>2 DEF TypeOK, BufTypes, Chan
<1>6. /\ \A q \in Proc : Held(q)' = Held(q) \ {b} /\ Hands(q)'
      /\ OnlyMoves(p)
  <2>1. bp'[p] = NoBuf /\ rbp'[p] = rbp[p] /\ arg'[p] = arg[p]
    BY <1>0, <1>3 DEF TypeOK
  <2>2. OnlyMoves(p)
    BY <1>0, <1>3, FinishEffect DEF TypeOK, OnlyMoves
  <2>3. ASSUME NEW q \in Proc
        PROVE  Held(q)' = Held(q) \ {b} /\ Hands(q)'
    <3>1. CASE q = p
      BY <1>0, <1>1, <2>1, <3>1 DEF Hands, Held
    <3>2. CASE q # p
      <4>1. b \notin Held(q)
        BY <1>1, <3>2, HeldAlone
      <4> QED
        BY <2>2, <3>2, <4>1, HandsNow DEF OnlyMoves, Hands, Held
    <3> QED
      BY <3>1, <3>2
  <2> QED
    BY <2>2, <2>3
<1>7. /\ SharedInv'
      /\ Elems(queue') \subseteq Elems(queue) \cup {b}
      /\ \A a \in Buf : a # b => flags'[a] = flags[a] /\ assoc'[a] = assoc[a]
  BY <1>1, <1>3, <1>4, <1>5, <1>6, Release
<1>8. \A q \in Proc : q # p => ProcInv(q)'
  <2>1. \A q \in Proc : q # p => b \notin Held(q)
    BY <1>1, HeldAlone
  <2> QED
    BY <1>1, <1>5, <1>6, <1>7, <2>1, OthersInv
<1>9. ProcInv(p)'
  <2>1. bp'[p] = NoBuf /\ rbp'[p] = rbp[p] /\ arg'[p] = arg[p]
    BY <1>0, <1>3 DEF TypeOK
  <2>2. arg[p] \notin Elems(queue')
    BY <1>0, <1>1, <1>7 DEF ProcInv, Hands, Held
  <2> QED
    BY <1>1, <1>3, <2>1, <2>2, FinishInv
<1> QED
  BY <1>5, <1>7, <1>8, <1>9 DEF Inv, SharedInv

\* bawrite gives the buffer to the driver.
LEMMA BawriteInv ==
    ASSUME Inv, NEW p \in Proc, Bawrite(p)
    PROVE  Inv'
<1> DEFINE b == bp[p]
           f == (flags[bp[p]] \cup {"ASYNC"}) \ {"READ", "DONE", "ERROR", "DELWRI"}
<1>0. TypeOK /\ ProcInv(p) /\ Hands(p) /\ pc[p] \in {"dirty"}
  BY HandsNow DEF Inv, Bawrite
<1>1. /\ b \in Held(p) /\ b \in Buf /\ rbp[p] = NoBuf
      /\ pc[p] # "bwait" => b \notin Elems(queue)
      /\ assoc[b] # Nodev
  BY <1>0, HeldIn DEF ProcInv, Held, InHand, InTransfer, InBmap, InBreada, GetblkRet
<1>2. BufOK(b)
  BY <1>1, BufOKs
<1>3. /\ Rkstrategy(b, f, freelist)
      /\ bp' = [bp EXCEPT ![p] = NoBuf]
      /\ Finish(p)
      /\ UNCHANGED <<data, disk, rbp, arg, execnt>>
  BY DEF Bawrite, BwriteStart, bufvars, devvars, argvars, ownvars
<1>4. /\ f \in SUBSET Flags
      /\ "DELWRI" \in f => assoc[b] \in Blk
      /\ "ERROR" \in f => assoc[b] \notin Blk
      /\ b \notin Elems(queue)
      /\ "BUSY" \in f /\ "ASYNC" \in f /\ "DONE" \notin f
  BY <1>0, <1>1, <1>2 DEF TypeOK, Flags, BufOK, ProcInv, Bawrite
<1> HIDE DEF f
<1>5. TypeOK'
  <2>1. BufTypes'
    BY <1>0, <1>1, <1>3, <1>4, StrategyType DEF TypeOK
  <2>2. /\ pc' \in [Proc -> Pc] /\ cur' \in Proc \cup {NoProc}
        /\ want' \in [Proc -> Block \cup {Nodev}] /\ ret' \in [Proc -> GetblkRet]
        /\ blkno' \in [Proc -> Block \cup {Nodev}]
        /\ rablkno' \in [Proc -> Block \cup {Nodev}]
    BY <1>0, <1>3, FinishEffect
  <2> QED
    BY <1>0, <1>3, <2>1, <2>2 DEF TypeOK, BufTypes, Chan
<1>6. /\ \A q \in Proc : Held(q)' = Held(q) \ {b} /\ Hands(q)'
      /\ OnlyMoves(p)
  <2>1. bp'[p] = NoBuf /\ rbp'[p] = rbp[p] /\ arg'[p] = arg[p]
    BY <1>0, <1>3 DEF TypeOK
  <2>2. OnlyMoves(p)
    BY <1>0, <1>3, FinishEffect DEF TypeOK, OnlyMoves
  <2>3. ASSUME NEW q \in Proc
        PROVE  Held(q)' = Held(q) \ {b} /\ Hands(q)'
    <3>1. CASE q = p
      BY <1>0, <1>1, <2>1, <3>1 DEF Hands, Held
    <3>2. CASE q # p
      <4>1. b \notin Held(q)
        BY <1>1, <3>2, HeldAlone
      <4> QED
        BY <2>2, <3>2, <4>1, HandsNow DEF OnlyMoves, Hands, Held
    <3> QED
      BY <3>1, <3>2
  <2> QED
    BY <2>2, <2>3
<1>7. /\ SharedInv'
      /\ Elems(queue') \subseteq Elems(queue) \cup {b}
      /\ \A a \in Buf : a # b => flags'[a] = flags[a] /\ assoc'[a] = assoc[a]
  <2>1. freelist \in Seq(Buf) /\ Distinct(freelist)
    BY <1>0 DEF Inv, TypeOK, ListInv
  <2>2. Elems(freelist) = Elems(freelist) \ {b}
    BY <1>1, <1>2 DEF BufOK
  <2> QED
    BY <1>1, <1>3, <1>4, <1>5, <1>6, <2>1, <2>2, GiveStart
<1>8. \A q \in Proc : q # p => ProcInv(q)'
  <2>1. \A q \in Proc : q # p => b \notin Held(q)
    BY <1>1, HeldAlone
  <2> QED
    BY <1>1, <1>5, <1>6, <1>7, <2>1, OthersInv
<1>9. ProcInv(p)'
  <2>1. bp'[p] = NoBuf /\ rbp'[p] = rbp[p] /\ arg'[p] = arg[p]
    BY <1>0, <1>3 DEF TypeOK
  <2>2. arg[p] \notin Elems(queue')
    BY <1>0, <1>1, <1>7 DEF ProcInv, Hands, Held
  <2> QED
    BY <1>1, <1>3, <2>1, <2>2, FinishInv
<1> QED
  BY <1>5, <1>7, <1>8, <1>9 DEF Inv, SharedInv

\* bmap releases the new block and takes up the indirect block again.
LEMMA BmapBdwriteInv ==
    ASSUME Inv, NEW p \in Proc, BmapBdwrite(p)
    PROVE  Inv'
<1> DEFINE b == bp[p]
           f == flags[bp[p]] \cup {"DELWRI", "DONE"}
<1>0. TypeOK /\ ProcInv(p) /\ Hands(p) /\ pc[p] \in {"nbdw"}
  BY HandsNow DEF Inv, BmapBdwrite
<1>1. /\ b \in Held(p) /\ b \in Buf /\ rbp[p] # NoBuf
      /\ pc[p] # "bwait" => b \notin Elems(queue)
      /\ assoc[b] # Nodev
  BY <1>0, HeldIn DEF ProcInv, Held, InHand, InTransfer, InBmap, InBreada, GetblkRet
<1>2. BufOK(b)
  BY <1>1, BufOKs
<1>3. /\ Brelse(b, f, freelist) /\ queue' = queue /\ io' = io
      /\ bp' = [bp EXCEPT ![p] = rbp[p]]
      /\ rbp' = [rbp EXCEPT ![p] = NoBuf]
      /\ pc' = [pc EXCEPT ![p] = "dwrite"]
      /\ UNCHANGED <<data, disk, cur, want, ret, arg, blkno, rablkno, execnt>>
  BY DEF BmapBdwrite, bufvars, devvars, argvars, ownvars
<1>4. /\ f \in SUBSET Flags
      /\ "DELWRI" \in f => assoc[b] \in Blk
      /\ "ERROR" \in f => assoc[b] \notin Blk
      /\ b \notin Elems(queue)
  BY <1>0, <1>1, <1>2 DEF TypeOK, Flags, BufOK, ProcInv, BmapBdwrite
<1> HIDE DEF f
<1>5. TypeOK'
  <2>1. BufTypes'
    BY <1>0, <1>1, <1>3, <1>4, BrelseType
  <2> QED
    BY <1>0, <1>3, <2>1 DEF TypeOK, BufTypes, Chan, Pc
<1>6. /\ \A q \in Proc : Held(q)' = Held(q) \ {b} /\ Hands(q)'
      /\ OnlyMoves(p)
  <2>1. bp'[p] = rbp[p] /\ rbp'[p] = NoBuf /\ arg'[p] = arg[p]
    BY <1>0, <1>3 DEF TypeOK
  <2>2. OnlyMoves(p)
    BY <1>0, <1>3 DEF TypeOK, OnlyMoves
  <2>3. ASSUME NEW q \in Proc
        PROVE  Held(q)' = Held(q) \ {b} /\ Hands(q)'
    <3>1. CASE q = p
      BY <1>0, <1>1, <2>1, <3>1 DEF Hands, Held
    <3>2. CASE q # p
      <4>1. b \notin Held(q)
        BY <1>1, <3>2, HeldAlone
      <4> QED
        BY <2>2, <3>2, <4>1, HandsNow DEF OnlyMoves, Hands, Held
    <3> QED
      BY <3>1, <3>2
  <2> QED
    BY <2>2, <2>3
<1>7. /\ SharedInv'
      /\ Elems(queue') \subseteq Elems(queue) \cup {b}
      /\ \A a \in Buf : a # b => flags'[a] = flags[a] /\ assoc'[a] = assoc[a]
  BY <1>1, <1>3, <1>4, <1>5, <1>6, Release
<1>8. \A q \in Proc : q # p => ProcInv(q)'
  <2>1. \A q \in Proc : q # p => b \notin Held(q)
    BY <1>1, HeldAlone
  <2> QED
    BY <1>1, <1>5, <1>6, <1>7, <2>1, OthersInv
<1>9. ProcInv(p)'
  <2>1. bp'[p] = rbp[p] /\ rbp'[p] = NoBuf /\ arg'[p] = arg[p] /\ pc'[p] = "dwrite"
    BY <1>0, <1>3 DEF TypeOK
  <2>2. arg[p] \notin Elems(queue')
    BY <1>0, <1>1, <1>7 DEF ProcInv, Hands, Held
  <2>3. rbp[p] # NoBuf => /\ assoc'[rbp[p]] = assoc[rbp[p]]
                          /\ rbp[p] \in Elems(queue') => rbp[p] \in Elems(queue)
    BY <1>0, <1>1, <1>7 DEF Hands, TypeOK
  <2> QED
    BY <1>0, <1>1, <1>3, <1>7, <2>1, <2>2, <2>3
    DEF ProcInv, InHand, InTransfer, InBmap, InBreada, GetblkRet
<1> QED
  BY <1>5, <1>7, <1>8, <1>9 DEF Inv, SharedInv

\* breada releases a read-ahead block that is in core by now.
LEMMA Breada2Release ==
    ASSUME Inv, NEW p \in Proc, Breada2(p), "DONE" \in flags[bp[p]]
    PROVE  Inv'
<1> DEFINE b == bp[p]
           f == flags[bp[p]]
<1>0. TypeOK /\ ProcInv(p) /\ Hands(p) /\ pc[p] \in {"breada2"}
  BY HandsNow DEF Inv, Breada2
<1>1. /\ b \in Held(p) /\ b \in Buf
      /\ pc[p] # "bwait" => b \notin Elems(queue)
      /\ assoc[b] # Nodev
  BY <1>0, HeldIn DEF ProcInv, Held, InHand, InTransfer, InBmap, InBreada, GetblkRet
<1>2. BufOK(b)
  BY <1>1, BufOKs
<1>3. /\ Brelse(b, f, freelist) /\ queue' = queue /\ io' = io
      /\ bp' = [bp EXCEPT ![p] = NoBuf]
      /\ pc' = [pc EXCEPT ![p] = "main"]
      /\ UNCHANGED <<data, disk, cur, want, ret, rbp, arg, blkno, rablkno, execnt>>
  BY DEF Breada2, bufvars, devvars, argvars, ownvars
<1>4. /\ f \in SUBSET Flags
      /\ "DELWRI" \in f => assoc[b] \in Blk
      /\ "ERROR" \in f => assoc[b] \notin Blk
      /\ b \notin Elems(queue)
  BY <1>0, <1>1, <1>2 DEF TypeOK, Flags, BufOK, ProcInv, Breada2
<1> HIDE DEF f
<1>5. TypeOK'
  <2>1. BufTypes'
    BY <1>0, <1>1, <1>3, <1>4, BrelseType
  <2> QED
    BY <1>0, <1>3, <2>1 DEF TypeOK, BufTypes, Chan, Pc
<1>6. /\ \A q \in Proc : Held(q)' = Held(q) \ {b} /\ Hands(q)'
      /\ OnlyMoves(p)
  <2>1. bp'[p] = NoBuf /\ rbp'[p] = rbp[p] /\ arg'[p] = arg[p]
    BY <1>0, <1>3 DEF TypeOK
  <2>2. OnlyMoves(p)
    BY <1>0, <1>3 DEF TypeOK, OnlyMoves
  <2>3. ASSUME NEW q \in Proc
        PROVE  Held(q)' = Held(q) \ {b} /\ Hands(q)'
    <3>1. CASE q = p
      BY <1>0, <1>1, <2>1, <3>1 DEF Hands, Held
    <3>2. CASE q # p
      <4>1. b \notin Held(q)
        BY <1>1, <3>2, HeldAlone
      <4> QED
        BY <2>2, <3>2, <4>1, HandsNow DEF OnlyMoves, Hands, Held
    <3> QED
      BY <3>1, <3>2
  <2> QED
    BY <2>2, <2>3
<1>7. /\ SharedInv'
      /\ Elems(queue') \subseteq Elems(queue) \cup {b}
      /\ \A a \in Buf : a # b => flags'[a] = flags[a] /\ assoc'[a] = assoc[a]
  BY <1>1, <1>3, <1>4, <1>5, <1>6, Release
<1>8. \A q \in Proc : q # p => ProcInv(q)'
  <2>1. \A q \in Proc : q # p => b \notin Held(q)
    BY <1>1, HeldAlone
  <2> QED
    BY <1>1, <1>5, <1>6, <1>7, <2>1, OthersInv
<1>9. ProcInv(p)'
  <2>1. bp'[p] = NoBuf /\ rbp'[p] = rbp[p] /\ arg'[p] = arg[p] /\ pc'[p] = "main"
    BY <1>0, <1>3 DEF TypeOK
  <2>2. arg[p] \notin Elems(queue')
    BY <1>0, <1>1, <1>7 DEF ProcInv, Hands, Held
  <2>3. rbp[p] # NoBuf => /\ assoc'[rbp[p]] = assoc[rbp[p]]
                          /\ rbp[p] \in Elems(queue') => rbp[p] \in Elems(queue)
    BY <1>0, <1>1, <1>7 DEF Hands, TypeOK
  <2> QED
    BY <1>0, <1>1, <1>3, <1>7, <2>1, <2>2, <2>3
    DEF ProcInv, InHand, InTransfer, InBmap, InBreada, GetblkRet
<1> QED
  BY <1>5, <1>7, <1>8, <1>9 DEF Inv, SharedInv

\* breada gives the read-ahead block to the driver.
LEMMA Breada2Start ==
    ASSUME Inv, NEW p \in Proc, Breada2(p), "DONE" \notin flags[bp[p]]
    PROVE  Inv'
<1> DEFINE b == bp[p]
           f == flags[bp[p]] \cup {"READ", "ASYNC"}
<1>0. TypeOK /\ ProcInv(p) /\ Hands(p) /\ pc[p] \in {"breada2"}
  BY HandsNow DEF Inv, Breada2
<1>1. /\ b \in Held(p) /\ b \in Buf
      /\ pc[p] # "bwait" => b \notin Elems(queue)
      /\ assoc[b] # Nodev
  BY <1>0, HeldIn DEF ProcInv, Held, InHand, InTransfer, InBmap, InBreada, GetblkRet
<1>2. BufOK(b)
  BY <1>1, BufOKs
<1>3. /\ Rkstrategy(b, f, freelist)
      /\ bp' = [bp EXCEPT ![p] = NoBuf]
      /\ pc' = [pc EXCEPT ![p] = "main"]
      /\ UNCHANGED <<data, disk, cur, want, ret, rbp, arg, blkno, rablkno, execnt>>
  BY DEF Breada2, bufvars, devvars, argvars, ownvars
<1>4. /\ f \in SUBSET Flags
      /\ "DELWRI" \in f => assoc[b] \in Blk
      /\ "ERROR" \in f => assoc[b] \notin Blk
      /\ b \notin Elems(queue)
      /\ "BUSY" \in f /\ "ASYNC" \in f /\ "DONE" \notin f
  BY <1>0, <1>1, <1>2 DEF TypeOK, Flags, BufOK, ProcInv, Breada2
<1> HIDE DEF f
<1>5. TypeOK'
  <2>1. BufTypes'
    BY <1>0, <1>1, <1>3, <1>4, StrategyType DEF TypeOK
  <2> QED
    BY <1>0, <1>3, <2>1 DEF TypeOK, BufTypes, Chan, Pc
<1>6. /\ \A q \in Proc : Held(q)' = Held(q) \ {b} /\ Hands(q)'
      /\ OnlyMoves(p)
  <2>1. bp'[p] = NoBuf /\ rbp'[p] = rbp[p] /\ arg'[p] = arg[p]
    BY <1>0, <1>3 DEF TypeOK
  <2>2. OnlyMoves(p)
    BY <1>0, <1>3 DEF TypeOK, OnlyMoves
  <2>3. ASSUME NEW q \in Proc
        PROVE  Held(q)' = Held(q) \ {b} /\ Hands(q)'
    <3>1. CASE q = p
      BY <1>0, <1>1, <2>1, <3>1 DEF Hands, Held
    <3>2. CASE q # p
      <4>1. b \notin Held(q)
        BY <1>1, <3>2, HeldAlone
      <4> QED
        BY <2>2, <3>2, <4>1, HandsNow DEF OnlyMoves, Hands, Held
    <3> QED
      BY <3>1, <3>2
  <2> QED
    BY <2>2, <2>3
<1>7. /\ SharedInv'
      /\ Elems(queue') \subseteq Elems(queue) \cup {b}
      /\ \A a \in Buf : a # b => flags'[a] = flags[a] /\ assoc'[a] = assoc[a]
  <2>1. freelist \in Seq(Buf) /\ Distinct(freelist)
    BY <1>0 DEF Inv, TypeOK, ListInv
  <2>2. Elems(freelist) = Elems(freelist) \ {b}
    BY <1>1, <1>2 DEF BufOK
  <2> QED
    BY <1>1, <1>3, <1>4, <1>5, <1>6, <2>1, <2>2, GiveStart
<1>8. \A q \in Proc : q # p => ProcInv(q)'
  <2>1. \A q \in Proc : q # p => b \notin Held(q)
    BY <1>1, HeldAlone
  <2> QED
    BY <1>1, <1>5, <1>6, <1>7, <2>1, OthersInv
<1>9. ProcInv(p)'
  <2>1. bp'[p] = NoBuf /\ rbp'[p] = rbp[p] /\ arg'[p] = arg[p] /\ pc'[p] = "main"
    BY <1>0, <1>3 DEF TypeOK
  <2>2. arg[p] \notin Elems(queue')
    BY <1>0, <1>1, <1>7 DEF ProcInv, Hands, Held
  <2>3. rbp[p] # NoBuf => /\ assoc'[rbp[p]] = assoc[rbp[p]]
                          /\ rbp[p] \in Elems(queue') => rbp[p] \in Elems(queue)
    BY <1>0, <1>1, <1>7 DEF Hands, TypeOK
  <2> QED
    BY <1>0, <1>1, <1>3, <1>7, <2>1, <2>2, <2>3
    DEF ProcInv, InHand, InTransfer, InBmap, InBreada, GetblkRet
<1> QED
  BY <1>5, <1>7, <1>8, <1>9 DEF Inv, SharedInv

\* breada starts the read-ahead, or releases the block.
LEMMA Breada2Inv ==
    ASSUME Inv, NEW p \in Proc, Breada2(p)
    PROVE  Inv'
<1>1. CASE "DONE" \in flags[bp[p]]
  BY <1>1, Breada2Release
<1>2. CASE "DONE" \notin flags[bp[p]]
  BY <1>2, Breada2Start
<1> QED
  BY <1>1, <1>2

\* bwrite waits, or releases the buffer.
LEMMA BwriteWaitInv ==
    ASSUME Inv, NEW p \in Proc, BwriteWait(p)
    PROVE  Inv'
<1>1. CASE "DONE" \in flags[bp[p]]
  BY <1>1, BwriteRelease
<1>2. CASE "DONE" \notin flags[bp[p]]
  <2>1. /\ wchan' = [wchan EXCEPT ![p] = bp[p]] /\ cur' = NoProc /\ pc[p] = "bwait"
        /\ UNCHANGED <<flags, assoc, data, freelist, freeWanted, queue, io, disk,
                       pc, want, ret, bp, rbp, arg, blkno, rablkno, execnt>>
    BY <1>2 DEF BwriteWait, Sleep, devvars, argvars
  <2>2. Shared' = Shared /\ ownvars' = ownvars
    BY <2>1 DEF Shared, ownvars
  <2>3. ListInv' /\ FlagInv' /\ OwnInv' /\ OneBufferPerBlock'
    BY <2>2, QuietFrame
  <2>4. bp[p] \in Buf
    BY <2>1 DEF Inv, TypeOK, ProcInv, InHand
  <2>5. TypeOK'
    BY <2>1, <2>4 DEF Inv, TypeOK
  <2>6. \A q \in Proc : ProcInv(q)'
    BY <2>1, <2>2, QuietOther
  <2> QED
    BY <2>3, <2>5, <2>6 DEF Inv
<1> QED
  BY <1>1, <1>2

\* exec gives its buffer back.
LEMMA ExecEndInv ==
    ASSUME Inv, NEW p \in Proc, ExecEnd(p)
    PROVE  Inv'
<1>0. TypeOK /\ ProcInv(p) /\ Hands(p) /\ pc[p] = "inexec"
  BY HandsNow DEF Inv, ExecEnd
<1>b. PICK b \in Buf : b = arg[p]
  BY <1>0 DEF ProcInv, TypeOK
<1>1. /\ b \in Held(p) /\ b \in Buf /\ b \notin Elems(queue)
      /\ bp[p] = NoBuf /\ rbp[p] = NoBuf
  BY <1>0, <1>b, BufAssumption
  DEF ProcInv, Held, InHand, InBmap, InBreada, GetblkRet
<1>2. BufOK(b)
  BY <1>1, BufOKs
<1>3. /\ flags' = [flags EXCEPT ![b] = flags[b] \ {"WANTED", "BUSY", "ASYNC"}]
      /\ freelist' = Append(freelist, b) /\ freeWanted' = FALSE
      /\ arg' = [arg EXCEPT ![p] = NoBuf] /\ execnt' = execnt - 1
      /\ pc' = [pc EXCEPT ![p] = "user"] /\ cur' = NoProc
      /\ UNCHANGED <<assoc, data, queue, io, disk, want, ret, blkno, rablkno, bp, rbp>>
  BY <1>b DEF ExecEnd, devvars, argvars
<1>4. wchan' \in [Proc -> Chan]
  BY <1>0, WakeupType DEF ExecEnd, TypeOK, Chan
<1>5. /\ freelist' \in Seq(Buf) /\ Distinct(freelist')
      /\ Elems(freelist') = Elems(freelist) \cup {b}
  BY <1>0, <1>1, <1>2, <1>3, AppendElems DEF Inv, TypeOK, ListInv, BufOK
<1>6. TypeOK'
  <2>1. flags' \in [Buf -> SUBSET Flags]
    BY <1>0, <1>1, <1>3 DEF TypeOK
  <2>2. pc' \in [Proc -> Pc] /\ arg' \in [Proc -> Buf \cup {NoBuf}]
    BY <1>0, <1>3 DEF TypeOK, Pc
  <2>3. execnt' \in Int
    BY <1>0, <1>3 DEF TypeOK
  <2>4. freeWanted' \in BOOLEAN /\ cur' \in Proc \cup {NoProc}
    BY <1>3
  <2> QED
    BY <1>0, <1>3, <1>4, <1>5, <2>1, <2>2, <2>3, <2>4 DEF TypeOK, Chan
<1>7. /\ \A q \in Proc : Held(q)' = Held(q) \ {b} /\ Hands(q)'
      /\ OnlyMoves(p)
  <2>1. bp'[p] = bp[p] /\ rbp'[p] = rbp[p] /\ arg'[p] = NoBuf
    BY <1>0, <1>3 DEF TypeOK
  <2>2. OnlyMoves(p)
    BY <1>0, <1>3 DEF TypeOK, OnlyMoves
  <2>3. ASSUME NEW q \in Proc
        PROVE  Held(q)' = Held(q) \ {b} /\ Hands(q)'
    <3>1. CASE q = p
      BY <1>0, <1>1, <1>b, <2>1, <3>1 DEF Hands, Held
    <3>2. CASE q # p
      <4>1. b \notin Held(q)
        BY <1>1, <3>2, HeldAlone
      <4> QED
        BY <2>2, <3>2, <4>1, HandsNow DEF OnlyMoves, Hands, Held
    <3> QED
      BY <3>1, <3>2
  <2> QED
    BY <2>2, <2>3
<1>8. /\ OthersSame(b)
      /\ flags'[b] = flags[b] \ {"WANTED", "BUSY", "ASYNC"}
  BY <1>0, <1>1, <1>3, <1>5, <1>7 DEF OthersSame, TypeOK
<1>9. BufOK(b)'
  <2>1. "BUSY" \notin flags'[b] /\ "ASYNC" \notin flags'[b]
    BY <1>8
  <2>2. /\ "DELWRI" \in flags'[b] => "DELWRI" \in flags[b]
        /\ "ERROR" \in flags'[b] => "ERROR" \in flags[b]
    BY <1>8
  <2>3. \A q \in Proc : b \notin Held(q)'
    BY <1>7
  <2>4. b \in Elems(freelist') /\ b \notin Elems(queue')
    BY <1>1, <1>3, <1>5
  <2> QED
    BY <1>2, <1>3, <2>1, <2>2, <2>3, <2>4 DEF BufOK
<1>10. SharedInv'
  <2>1. Distinct(queue') /\ (io' = NoIO <=> queue' = <<>>)
    BY <1>3 DEF Inv, ListInv
  <2> QED
    BY <1>1, <1>5, <1>6, <1>7, <1>8, <1>9, <2>1, OneBufferFrame
<1>11. \A q \in Proc : q # p => ProcInv(q)'
  <2>1. \A q \in Proc : q # p => b \notin Held(q)
    BY <1>1, HeldAlone
  <2> QED
    BY <1>1, <1>3, <1>6, <1>7, <1>8, <2>1, OthersInv DEF OthersSame
<1>12. ProcInv(p)'
  <2>1. pc'[p] = "user" /\ bp'[p] = NoBuf /\ rbp'[p] = NoBuf /\ arg'[p] = NoBuf
    BY <1>0, <1>1, <1>3 DEF TypeOK
  <2>2. NoBuf \notin Elems(queue')
    BY <1>6, ElemsIn, BufAssumption DEF TypeOK
  <2> QED
    BY <2>1, <2>2 DEF ProcInv, InHand, InTransfer, InBmap, InBreada, GetblkRet
<1> QED
  BY <1>6, <1>10, <1>11, <1>12 DEF Inv, SharedInv

-----------------------------------------------------------------------------
(* getblk. *)

\* getblk asks for a wakeup and sleeps.
LEMMA GetblkBusyInv ==
    ASSUME Inv, NEW p \in Proc, GetblkBusy(p)
    PROVE  Inv'
<1>1. PICK b \in Buf : /\ flags' = [flags EXCEPT ![b] = flags[b] \cup {"WANTED"}]
                       /\ wchan' = [wchan EXCEPT ![p] = b] /\ cur' = NoProc
  BY DEF GetblkBusy, Sleep
<1>2. UNCHANGED <<assoc, freelist, freeWanted, data, queue, io, disk, pc, want, ret,
                  blkno, rablkno, bp, rbp, arg, execnt>>
  BY DEF GetblkBusy, devvars, argvars, ownvars
<1>3. TypeOK /\ BufOK(b)
  BY BufOKs DEF Inv
<1>4. /\ flags'[b] = flags[b] \cup {"WANTED"}
      /\ \A a \in Buf : a # b => flags'[a] = flags[a]
  BY <1>1, <1>3 DEF TypeOK
<1>5. TypeOK'
  BY <1>1, <1>2, <1>3 DEF TypeOK, Flags
<1>6. \A q \in Proc : Held(q)' = Held(q) /\ Hands(q)'
  BY <1>2, HandsNow DEF Held, Hands
<1>7. SharedInv'
  <2>1. OthersSame(b)
    BY <1>2, <1>4, <1>6 DEF OthersSame
  <2>2. BufOK(b)'
    BY <1>2, <1>3, <1>4, <1>6 DEF BufOK
  <2> QED
    BY <1>2, <1>5, <1>6, <2>1, <2>2, OneBufferFrame DEF Inv, ListInv
<1>8. ASSUME NEW q \in Proc
      PROVE  ProcInv(q)'
  <2>1. NoBuf \notin Elems(queue')
    BY <1>5, ElemsIn, BufAssumption DEF TypeOK
  <2>2. \A a \in Held(q) : "DONE" \in flags[a] => "DONE" \in flags'[a]
    BY <1>3, <1>4, HeldIn
  <2> QED
    BY <1>2, <2>1, <2>2, OtherFrame
<1> QED
  BY <1>5, <1>7, <1>8 DEF Inv, SharedInv

\* A process takes a buffer off the available list, for the block it wants.
LEMMA TakeInv ==
    ASSUME Inv, NEW p \in Proc, pc[p] = "getblk", NEW b \in Buf,
           NEW f \in SUBSET Flags, b \in Elems(freelist),
           "BUSY" \in f, "ASYNC" \notin f,
           "DELWRI" \in f => want[p] \in Blk, "ERROR" \in f => want[p] \notin Blk,
           want[p] # Nodev => \A a \in Buf : assoc[a] = want[p] => a = b,
           flags' = [flags EXCEPT ![b] = f],
           assoc' = [assoc EXCEPT ![b] = want[p]],
           freelist' \in Seq(Buf), Distinct(freelist'),
           Elems(freelist') = Elems(freelist) \ {b},
           bp' = [bp EXCEPT ![p] = b],
           pc' = [pc EXCEPT ![p] = ret[p]],
           UNCHANGED <<freeWanted, wchan, data, queue, io, disk, cur, want, ret, blkno,
                       rablkno, rbp, arg, execnt>>
    PROVE  Inv'
<1>0. TypeOK /\ ProcInv(p) /\ Hands(p) /\ BufOK(b) /\ want[p] \in Block \cup {Nodev}
  BY HandsNow, BufOKs DEF Inv, TypeOK
<1>1. TypeOK'
  BY <1>0 DEF TypeOK, Pc
<1>2. bp[p] = NoBuf /\ b # NoBuf /\ \A q \in Proc : b \notin Held(q)
  BY <1>0, BufAssumption DEF ProcInv, BufOK, InHand, GetblkRet
<1>3. b \notin Elems(queue)
  BY <1>0 DEF BufOK
<1>4. /\ bp'[p] = b /\ pc'[p] = ret[p]
      /\ flags'[b] = f /\ assoc'[b] = want[p]
      /\ \A a \in Buf : a # b => flags'[a] = flags[a] /\ assoc'[a] = assoc[a]
      /\ OnlyMoves(p)
  BY <1>0 DEF TypeOK, OnlyMoves
<1>5. /\ Held(p)' = Held(p) \cup {b} /\ Hands(p)'
      /\ \A q \in Proc : q # p => Held(q)' = Held(q) /\ Hands(q)'
  <2>1. Held(p)' = Held(p) \cup {b}
    BY <1>2, <1>4 DEF Held
  <2>2. Hands(p)'
    BY <1>0, <1>2, <1>4 DEF Hands, Held
  <2>3. \A q \in Proc : q # p => Held(q)' = Held(q) /\ Hands(q)'
    BY <1>4, HandsNow DEF OnlyMoves, Held, Hands
  <2> QED
    BY <2>1, <2>2, <2>3
<1>6. SharedInv'
  <2>1. OthersSame(b)
    BY <1>4, <1>5 DEF OthersSame
  <2>2. \A a \in Buf : assoc'[b] # Nodev /\ assoc'[a] = assoc'[b] => a = b
    BY <1>4
  <2>3. BufOK(b)'
    BY <1>2, <1>3, <1>4, <1>5, <2>2 DEF BufOK
  <2> QED
    BY <1>1, <1>5, <2>1, <2>3, OneBufferFrame DEF Inv, ListInv
<1>7. \A q \in Proc : q # p => ProcInv(q)'
  BY <1>1, <1>2, <1>4, OthersInv
<1>8. ProcInv(p)'
  <2>1. ret[p] \in GetblkRet
    BY <1>0 DEF TypeOK
  <2>2. rbp[p] # NoBuf => assoc'[rbp[p]] = assoc[rbp[p]]
    BY <1>0, <1>2, <1>4 DEF Held, TypeOK
  <2>3. ret[p] \in InHand \ InTransfer /\ ret[p] # "held"
    BY <2>1 DEF InHand, InTransfer, GetblkRet
  <2>4. /\ InBmap(p)' <=> InBmap(p)
        /\ InBreada(p) => InBreada(p)'
    BY <1>4, <2>1 DEF InBmap, InBreada, GetblkRet
  <2>5. arg[p] # NoBuf => ret[p] # "exec"
    BY <1>0 DEF ProcInv
  <2>6. ret[p] \notin {"user", "execwait", "bflush", "inexec", "getblk", "ind", "nbdw",
                       "breada", "ahead", "main"}
    BY <2>1 DEF GetblkRet
  <2>7. Nodev \notin Blk
    BY BufAssumption
  <2>8. ret[p] # "exec" => want[p] # Nodev
    BY <1>0 DEF ProcInv
  <2>9. ret[p] = "alloc" => want[p] \in Blk
    BY <1>0 DEF ProcInv, InBmap
  <2>10. ret[p] \in {"breada1", "breada2"} => blkno[p] # Nodev
    BY <1>0 DEF ProcInv
  <2> QED
    BY <1>0, <1>2, <1>3, <1>4, <2>1, <2>2, <2>3, <2>4, <2>5, <2>6, <2>7, <2>8, <2>9,
       <2>10
    DEF ProcInv
<1> QED
  BY <1>1, <1>6, <1>7, <1>8 DEF Inv, SharedInv

\* getblk returns the available buffer of its block.
LEMMA GetblkHitInv ==
    ASSUME Inv, NEW p \in Proc, GetblkHit(p)
    PROVE  Inv'
<1>1. PICK b \in Buf :
          /\ assoc[b] = want[p] /\ "BUSY" \notin flags[b]
          /\ flags' = [flags EXCEPT ![b] = flags[b] \cup {"BUSY"}]
          /\ freelist' = Unlink(freelist, b)
          /\ bp' = [bp EXCEPT ![p] = b]
  BY DEF GetblkHit
<1>2. /\ pc[p] = "getblk" /\ want[p] # Nodev /\ pc' = [pc EXCEPT ![p] = ret[p]]
      /\ UNCHANGED <<assoc, freeWanted, wchan, data, queue, io, disk, cur, want, ret,
                     blkno, rablkno, rbp, arg, execnt>>
  BY DEF GetblkHit, devvars, argvars
<1>3. TypeOK /\ BufOK(b)
  BY BufOKs DEF Inv
<1>4. /\ b \in Elems(freelist)
      /\ flags[b] \cup {"BUSY"} \in SUBSET Flags
      /\ "ASYNC" \notin flags[b] \cup {"BUSY"}
      /\ "DELWRI" \in flags[b] \cup {"BUSY"} => want[p] \in Blk
      /\ "ERROR" \in flags[b] \cup {"BUSY"} => want[p] \notin Blk
      /\ \A a \in Buf : assoc[a] = want[p] => a = b
  BY <1>1, <1>2, <1>3 DEF BufOK, TypeOK, Flags
<1>5. assoc' = [assoc EXCEPT ![b] = want[p]]
  BY <1>1, <1>2, <1>3 DEF TypeOK
<1>6. /\ freelist' \in Seq(Buf) /\ Distinct(freelist')
      /\ Elems(freelist') = Elems(freelist) \ {b}
  BY <1>1, <1>3, <1>4, UnlinkElems DEF Inv, ListInv, TypeOK
<1>7. "BUSY" \in flags[b] \cup {"BUSY"}
  OBVIOUS
<1> QED
  BY <1>1, <1>2, <1>4, <1>5, <1>6, <1>7, TakeInv

\* getblk gives the oldest available buffer to the block.
LEMMA GetblkReassignInv ==
    ASSUME Inv, NEW p \in Proc, GetblkReassign(p)
    PROVE  Inv'
<1> DEFINE b == Head(freelist)
<1>1. /\ pc[p] = "getblk" /\ freelist # <<>>
      /\ want[p] = Nodev \/ ~Incore(want[p])
      /\ flags' = [flags EXCEPT ![b] = {"BUSY"}]
      /\ assoc' = [assoc EXCEPT ![b] = want[p]]
      /\ freelist' = Tail(freelist)
      /\ bp' = [bp EXCEPT ![p] = b]
      /\ pc' = [pc EXCEPT ![p] = ret[p]]
      /\ UNCHANGED <<freeWanted, wchan, data, queue, io, disk, cur, want, ret, blkno,
                     rablkno, rbp, arg, execnt>>
  BY DEF GetblkReassign, Miss, devvars, argvars
<1>2. /\ b \in Buf /\ b \in Elems(freelist)
      /\ freelist' \in Seq(Buf) /\ Distinct(freelist')
      /\ Elems(freelist') = Elems(freelist) \ {b}
  BY <1>1, TailElems DEF Inv, ListInv, TypeOK
<1>3. want[p] # Nodev => \A a \in Buf : assoc[a] = want[p] => a = b
  BY <1>1 DEF Incore
<1>4. {"BUSY"} \in SUBSET Flags
  BY DEF Flags
<1>5. /\ "BUSY" \in {"BUSY"} /\ "ASYNC" \notin {"BUSY"}
      /\ "DELWRI" \notin {"BUSY"} /\ "ERROR" \notin {"BUSY"}
  OBVIOUS
<1> HIDE DEF b
<1> QED
  BY <1>1, <1>2, <1>3, <1>4, <1>5, TakeInv

\* A delayed write of an available buffer is started: getblk and bflush.
LEMMA DelayedInv ==
    ASSUME Inv, NEW b \in Buf, b \in Elems(freelist), "DELWRI" \in flags[b],
           NEW fl \in Seq(Buf), Distinct(fl), Elems(fl) = Elems(freelist) \ {b},
           BwriteStart(b, flags[b] \cup {"BUSY", "ASYNC"}, fl),
           UNCHANGED <<data, disk, cur, pc, want, ret, blkno, rablkno, bp, rbp, arg,
                       execnt>>
    PROVE  Inv'
<1> DEFINE f == (flags[b] \cup {"BUSY", "ASYNC"}) \ {"READ", "DONE", "ERROR", "DELWRI"}
<1>1. TypeOK /\ BufOK(b) /\ Rkstrategy(b, f, fl)
  BY BufOKs DEF Inv, BwriteStart
<1>2. /\ b \notin Elems(queue) /\ assoc[b] # Nodev
      /\ \A q \in Proc : b \notin Held(q)
  BY <1>1, BufAssumption DEF BufOK
<1>3. /\ f \in SUBSET Flags /\ "BUSY" \in f /\ "ASYNC" \in f /\ "DONE" \notin f
      /\ "DELWRI" \notin f /\ "ERROR" \notin f
  BY <1>1 DEF TypeOK, Flags
<1> HIDE DEF f
<1>4. TypeOK'
  <2>1. BufTypes'
    BY <1>1, <1>2, <1>3, StrategyType
  <2> QED
    BY <1>1, <2>1 DEF TypeOK, BufTypes, Chan
<1>5. \A q \in Proc : Held(q)' = Held(q) \ {b} /\ Hands(q)'
  BY <1>2, HandsNow DEF Held, Hands
<1>6. /\ SharedInv'
      /\ Elems(queue') \subseteq Elems(queue) \cup {b}
      /\ \A a \in Buf : a # b => flags'[a] = flags[a] /\ assoc'[a] = assoc[a]
  BY <1>1, <1>2, <1>3, <1>4, <1>5, GiveStart
<1>7. ASSUME NEW q \in Proc
      PROVE  ProcInv(q)'
  <2>1. NoBuf \notin Elems(queue')
    BY <1>4, ElemsIn, BufAssumption DEF TypeOK
  <2>2. \A a \in Held(q) : /\ a \in Elems(queue') => a \in Elems(queue)
                           /\ assoc'[a] = assoc[a]
                           /\ "DONE" \in flags[a] => "DONE" \in flags'[a]
    BY <1>1, <1>2, <1>6, HeldIn
  <2> QED
    BY <2>1, <2>2, OtherFrame
<1> QED
  BY <1>4, <1>6, <1>7 DEF Inv, SharedInv

\* getblk writes out the oldest available buffer.
LEMMA GetblkDelwriInv ==
    ASSUME Inv, NEW p \in Proc, GetblkDelwri(p)
    PROVE  Inv'
<1> DEFINE b == Head(freelist)
<1>1. /\ freelist # <<>> /\ "DELWRI" \in flags[b]
      /\ BwriteStart(b, flags[b] \cup {"BUSY", "ASYNC"}, Tail(freelist))
      /\ UNCHANGED <<data, disk, cur, pc, want, ret, blkno, rablkno, bp, rbp, arg, execnt>>
  BY DEF GetblkDelwri, argvars, ownvars
<1>2. /\ b \in Buf /\ b \in Elems(freelist)
      /\ Tail(freelist) \in Seq(Buf) /\ Distinct(Tail(freelist))
      /\ Elems(Tail(freelist)) = Elems(freelist) \ {b}
  BY <1>1, TailElems DEF Inv, ListInv, TypeOK
<1> HIDE DEF b
<1> QED
  BY <1>1, <1>2, DelayedInv

\* bflush writes out the first delayed write on the available list.
LEMMA BflushInv ==
    ASSUME Inv, NEW p \in Proc, Bflush(p)
    PROVE  Inv'
<1>1. PICK i \in Delayed :
          BwriteStart(freelist[i], flags[freelist[i]] \cup {"BUSY", "ASYNC"},
                      Unlink(freelist, freelist[i]))
  BY DEF Bflush
<1>2. UNCHANGED <<data, disk, cur, pc, want, ret, blkno, rablkno, bp, rbp, arg, execnt>>
  BY DEF Bflush, argvars, ownvars
<1> DEFINE b == freelist[i]
<1>3. b \in Buf /\ b \in Elems(freelist) /\ "DELWRI" \in flags[b]
  BY DEF Inv, TypeOK, Delayed, Elems
<1>4. /\ Unlink(freelist, b) \in Seq(Buf) /\ Distinct(Unlink(freelist, b))
      /\ Elems(Unlink(freelist, b)) = Elems(freelist) \ {b}
  BY <1>3, UnlinkElems DEF Inv, ListInv, TypeOK
<1> HIDE DEF b
<1> QED
  BY <1>1, <1>2, <1>3, <1>4, DelayedInv DEF b

-----------------------------------------------------------------------------
(* The disk interrupt. *)

\* The transfer the interrupt starts is for a block of the device.
LEMMA NextTransfer ==
    ASSUME Inv, queue # <<>>
    PROVE  LET q == Tail(queue)
           IN  q # <<>> => Devstart(Head(q), flags[Head(q)]) \in Transfer
<1> DEFINE q == Tail(queue)
<1>1. /\ q \in Seq(Buf) /\ Elems(q) \subseteq Elems(queue)
  BY TailElems DEF Inv, TypeOK, ListInv
<1>2. SUFFICES ASSUME q # <<>>
               PROVE  Devstart(Head(q), flags[Head(q)]) \in Transfer
  OBVIOUS
<1>3. Head(q) \in Elems(queue) /\ Head(q) \in Buf
  BY <1>1, <1>2, TailElems
<1>4. assoc[Head(q)] \in Blk
  BY <1>3 DEF Inv, ListInv
<1> HIDE DEF q
<1> QED
  BY <1>3, <1>4 DEF Devstart, Transfer, Inv, TypeOK

\* The interrupt takes the head of the queue off it; an asynchronous buffer
\* becomes available, another stays with its owner, done.
LEMMA DiskIntrInv ==
    ASSUME Inv, DiskIntr
    PROVE  Inv'
<1>0. TypeOK /\ queue # <<>> /\ Distinct(queue) /\ Distinct(freelist)
  BY DEF Inv, ListInv, DiskIntr
<1>b. PICK b \in Buf : b = Head(queue)
  BY <1>0, TailElems DEF TypeOK
<1>1. /\ io # NoIO /\ queue' = Tail(queue)
      /\ io' = IF Tail(queue) = <<>> THEN NoIO
               ELSE Devstart(Head(Tail(queue)), flags[Head(Tail(queue))])
      /\ Iodone(b, flags[b], freelist)
      /\ UNCHANGED <<cur, pc, want, ret, blkno, rablkno, bp, rbp, arg, execnt>>
  BY <1>b DEF DiskIntr, argvars, ownvars
<1>2. TypeOK /\ queue # <<>> /\ Distinct(queue) /\ Distinct(freelist)
  BY <1>0
<1>3. /\ b \in Buf /\ b \in Elems(queue)
      /\ queue' \in Seq(Buf) /\ Distinct(queue')
      /\ Elems(queue') = Elems(queue) \ {b}
  BY <1>1, <1>2, <1>b, TailElems DEF TypeOK
<1>4. BufOK(b) /\ flags[b] \in SUBSET Flags /\ freelist \in Seq(Buf)
  BY <1>2, <1>3, BufOKs DEF TypeOK
<1>5. /\ "BUSY" \in flags[b] /\ "DONE" \notin flags[b] /\ "ERROR" \notin flags[b]
      /\ assoc[b] \in Blk /\ b \notin Elems(freelist)
  BY <1>3, <1>4 DEF BufOK
<1>6. /\ io' \in Transfer \cup {NoIO}
      /\ io' = NoIO <=> queue' = <<>>
  BY <1>1, <1>2, NextTransfer, BufAssumption DEF Transfer
<1>7. data' \in [Buf -> Val] /\ disk' \in [Blk -> Val]
  <2>1. io \in Transfer
    BY <1>1, <1>2 DEF TypeOK
  <2>2. io.buf \in Buf /\ io.blk \in Blk /\ io.val \in Val
    BY <2>1 DEF Transfer
  <2>3. \/ data' = [data EXCEPT ![io.buf] = disk[io.blk]] /\ disk' = disk
        \/ disk' = [disk EXCEPT ![io.blk] = io.val] /\ data' = data
    BY DEF DiskIntr
  <2> QED
    BY <1>2, <2>2, <2>3 DEF TypeOK
<1>8. /\ flags' \in [Buf -> SUBSET Flags] /\ assoc' \in [Buf -> Block \cup {Nodev}]
      /\ freelist' \in Seq(Buf) /\ freeWanted' \in BOOLEAN /\ wchan' \in [Proc -> Chan]
  BY <1>1, <1>2, <1>3, <1>4, IodoneEffect
<1>9. TypeOK'
  BY <1>1, <1>2, <1>3, <1>6, <1>7, <1>8 DEF TypeOK, Chan
<1>10. \A q \in Proc : Held(q)' = Held(q) /\ Hands(q)'
  BY <1>1, HandsNow DEF Held, Hands
<1>11. /\ assoc' = assoc
       /\ \A a \in Buf : a # b => flags'[a] = flags[a]
       /\ "DONE" \in flags'[b]
       /\ OthersSame(b) /\ BufOK(b)' /\ Distinct(freelist')
  <2>1. CASE "ASYNC" \in flags[b]
    <3>1. /\ flags' = [flags EXCEPT ![b] =
                          (flags[b] \cup {"DONE"}) \ {"WANTED", "BUSY", "ASYNC"}]
          /\ assoc' = [assoc EXCEPT ![b] = IF "ERROR" \in flags[b] THEN Nodev ELSE @]
          /\ Elems(freelist') = Elems(freelist) \cup {b}
          /\ Distinct(freelist')
      BY <1>1, <1>2, <1>3, <1>4, <1>5, <2>1, IodoneEffect
    <3>2. assoc' = assoc
      BY <1>2, <1>5, <3>1 DEF TypeOK
    <3>3. /\ flags'[b] = (flags[b] \cup {"DONE"}) \ {"WANTED", "BUSY", "ASYNC"}
          /\ \A a \in Buf : a # b => flags'[a] = flags[a]
      BY <1>2, <1>3, <3>1 DEF TypeOK
    <3>4. OthersSame(b)
      BY <1>3, <1>10, <3>1, <3>2, <3>3 DEF OthersSame
    <3>5. \A q \in Proc : b \notin Held(q)
      BY <1>4, <2>1 DEF BufOK
    <3>6. /\ "BUSY" \notin flags'[b] /\ "ASYNC" \notin flags'[b] /\ "DONE" \in flags'[b]
          /\ "ERROR" \notin flags'[b]
      BY <1>5, <3>3
    <3>7. BufOK(b)'
      BY <1>3, <1>4, <1>5, <1>10, <3>1, <3>2, <3>5, <3>6 DEF BufOK
    <3> QED
      BY <3>1, <3>2, <3>3, <3>4, <3>6, <3>7
  <2>2. CASE "ASYNC" \notin flags[b]
    <3>1. /\ flags' = [flags EXCEPT ![b] = (flags[b] \cup {"DONE"}) \ {"WANTED"}]
          /\ assoc' = assoc /\ freelist' = freelist
      BY <1>1, <1>2, <1>3, <1>4, <2>2, IodoneEffect
    <3>2. /\ flags'[b] = (flags[b] \cup {"DONE"}) \ {"WANTED"}
          /\ \A a \in Buf : a # b => flags'[a] = flags[a]
      BY <1>2, <1>3, <3>1 DEF TypeOK
    <3>3. OthersSame(b)
      BY <1>3, <1>10, <3>1, <3>2 DEF OthersSame
    <3>4. /\ "BUSY" \in flags'[b] /\ "ASYNC" \notin flags'[b] /\ "DONE" \in flags'[b]
          /\ "ERROR" \notin flags'[b]
      BY <1>5, <2>2, <3>2
    <3>5. BufOK(b)'
      BY <1>3, <1>4, <1>5, <1>10, <2>2, <3>1, <3>4 DEF BufOK
    <3> QED
      BY <1>2, <3>1, <3>2, <3>3, <3>4, <3>5
  <2> QED
    BY <2>1, <2>2
<1>12. SharedInv'
  BY <1>3, <1>6, <1>9, <1>10, <1>11, OneBufferFrame
<1>13. ASSUME NEW q \in Proc
       PROVE  ProcInv(q)'
  <2>1. NoBuf \notin Elems(queue')
    BY <1>9, ElemsIn, BufAssumption DEF TypeOK
  <2>2. \A a \in Held(q) : /\ a \in Elems(queue') => a \in Elems(queue)
                           /\ assoc'[a] = assoc[a]
                           /\ "DONE" \in flags[a] => "DONE" \in flags'[a]
    BY <1>2, <1>3, <1>11, HeldIn
  <2> QED
    BY <1>1, <2>1, <2>2, OtherFrame
<1> QED
  BY <1>9, <1>12, <1>13 DEF Inv, SharedInv

-----------------------------------------------------------------------------
(* The theorems. *)

\* binit leaves every buffer available and no block in any.
LEMMA InitInv ==
    ASSUME Init
    PROVE  Inv
<1>1. Cardinality(Buf) \in Nat
  BY FS_CardinalityType, BufAssumption
<1>2. freelist \in Seq(Buf) /\ Distinct(freelist) /\ Elems(freelist) = Buf
  BY <1>1 DEF Init, Distinct
<1>3. TypeOK
  <2>1. /\ flags \in [Buf -> SUBSET Flags] /\ assoc \in [Buf -> Block \cup {Nodev}]
        /\ data \in [Buf -> Val] /\ freeWanted \in BOOLEAN
    BY BufAssumption DEF Init
  <2>2. /\ queue \in Seq(Buf) /\ io \in Transfer \cup {NoIO} /\ disk \in [Blk -> Val]
        /\ cur \in Proc \cup {NoProc} /\ execnt \in Int
    BY DEF Init
  <2>3. /\ wchan \in [Proc -> Chan] /\ pc \in [Proc -> Pc] /\ ret \in [Proc -> GetblkRet]
    BY DEF Init, Chan, Pc, GetblkRet
  <2>4. /\ bp \in [Proc -> Buf \cup {NoBuf}] /\ rbp \in [Proc -> Buf \cup {NoBuf}]
        /\ arg \in [Proc -> Buf \cup {NoBuf}]
        /\ want \in [Proc -> Block \cup {Nodev}] /\ blkno \in [Proc -> Block \cup {Nodev}]
        /\ rablkno \in [Proc -> Block \cup {Nodev}]
    BY DEF Init
  <2> QED
    BY <1>2, <2>1, <2>2, <2>3, <2>4 DEF TypeOK, Chan
<1>4. queue = <<>> /\ Elems(queue) = {}
  BY DEF Init, Elems
<1>5. ListInv
  BY <1>2, <1>4 DEF Init, ListInv, Distinct
<1>6. \A p \in Proc : /\ Held(p) = {} /\ bp[p] = NoBuf /\ rbp[p] = NoBuf /\ arg[p] = NoBuf
                      /\ pc[p] = "user"
  BY DEF Init, Held
<1>7. FlagInv /\ OwnInv /\ OneBufferPerBlock
  BY <1>6 DEF Init, FlagInv, OwnInv, OneBufferPerBlock
<1>8. \A p \in Proc : ProcInv(p)
  BY <1>4, <1>6 DEF ProcInv, InHand, InTransfer, InBmap, InBreada, GetblkRet
<1> QED
  BY <1>3, <1>5, <1>7, <1>8 DEF Inv

\* Every step keeps the invariant.
LEMMA NextInv ==
    ASSUME Inv, [Next]_vars
    PROVE  Inv'
<1>1. CASE UNCHANGED vars
  <2>1. /\ Shared' = Shared /\ ownvars' = ownvars /\ TypeOK'
        /\ UNCHANGED <<pc, ret, want, blkno, bp, rbp, arg>>
    BY <1>1 DEF vars, Shared, ownvars, Inv, TypeOK
  <2> QED
    BY <2>1, QuietFrame, QuietOther DEF Inv
<1>2. ASSUME NEW p \in Proc, Begin(p)
      PROVE  Inv'
  BY <1>2, BeginGetblkInv, BeginBreadaInv, BeginBflushInv, BeginExecInv DEF Begin
<1>3. ASSUME NEW p \in Proc, Step(p)
      PROVE  Inv'
  <2>1. CASE Getblk(p)
    BY <2>1, GetblkBusyInv, GetblkHitInv, GetblkEmptyInv, GetblkDelwriInv,
       GetblkReassignInv DEF Getblk
  <2>2. CASE \/ Bread(p) \/ Iowait(p)
             \/ Breada(p) \/ Breada1(p) \/ Ahead(p) \/ Breada2(p) \/ BreadaMain(p)
    BY <2>2, BreadInv, IowaitInv, BreadaInv, Breada1Inv, AheadInv, Breada2Inv, BreadaMainInv
  <2>3. CASE \/ \E v \in Val : Modify(p, v)
             \/ ReleaseClean(p) \/ Bwrite(p) \/ BwriteWait(p) \/ Bawrite(p) \/ Bdwrite(p)
    BY <2>3, ModifyInv, ReleaseCleanInv, BwriteInv, BwriteWaitInv, BawriteInv, BdwriteInv
  <2>4. CASE \/ \E k \in Blk : BmapAlloc(p, k)
             \/ AllocClrbuf(p) \/ (\E v \in Val : BmapIndirect(p, v)) \/ BmapBdwrite(p)
    BY <2>4, BmapAllocInv, AllocClrbufInv, BmapIndirectInv, BmapBdwriteInv
  <2>5. CASE Bflush(p) \/ BflushEnd(p) \/ ExecEnter(p) \/ ExecArgs(p)
    BY <2>5, BflushInv, BflushEndInv, ExecEnterInv, ExecArgsInv
  <2> QED
    BY <1>3, <2>1, <2>2, <2>3, <2>4, <2>5 DEF Step
<1> QED
  BY <1>1, <1>2, <1>3, DispatchInv, ExecEndInv, DiskIntrInv DEF Next

\* The inductive invariant holds in every reachable state.
THEOREM Invariance == Spec => []Inv
<1>1. Init => Inv
  BY InitInv
<1>2. Inv /\ [Next]_vars => Inv'
  BY NextInv
<1> QED
  BY <1>1, <1>2, PTL DEF Spec

\* Type correctness of the buffer cache, for any number of processes, buffers
\* and blocks.
THEOREM TypeCorrect == Spec => []TypeOK
<1>1. Inv => TypeOK
  BY DEF Inv
<1> QED
  BY <1>1, Invariance, PTL

\* buf.h's rule for the available list: on it, once, exactly when not B_BUSY,
\* whatever the interrupts and the other processes do.
THEOREM Availability == Spec => []AvailIffNotBusy
<1>1. Inv => AvailIffNotBusy
  BY DEF Inv, ListInv, Distinct, AvailIffNotBusy
<1> QED
  BY <1>1, Invariance, PTL

\* getblk never gives a block a second buffer.
THEOREM UniqueBuffer == Spec => []OneBufferPerBlock
<1>1. Inv => OneBufferPerBlock
  BY DEF Inv
<1> QED
  BY <1>1, Invariance, PTL

\* A busy buffer belongs to exactly one process, or to the driver.
THEOREM Ownership == Spec => []OneOwner
<1>1. Inv => OneOwner
  <2>1. SUFFICES ASSUME Inv PROVE OneOwner
    OBVIOUS
  <2>2. ASSUME NEW b \in Buf
        PROVE  Busy(b) <=> \/ \E p \in Proc : b \in Held(p)
                           \/ b \in Elems(queue) /\ "ASYNC" \in flags[b]
    BY <2>1, BufOKs DEF BufOK, Busy
  <2>3. \A p \in Proc : /\ bp[p] # NoBuf => bp[p] \notin {rbp[p], arg[p]}
                        /\ rbp[p] # NoBuf => rbp[p] # arg[p]
    BY <2>1, HandsNow DEF Hands
  <2>4. \A p, q \in Proc : p # q => Held(p) \cap Held(q) = {}
    BY <2>1 DEF Inv, OwnInv
  <2> QED
    BY <2>2, <2>3, <2>4 DEF OneOwner
<1> QED
  BY <1>1, Invariance, PTL
=============================================================================
