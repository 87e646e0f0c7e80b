--------------------------- MODULE BufStoreProofs ---------------------------
(***************************************************************************)
(* Proofs on top of the buffer cache's invariant, for any number of        *)
(* processes, buffers and blocks and any workload.  First, sleeping and    *)
(* waking: no wakeup is lost, and bread returns only with the block asked  *)
(* for, read.  Then, from that, that the cache implements the block store: *)
(* delayed writes, read-ahead, eviction, sleeping and the interrupt never  *)
(* show.                                                                   *)
(***************************************************************************)
EXTENDS BufCacheProofs

\* The contents of b are there, or will be: who waits for b is not forgotten.
Settled(b) == "DONE" \in flags[b] \/ b \in Elems(queue)

\* p is in getblk, to return to r, or has returned there.
AtGetblk(p, r) == pc[p] = r \/ (pc[p] = "getblk" /\ ret[p] = r)

\* What p waits for, and the block it asked for, by where it is.
WaitInv(p) ==
    /\ pc[p] \in InTransfer => Settled(bp[p])
    /\ rbp[p] # NoBuf /\ InBreada(p) => Settled(rbp[p]) /\ assoc[rbp[p]] = blkno[p]
    /\ pc[p] \in {"user", "bflush", "execwait", "inexec"} \/ AtGetblk(p, "exec")
          => blkno[p] = Nodev
    /\ AtGetblk(p, "bread") => blkno[p] = Nodev \/ blkno[p] = want[p]
    /\ AtGetblk(p, "breada1") => blkno[p] = want[p]
    /\ pc[p] \in {"iowait", "held"} =>
          assoc[bp[p]] = IF blkno[p] = Nodev THEN want[p] ELSE blkno[p]

Waits == Inv /\ NoLostWakeup /\ \A p \in Proc : WaitInv(p)

-----------------------------------------------------------------------------
(* Sleepers. *)

\* The part of NoLostWakeup about the channel c.
WillWake(c) ==
    /\ c \in Buf => /\ Busy(c)
                    /\ \/ "WANTED" \in flags[c]
                       \/ c \in Elems(queue) /\ "ASYNC" \notin flags[c]
    /\ c = "bfreelist" => freelist = <<>> /\ freeWanted
    /\ c = "execnt" => execnt >= NEXEC

\* A step after which every sleeper was asleep before, on a channel that will
\* still be signalled.
LEMMA SleepersFrame ==
    ASSUME NoLostWakeup,
           \A q \in Proc : \/ wchan'[q] = Awake
                           \/ /\ wchan'[q] = wchan[q]
                              /\ WillWake(wchan[q]) => WillWake(wchan[q])'
    PROVE  NoLostWakeup'
<1>1. ASSUME NEW q \in Proc
      PROVE  WillWake(wchan[q])
  BY DEF NoLostWakeup, WillWake
<1>2. ASSUME NEW q \in Proc
      PROVE  WillWake(wchan[q])'
  <2>1. CASE wchan'[q] = Awake
    BY <2>1, BufAssumption DEF WillWake
  <2>2. CASE wchan'[q] = wchan[q] /\ WillWake(wchan[q])'
    BY <2>2
  <2> QED
    BY <1>1, <2>1, <2>2
<1> QED
  BY <1>2 DEF NoLostWakeup, WillWake

\* brelse wakes those who want the buffer, and those who want any.
LEMMA BrelseWakes ==
    ASSUME Inv, NoLostWakeup, NEW b \in Buf, NEW f \in SUBSET Flags, NEW fl \in Seq(Buf),
           Brelse(b, f, fl), execnt' = execnt,
           "WANTED" \in flags[b] => "WANTED" \in f,
           b \in Elems(queue) => "ASYNC" \in flags[b],
           \A a \in Elems(queue) : a # b => a \in Elems(queue')
    PROVE  NoLostWakeup'
<1>1. TypeOK
  BY DEF Inv
<1>2. \A a \in Buf : a # b => flags'[a] = flags[a]
  BY <1>1 DEF Brelse, TypeOK
<1>3. ASSUME NEW q \in Proc
      PROVE  \/ wchan'[q] = Awake
             \/ /\ wchan'[q] = wchan[q]
                /\ WillWake(wchan[q]) => WillWake(wchan[q])'
  <2>1. WillWake(wchan[q])
    BY DEF NoLostWakeup, WillWake
  <2>2. wchan'[q] = IF wchan[q] \in (IF "WANTED" \in f THEN {b} ELSE {})
                                    \cup (IF freeWanted THEN {"bfreelist"} ELSE {})
                    THEN Awake ELSE wchan[q]
    BY DEF Brelse, Wakeup
  <2>3. CASE wchan[q] = b
    BY <2>1, <2>2, <2>3 DEF WillWake
  <2>4. CASE wchan[q] = "bfreelist"
    BY <2>1, <2>2, <2>4 DEF WillWake
  <2>5. CASE wchan[q] # b /\ wchan[q] # "bfreelist"
    BY <1>2, <2>2, <2>5 DEF WillWake, Busy
  <2> QED
    BY <2>3, <2>4, <2>5
<1> QED
  BY <1>3, SleepersFrame

\* iodone wakes everybody who waits for the transfer.
LEMMA IodoneWakes ==
    ASSUME Inv, NoLostWakeup, NEW b \in Buf, NEW f \in SUBSET Flags, NEW fl \in Seq(Buf),
           Iodone(b, f, fl), execnt' = execnt,
           "WANTED" \in flags[b] => "WANTED" \in f,
           "ASYNC" \in f /\ b \in Elems(queue) => "ASYNC" \in flags[b],
           \A a \in Elems(queue) : a # b => a \in Elems(queue'),
           freelist = <<>> => fl = <<>>
    PROVE  NoLostWakeup'
<1>1. TypeOK
  BY DEF Inv
<1>2. CASE "ASYNC" \in f
  <2>1. Brelse(b, f \cup {"DONE"}, fl) /\ f \cup {"DONE"} \in SUBSET Flags
    BY <1>2 DEF Iodone, Flags
  <2> QED
    BY <1>2, <2>1, BrelseWakes
<1>3. CASE "ASYNC" \notin f
  <2>1. /\ \A a \in Buf : a # b => flags'[a] = flags[a]
        /\ freelist' = fl /\ freeWanted' = freeWanted
    BY <1>1, <1>3 DEF Iodone, TypeOK
  <2>2. ASSUME NEW q \in Proc
        PROVE  \/ wchan'[q] = Awake
               \/ /\ wchan'[q] = wchan[q]
                  /\ WillWake(wchan[q]) => WillWake(wchan[q])'
    <3>1. wchan'[q] = IF wchan[q] \in {b} THEN Awake ELSE wchan[q]
      BY <1>3 DEF Iodone, Wakeup
    <3>2. CASE wchan[q] # b
      BY <2>1, <3>1, <3>2 DEF WillWake, Busy
    <3> QED
      BY <3>1, <3>2
  <2> QED
    BY <2>2, SleepersFrame
<1> QED
  BY <1>2, <1>3

\* rkstrategy leaves those who want the buffer to the end of the transfer.
LEMMA StrategyWakes ==
    ASSUME Inv, NoLostWakeup, NEW b \in Buf, NEW f \in SUBSET Flags, NEW fl \in Seq(Buf),
           assoc[b] # Nodev, Rkstrategy(b, f, fl), execnt' = execnt,
           "BUSY" \in f, "WANTED" \in flags[b] => "WANTED" \in f,
           b \notin Elems(queue), freelist = <<>> => fl = <<>>
    PROVE  NoLostWakeup'
<1>1. TypeOK
  BY DEF Inv
<1>2. CASE assoc[b] \in BadBlk
  <2>1. /\ Iodone(b, f \cup {"ERROR"}, fl) /\ queue' = queue
        /\ f \cup {"ERROR"} \in SUBSET Flags
    BY <1>1, <1>2, RkstrategyEffect DEF Flags
  <2> QED
    BY <2>1, IodoneWakes
<1>3. CASE assoc[b] \notin BadBlk
  <2>1. /\ flags' = [flags EXCEPT ![b] = f]
        /\ freelist' = fl
        /\ Elems(queue') = Elems(queue) \cup {b}
        /\ freeWanted' = freeWanted /\ wchan' = wchan
    BY <1>1, <1>3, RkstrategyEffect
  <2>2. flags'[b] = f /\ \A a \in Buf : a # b => flags'[a] = flags[a]
    BY <1>1, <2>1 DEF TypeOK
  <2>3. ASSUME NEW q \in Proc, WillWake(wchan[q])
        PROVE  WillWake(wchan[q])'
    BY <2>1, <2>2, <2>3 DEF WillWake, Busy
  <2> QED
    BY <2>1, <2>3, SleepersFrame
<1> QED
  BY <1>2, <1>3

-----------------------------------------------------------------------------
(* Processes. *)

\* A process that does not move waits on as before.
LEMMA WaitKept ==
    ASSUME Inv, NEW q \in Proc, WaitInv(q),
           pc'[q] = pc[q], ret'[q] = ret[q], want'[q] = want[q], blkno'[q] = blkno[q],
           bp'[q] = bp[q], rbp'[q] = rbp[q],
           \A a \in Held(q) : assoc'[a] = assoc[a] /\ (Settled(a) => Settled(a)')
    PROVE  WaitInv(q)'
<1>1. /\ bp[q] # NoBuf => assoc'[bp[q]] = assoc[bp[q]] /\ (Settled(bp[q]) => Settled(bp[q])')
      /\ rbp[q] # NoBuf => assoc'[rbp[q]] = assoc[rbp[q]] /\ (Settled(rbp[q]) => Settled(rbp[q])')
  BY DEF Held
<1>2. pc[q] \in InTransfer \cup {"held"} => bp[q] # NoBuf
  BY DEF Inv, ProcInv, InHand, InTransfer
<1>4. /\ InBreada(q)' <=> InBreada(q)
      /\ \A r : AtGetblk(q, r)' <=> AtGetblk(q, r)
  BY DEF InBreada, AtGetblk
<1>5. pc[q] \in {"iowait", "held"} => bp[q] # NoBuf
  BY <1>2 DEF InTransfer
<1>6. pc[q] \in InTransfer => Settled(bp[q])'
  BY <1>1, <1>2 DEF WaitInv
<1>7. rbp[q] # NoBuf /\ InBreada(q) => Settled(rbp[q])' /\ assoc'[rbp[q]] = blkno[q]
  BY <1>1 DEF WaitInv
<1>8. pc[q] \in {"iowait", "held"} =>
          assoc'[bp[q]] = IF blkno[q] = Nodev THEN want[q] ELSE blkno[q]
  BY <1>1, <1>5 DEF WaitInv
<1> QED
  BY <1>4, <1>6, <1>7, <1>8 DEF WaitInv, Settled

\* A step that changes at most the buffer b, which only p may have in hand.
LEMMA TouchWaits ==
    ASSUME Waits, Inv', NEW p \in Proc, NEW b, OnlyMoves(p),
           \A q \in Proc : q # p => b \notin Held(q),
           \A a \in Buf : a # b => /\ assoc'[a] = assoc[a]
                                   /\ Settled(a) => Settled(a)',
           NoLostWakeup', WaitInv(p)'
    PROVE  Waits'
<1>1. Inv /\ TypeOK
  BY DEF Waits, Inv
<1>2. ASSUME NEW q \in Proc, q # p
      PROVE  WaitInv(q)'
  <2>1. \A a \in Held(q) : assoc'[a] = assoc[a] /\ (Settled(a) => Settled(a)')
    BY <1>1, <1>2, HeldIn
  <2> QED
    BY <1>1, <1>2, <2>1, WaitKept DEF Waits, OnlyMoves
<1> QED
  BY <1>2 DEF Waits

\* A step that changes no buffer and wakes nobody.
LEMMA QuietWaits ==
    ASSUME Waits, Inv', NEW p \in Proc, OnlyMoves(p), execnt' >= execnt,
           UNCHANGED <<flags, assoc, freelist, freeWanted, queue, wchan>>, WaitInv(p)'
    PROVE  Waits'
<1>1. \A a \in Buf : assoc'[a] = assoc[a] /\ (Settled(a) => Settled(a)')
  BY DEF Settled
<1>2. \A q \in Proc : NoBuf \notin Held(q)
  BY DEF Held
<1>3. NEXEC \in Nat /\ execnt \in Int /\ execnt' \in Int
  BY BufAssumption DEF Waits, Inv, TypeOK
<1>4. NoLostWakeup'
  BY <1>3 DEF Waits, NoLostWakeup, Busy
<1> QED
  BY <1>1, <1>2, <1>4, TouchWaits

\* bread and getblk start.
LEMMA BeginGetblkWaits ==
    ASSUME Waits, Inv', NEW p \in Proc, NEW k \in Block, NEW r \in {"bread", "fill"}, BeginGetblk(p, k, r)
    PROVE  Waits'
<1>0. Inv /\ TypeOK /\ WaitInv(p) /\ ProcInv(p)
  BY DEF Waits, Inv
<1>1. /\ pc'[p] = "getblk" /\ ret'[p] = r /\ want'[p] = k
      /\ blkno'[p] = blkno[p] /\ bp'[p] = bp[p] /\ rbp'[p] = rbp[p]
      /\ OnlyMoves(p)
      /\ UNCHANGED <<flags, assoc, freelist, freeWanted, queue, wchan>>
      /\ execnt' = execnt
  BY <1>0 DEF BeginGetblk, CallGetblk, bufvars, devvars, argvars, ownvars, TypeOK, OnlyMoves
<1>2. WaitInv(p)'
  BY <1>0, <1>1
  DEF BeginGetblk, CanBegin, WaitInv, ProcInv, AtGetblk, InTransfer, InBreada, InBmap, InHand, GetblkRet,
      Settled
<1>3. execnt' >= execnt
  BY <1>0, <1>1 DEF TypeOK
<1> QED
  BY <1>1, <1>2, <1>3, QuietWaits

\* breada starts.
LEMMA BeginBreadaWaits ==
    ASSUME Waits, Inv', NEW p \in Proc, NEW k \in Block, NEW r \in Block \cup {Nodev}, BeginBreada(p, k, r)
    PROVE  Waits'
<1>0. Inv /\ TypeOK /\ WaitInv(p) /\ ProcInv(p)
  BY DEF Waits, Inv
<1>1. /\ pc'[p] = "breada" /\ ret'[p] = ret[p] /\ want'[p] = want[p]
      /\ blkno'[p] = k /\ bp'[p] = bp[p] /\ rbp'[p] = rbp[p]
      /\ OnlyMoves(p)
      /\ UNCHANGED <<flags, assoc, freelist, freeWanted, queue, wchan>>
      /\ execnt' = execnt
  BY <1>0 DEF BeginBreada, bufvars, devvars, argvars, ownvars, TypeOK, OnlyMoves
<1>2. WaitInv(p)'
  BY <1>0, <1>1
  DEF BeginBreada, CanBegin, WaitInv, ProcInv, AtGetblk, InTransfer, InBreada, InBmap, InHand, GetblkRet,
      Settled
<1>3. execnt' >= execnt
  BY <1>0, <1>1 DEF TypeOK
<1> QED
  BY <1>1, <1>2, <1>3, QuietWaits

\* bflush starts.
LEMMA BeginBflushWaits ==
    ASSUME Waits, Inv', NEW p \in Proc, BeginBflush(p)
    PROVE  Waits'
<1>0. Inv /\ TypeOK /\ WaitInv(p) /\ ProcInv(p)
  BY DEF Waits, Inv
<1>1. /\ pc'[p] = "bflush" /\ ret'[p] = ret[p] /\ want'[p] = want[p]
      /\ blkno'[p] = blkno[p] /\ bp'[p] = bp[p] /\ rbp'[p] = rbp[p]
      /\ OnlyMoves(p)
      /\ UNCHANGED <<flags, assoc, freelist, freeWanted, queue, wchan>>
      /\ execnt' = execnt
  BY <1>0 DEF BeginBflush, bufvars, devvars, argvars, ownvars, TypeOK, OnlyMoves
<1>2. WaitInv(p)'
  BY <1>0, <1>1
  DEF BeginBflush, WaitInv, ProcInv, AtGetblk, InTransfer, InBreada, InBmap, InHand, GetblkRet,
      Settled
<1>3. execnt' >= execnt
  BY <1>0, <1>1 DEF TypeOK
<1> QED
  BY <1>1, <1>2, <1>3, QuietWaits

\* exec starts.
LEMMA BeginExecWaits ==
    ASSUME Waits, Inv', NEW p \in Proc, BeginExec(p)
    PROVE  Waits'
<1>0. Inv /\ TypeOK /\ WaitInv(p) /\ ProcInv(p)
  BY DEF Waits, Inv
<1>1. /\ pc'[p] = "execwait" /\ ret'[p] = ret[p] /\ want'[p] = want[p]
      /\ blkno'[p] = blkno[p] /\ bp'[p] = bp[p] /\ rbp'[p] = rbp[p]
      /\ OnlyMoves(p)
      /\ UNCHANGED <<flags, assoc, freelist, freeWanted, queue, wchan>>
      /\ execnt' = execnt
  BY <1>0 DEF BeginExec, bufvars, devvars, argvars, ownvars, TypeOK, OnlyMoves
<1>2. WaitInv(p)'
  BY <1>0, <1>1
  DEF BeginExec, WaitInv, ProcInv, AtGetblk, InTransfer, InBreada, InBmap, InHand, GetblkRet,
      Settled
<1>3. execnt' >= execnt
  BY <1>0, <1>1 DEF TypeOK
<1> QED
  BY <1>1, <1>2, <1>3, QuietWaits

\* A process is dispatched.
LEMMA DispatchWaits ==
    ASSUME Waits, Inv', NEW p \in Proc, Dispatch(p)
    PROVE  Waits'
<1>0. Inv /\ TypeOK /\ WaitInv(p) /\ ProcInv(p)
  BY DEF Waits, Inv
<1>1. /\ pc'[p] = pc[p] /\ ret'[p] = ret[p] /\ want'[p] = want[p]
      /\ blkno'[p] = blkno[p] /\ bp'[p] = bp[p] /\ rbp'[p] = rbp[p]
      /\ OnlyMoves(p)
      /\ UNCHANGED <<flags, assoc, freelist, freeWanted, queue, wchan>>
      /\ execnt' = execnt
  BY <1>0 DEF Dispatch, bufvars, devvars, argvars, ownvars, TypeOK, OnlyMoves
<1>2. WaitInv(p)'
  BY <1>0, <1>1
  DEF Dispatch, WaitInv, ProcInv, AtGetblk, InTransfer, InBreada, InBmap, InHand, GetblkRet,
      Settled
<1>3. execnt' >= execnt
  BY <1>0, <1>1 DEF TypeOK
<1> QED
  BY <1>1, <1>2, <1>3, QuietWaits

\* A caller writes into its buffer.
LEMMA ModifyWaits ==
    ASSUME Waits, Inv', NEW p \in Proc, NEW v \in Val, Modify(p, v)
    PROVE  Waits'
<1>0. Inv /\ TypeOK /\ WaitInv(p) /\ ProcInv(p)
  BY DEF Waits, Inv
<1>1. /\ pc'[p] = "dirty" /\ ret'[p] = ret[p] /\ want'[p] = want[p]
      /\ blkno'[p] = blkno[p] /\ bp'[p] = bp[p] /\ rbp'[p] = rbp[p]
      /\ OnlyMoves(p)
      /\ UNCHANGED <<flags, assoc, freelist, freeWanted, queue, wchan>>
      /\ execnt' = execnt
  BY <1>0 DEF Modify, bufvars, devvars, argvars, ownvars, TypeOK, OnlyMoves
<1>2. WaitInv(p)'
  BY <1>0, <1>1
  DEF Modify, WaitInv, ProcInv, AtGetblk, InTransfer, InBreada, InBmap, InHand, GetblkRet,
      Settled
<1>3. execnt' >= execnt
  BY <1>0, <1>1 DEF TypeOK
<1> QED
  BY <1>1, <1>2, <1>3, QuietWaits

\* bmap asks for a new block.
LEMMA BmapAllocWaits ==
    ASSUME Waits, Inv', NEW p \in Proc, NEW k \in Blk, BmapAlloc(p, k)
    PROVE  Waits'
<1>0. Inv /\ TypeOK /\ WaitInv(p) /\ ProcInv(p)
  BY DEF Waits, Inv
<1>1. /\ pc'[p] = "getblk" /\ ret'[p] = "alloc" /\ want'[p] = k
      /\ blkno'[p] = blkno[p] /\ bp'[p] = NoBuf /\ rbp'[p] = bp[p]
      /\ OnlyMoves(p)
      /\ UNCHANGED <<flags, assoc, freelist, freeWanted, queue, wchan>>
      /\ execnt' = execnt
  BY <1>0 DEF BmapAlloc, CallGetblk, bufvars, devvars, argvars, ownvars, TypeOK, OnlyMoves
<1>2. WaitInv(p)'
  BY <1>0, <1>1
  DEF BmapAlloc, WaitInv, ProcInv, AtGetblk, InTransfer, InBreada, InBmap, InHand, GetblkRet,
      Settled
<1>3. execnt' >= execnt
  BY <1>0, <1>1 DEF TypeOK
<1> QED
  BY <1>1, <1>2, <1>3, QuietWaits

\* alloc clears the new block.
LEMMA AllocClrbufWaits ==
    ASSUME Waits, Inv', NEW p \in Proc, AllocClrbuf(p)
    PROVE  Waits'
<1>0. Inv /\ TypeOK /\ WaitInv(p) /\ ProcInv(p)
  BY DEF Waits, Inv
<1>1. /\ pc'[p] = "ind" /\ ret'[p] = ret[p] /\ want'[p] = want[p]
      /\ blkno'[p] = blkno[p] /\ bp'[p] = bp[p] /\ rbp'[p] = rbp[p]
      /\ OnlyMoves(p)
      /\ UNCHANGED <<flags, assoc, freelist, freeWanted, queue, wchan>>
      /\ execnt' = execnt
  BY <1>0 DEF AllocClrbuf, bufvars, devvars, argvars, ownvars, TypeOK, OnlyMoves
<1>2. WaitInv(p)'
  BY <1>0, <1>1
  DEF AllocClrbuf, WaitInv, ProcInv, AtGetblk, InTransfer, InBreada, InBmap, InHand, GetblkRet,
      Settled
<1>3. execnt' >= execnt
  BY <1>0, <1>1 DEF TypeOK
<1> QED
  BY <1>1, <1>2, <1>3, QuietWaits

\* bmap writes into the indirect block.
LEMMA BmapIndirectWaits ==
    ASSUME Waits, Inv', NEW p \in Proc, NEW v \in Val, BmapIndirect(p, v)
    PROVE  Waits'
<1>0. Inv /\ TypeOK /\ WaitInv(p) /\ ProcInv(p)
  BY DEF Waits, Inv
<1>1. /\ pc'[p] = "nbdw" /\ ret'[p] = ret[p] /\ want'[p] = want[p]
      /\ blkno'[p] = blkno[p] /\ bp'[p] = bp[p] /\ rbp'[p] = rbp[p]
      /\ OnlyMoves(p)
      /\ UNCHANGED <<flags, assoc, freelist, freeWanted, queue, wchan>>
      /\ execnt' = execnt
  BY <1>0 DEF BmapIndirect, bufvars, devvars, argvars, ownvars, TypeOK, OnlyMoves
<1>2. WaitInv(p)'
  BY <1>0, <1>1
  DEF BmapIndirect, WaitInv, ProcInv, AtGetblk, InTransfer, InBreada, InBmap, InHand, GetblkRet,
      Settled
<1>3. execnt' >= execnt
  BY <1>0, <1>1 DEF TypeOK
<1> QED
  BY <1>1, <1>2, <1>3, QuietWaits

\* exec packs its arguments.
LEMMA ExecArgsWaits ==
    ASSUME Waits, Inv', NEW p \in Proc, ExecArgs(p)
    PROVE  Waits'
<1>0. Inv /\ TypeOK /\ WaitInv(p) /\ ProcInv(p)
  BY DEF Waits, Inv
<1>1. /\ pc'[p] = "inexec" /\ ret'[p] = ret[p] /\ want'[p] = want[p]
      /\ blkno'[p] = blkno[p] /\ bp'[p] = NoBuf /\ rbp'[p] = rbp[p]
      /\ OnlyMoves(p)
      /\ UNCHANGED <<flags, assoc, freelist, freeWanted, queue, wchan>>
      /\ execnt' = execnt
  BY <1>0 DEF ExecArgs, bufvars, devvars, argvars, ownvars, TypeOK, OnlyMoves
<1>2. WaitInv(p)'
  BY <1>0, <1>1
  DEF ExecArgs, WaitInv, ProcInv, AtGetblk, InTransfer, InBreada, InBmap, InHand, GetblkRet,
      Settled
<1>3. execnt' >= execnt
  BY <1>0, <1>1 DEF TypeOK
<1> QED
  BY <1>1, <1>2, <1>3, QuietWaits

\* breada looks for its block.
LEMMA BreadaWaits ==
    ASSUME Waits, Inv', NEW p \in Proc, Breada(p)
    PROVE  Waits'
<1>0. Inv /\ TypeOK /\ WaitInv(p) /\ ProcInv(p)
  BY DEF Waits, Inv
<1>1. CASE Incore(blkno[p])
  <2>1. /\ pc'[p] = "ahead" /\ ret'[p] = ret[p] /\ want'[p] = want[p]
        /\ blkno'[p] = blkno[p] /\ bp'[p] = bp[p] /\ rbp'[p] = rbp[p]
        /\ OnlyMoves(p)
        /\ UNCHANGED <<flags, assoc, freelist, freeWanted, queue, wchan>>
        /\ execnt' = execnt
    BY <1>0, <1>1 DEF Breada, CallGetblk, bufvars, devvars, argvars, ownvars, TypeOK, OnlyMoves
  <2>2. WaitInv(p)'
    BY <1>0, <1>1, <2>1
    DEF Breada, WaitInv, ProcInv, AtGetblk, InTransfer, InBreada, InBmap, InHand, GetblkRet,
        Settled
  <2>3. execnt' >= execnt
    BY <1>0, <2>1 DEF TypeOK
  <2> QED
    BY <2>1, <2>2, <2>3, QuietWaits
<1>2. CASE ~(Incore(blkno[p]))
  <2>1. /\ pc'[p] = "getblk" /\ ret'[p] = "breada1" /\ want'[p] = blkno[p]
        /\ blkno'[p] = blkno[p] /\ bp'[p] = bp[p] /\ rbp'[p] = rbp[p]
        /\ OnlyMoves(p)
        /\ UNCHANGED <<flags, assoc, freelist, freeWanted, queue, wchan>>
        /\ execnt' = execnt
    BY <1>0, <1>2 DEF Breada, CallGetblk, bufvars, devvars, argvars, ownvars, TypeOK, OnlyMoves
  <2>2. WaitInv(p)'
    BY <1>0, <1>2, <2>1
    DEF Breada, WaitInv, ProcInv, AtGetblk, InTransfer, InBreada, InBmap, InHand, GetblkRet,
        Settled
  <2>3. execnt' >= execnt
    BY <1>0, <2>1 DEF TypeOK
  <2> QED
    BY <2>1, <2>2, <2>3, QuietWaits
<1> QED
  BY <1>1, <1>2

\* breada looks for the read-ahead block.
LEMMA AheadWaits ==
    ASSUME Waits, Inv', NEW p \in Proc, Ahead(p)
    PROVE  Waits'
<1>0. Inv /\ TypeOK /\ WaitInv(p) /\ ProcInv(p)
  BY DEF Waits, Inv
<1>1. CASE rablkno[p] = Nodev \/ Incore(rablkno[p])
  <2>1. /\ pc'[p] = "main" /\ ret'[p] = ret[p] /\ want'[p] = want[p]
        /\ blkno'[p] = blkno[p] /\ bp'[p] = bp[p] /\ rbp'[p] = rbp[p]
        /\ OnlyMoves(p)
        /\ UNCHANGED <<flags, assoc, freelist, freeWanted, queue, wchan>>
        /\ execnt' = execnt
    BY <1>0, <1>1 DEF Ahead, CallGetblk, bufvars, devvars, argvars, ownvars, TypeOK, OnlyMoves
  <2>2. WaitInv(p)'
    BY <1>0, <1>1, <2>1
    DEF Ahead, WaitInv, ProcInv, AtGetblk, InTransfer, InBreada, InBmap, InHand, GetblkRet,
        Settled
  <2>3. execnt' >= execnt
    BY <1>0, <2>1 DEF TypeOK
  <2> QED
    BY <2>1, <2>2, <2>3, QuietWaits
<1>2. CASE ~(rablkno[p] = Nodev \/ Incore(rablkno[p]))
  <2>1. /\ pc'[p] = "getblk" /\ ret'[p] = "breada2" /\ want'[p] = rablkno[p]
        /\ blkno'[p] = blkno[p] /\ bp'[p] = bp[p] /\ rbp'[p] = rbp[p]
        /\ OnlyMoves(p)
        /\ UNCHANGED <<flags, assoc, freelist, freeWanted, queue, wchan>>
        /\ execnt' = execnt
    BY <1>0, <1>2 DEF Ahead, CallGetblk, bufvars, devvars, argvars, ownvars, TypeOK, OnlyMoves
  <2>2. WaitInv(p)'
    BY <1>0, <1>2, <2>1
    DEF Ahead, WaitInv, ProcInv, AtGetblk, InTransfer, InBreada, InBmap, InHand, GetblkRet,
        Settled
  <2>3. execnt' >= execnt
    BY <1>0, <2>1 DEF TypeOK
  <2> QED
    BY <2>1, <2>2, <2>3, QuietWaits
<1> QED
  BY <1>1, <1>2

\* breada takes up its own block again, or reads it after all.
LEMMA BreadaMainWaits ==
    ASSUME Waits, Inv', NEW p \in Proc, BreadaMain(p)
    PROVE  Waits'
<1>0. Inv /\ TypeOK /\ WaitInv(p) /\ ProcInv(p)
  BY DEF Waits, Inv
<1>1. CASE rbp[p] = NoBuf
  <2>1. /\ pc'[p] = "getblk" /\ ret'[p] = "bread" /\ want'[p] = blkno[p]
        /\ blkno'[p] = blkno[p] /\ bp'[p] = bp[p] /\ rbp'[p] = rbp[p]
        /\ OnlyMoves(p)
        /\ UNCHANGED <<flags, assoc, freelist, freeWanted, queue, wchan>>
        /\ execnt' = execnt
    BY <1>0, <1>1 DEF BreadaMain, CallGetblk, bufvars, devvars, argvars, ownvars, TypeOK, OnlyMoves
  <2>2. WaitInv(p)'
    BY <1>0, <1>1, <2>1
    DEF BreadaMain, WaitInv, ProcInv, AtGetblk, InTransfer, InBreada, InBmap, InHand, GetblkRet,
        Settled
  <2>3. execnt' >= execnt
    BY <1>0, <2>1 DEF TypeOK
  <2> QED
    BY <2>1, <2>2, <2>3, QuietWaits
<1>2. CASE ~(rbp[p] = NoBuf)
  <2>1. /\ pc'[p] = "iowait" /\ ret'[p] = ret[p] /\ want'[p] = want[p]
        /\ blkno'[p] = blkno[p] /\ bp'[p] = rbp[p] /\ rbp'[p] = NoBuf
        /\ OnlyMoves(p)
        /\ UNCHANGED <<flags, assoc, freelist, freeWanted, queue, wchan>>
        /\ execnt' = execnt
    BY <1>0, <1>2 DEF BreadaMain, CallGetblk, bufvars, devvars, argvars, ownvars, TypeOK, OnlyMoves
  <2>2. WaitInv(p)'
    BY <1>0, <1>2, <2>1
    DEF BreadaMain, WaitInv, ProcInv, AtGetblk, InTransfer, InBreada, InBmap, InHand, GetblkRet,
        Settled
  <2>3. execnt' >= execnt
    BY <1>0, <2>1 DEF TypeOK
  <2> QED
    BY <2>1, <2>2, <2>3, QuietWaits
<1> QED
  BY <1>1, <1>2

-----------------------------------------------------------------------------
(* Releases and transfers. *)

\* An operation that is over leaves the process waiting for nothing.
LEMMA FinishWaits ==
    ASSUME Inv, NEW p \in Proc, WaitInv(p), Finish(p), rbp'[p] = NoBuf
    PROVE  WaitInv(p)'
<1>1. /\ blkno'[p] = Nodev
      /\ pc'[p] \in {"user", "inexec"}
  BY DEF Finish, Inv, TypeOK
<1> QED
  BY <1>1 DEF WaitInv, AtGetblk, InTransfer

\* brelse of a buffer in hand.
LEMMA ReleaseWaits ==
    ASSUME Waits, Inv', NEW p \in Proc, NEW b \in Held(p), b \notin Elems(queue),
           NEW f \in SUBSET Flags, "WANTED" \in flags[b] => "WANTED" \in f,
           Brelse(b, f, freelist), queue' = queue, execnt' = execnt,
           OnlyMoves(p), WaitInv(p)'
    PROVE  Waits'
<1>1. Inv /\ TypeOK /\ NoLostWakeup /\ freelist \in Seq(Buf)
  BY DEF Waits, Inv, TypeOK
<1>2. b \in Buf /\ \A q \in Proc : q # p => b \notin Held(q)
  BY <1>1, HeldAlone
<1>3. \A a \in Buf : a # b => assoc'[a] = assoc[a] /\ (Settled(a) => Settled(a)')
  BY <1>1 DEF Brelse, Settled, TypeOK
<1>4. NoLostWakeup'
  BY <1>1, <1>2, BrelseWakes
<1> QED
  BY <1>2, <1>3, <1>4, TouchWaits

\* rkstrategy: the buffer is queued, or it is done already.
LEMMA StartSettles ==
    ASSUME Inv, NEW b \in Buf, assoc[b] # Nodev, NEW f \in SUBSET Flags,
           NEW fl \in Seq(Buf), Rkstrategy(b, f, fl)
    PROVE  /\ Settled(b)'
           /\ "ASYNC" \notin f => assoc' = assoc
           /\ \A a \in Buf : a # b => assoc'[a] = assoc[a] /\ (Settled(a) => Settled(a)')
<1>1. TypeOK
  BY DEF Inv
<1>2. CASE assoc[b] \in BadBlk
  <2>1. /\ Iodone(b, f \cup {"ERROR"}, fl) /\ queue' = queue
        /\ f \cup {"ERROR"} \in SUBSET Flags
    BY <1>1, <1>2, RkstrategyEffect DEF Flags
  <2>2. CASE "ASYNC" \in f
    <3>1. "ASYNC" \in f \cup {"ERROR"}
      BY <2>2
    <3>2. /\ flags' = [flags EXCEPT ![b] =
                          (f \cup {"ERROR"} \cup {"DONE"}) \ {"WANTED", "BUSY", "ASYNC"}]
          /\ assoc' = [assoc EXCEPT ![b] = IF "ERROR" \in f \cup {"ERROR"} THEN Nodev ELSE @]
      BY <1>1, <2>1, <3>1, IodoneEffect
    <3> QED
      BY <1>1, <2>1, <2>2, <3>2 DEF TypeOK, Settled
  <2>3. CASE "ASYNC" \notin f
    <3>1. /\ flags' = [flags EXCEPT ![b] = (f \cup {"ERROR"} \cup {"DONE"}) \ {"WANTED"}]
          /\ assoc' = assoc
      BY <1>1, <2>1, <2>3, IodoneEffect
    <3> QED
      BY <1>1, <2>1, <3>1 DEF TypeOK, Settled
  <2> QED
    BY <2>2, <2>3
<1>3. CASE assoc[b] \notin BadBlk
  <2>1. /\ flags' = [flags EXCEPT ![b] = f] /\ assoc' = assoc
        /\ Elems(queue') = Elems(queue) \cup {b}
    BY <1>1, <1>3, RkstrategyEffect
  <2> QED
    BY <1>1, <2>1 DEF TypeOK, Settled
<1> QED
  BY <1>2, <1>3

\* A transfer is started of a buffer that only p may have in hand.
LEMMA StartWaits ==
    ASSUME Waits, Inv', NEW p \in Proc, NEW b \in Buf, b \notin Elems(queue),
           \A q \in Proc : q # p => b \notin Held(q), assoc[b] # Nodev,
           NEW f \in SUBSET Flags, "BUSY" \in f, "WANTED" \in flags[b] => "WANTED" \in f,
           NEW fl \in Seq(Buf), freelist = <<>> => fl = <<>>,
           Rkstrategy(b, f, fl), execnt' = execnt, OnlyMoves(p), WaitInv(p)'
    PROVE  Waits'
<1>1. Inv /\ NoLostWakeup
  BY DEF Waits
<1>2. NoLostWakeup'
  BY <1>1, StrategyWakes
<1>3. \A a \in Buf : a # b => assoc'[a] = assoc[a] /\ (Settled(a) => Settled(a)')
  BY <1>1, StartSettles
<1> QED
  BY <1>2, <1>3, TouchWaits

\* The buffer in hand is p's alone, and nobody transfers it.
LEMMA InHandNow ==
    ASSUME Inv, NEW p \in Proc, pc[p] \in InHand
    PROVE  /\ bp[p] \in Held(p) /\ bp[p] \in Buf /\ flags[bp[p]] \in SUBSET Flags
           /\ \A q \in Proc : q # p => bp[p] \notin Held(q)
           /\ "BUSY" \in flags[bp[p]] /\ "ASYNC" \notin flags[bp[p]]
           /\ pc[p] \notin InTransfer \/ "DONE" \in flags[bp[p]] => bp[p] \notin Elems(queue)
           /\ pc[p] # "exec" => assoc[bp[p]] # Nodev
<1>1. TypeOK /\ ProcInv(p)
  BY DEF Inv
<1>2. bp[p] \in Held(p)
  BY <1>1 DEF ProcInv, Held
<1>3. bp[p] \in Buf /\ \A q \in Proc : q # p => bp[p] \notin Held(q)
  BY <1>2, HeldAlone
<1>4. /\ "BUSY" \in flags[bp[p]] /\ "ASYNC" \notin flags[bp[p]]
      /\ "DONE" \in flags[bp[p]] => bp[p] \notin Elems(queue)
  BY <1>2, <1>3 DEF Inv, OwnInv, ListInv
<1> QED
  BY <1>1, <1>2, <1>3, <1>4 DEF ProcInv, TypeOK

-----------------------------------------------------------------------------
(* bread, breada, bwrite. *)

\* bread finds the block, or starts to read it.
LEMMA BreadWaits ==
    ASSUME Waits, Inv', NEW p \in Proc, Bread(p)
    PROVE  Waits'
<1>0. Inv /\ TypeOK /\ WaitInv(p) /\ ProcInv(p) /\ pc[p] = "bread"
  BY DEF Waits, Inv, Bread
<1>p. /\ bp[p] \in Held(p) /\ bp[p] \in Buf /\ flags[bp[p]] \in SUBSET Flags
      /\ \A q \in Proc : q # p => bp[p] \notin Held(q)
      /\ "BUSY" \in flags[bp[p]] /\ "ASYNC" \notin flags[bp[p]]
      /\ pc[p] \notin InTransfer \/ "DONE" \in flags[bp[p]] => bp[p] \notin Elems(queue)
      /\ assoc[bp[p]] # Nodev
  BY <1>0, InHandNow DEF InHand, GetblkRet
<1>1. CASE "DONE" \in flags[bp[p]]
  <2>1. /\ pc'[p] = "held" /\ ret'[p] = ret[p] /\ want'[p] = want[p]
        /\ blkno'[p] = blkno[p] /\ bp'[p] = bp[p] /\ rbp'[p] = rbp[p]
        /\ OnlyMoves(p)
        /\ UNCHANGED <<flags, assoc, freelist, freeWanted, queue, wchan>>
        /\ execnt' = execnt
    BY <1>0, <1>1 DEF Bread, bufvars, devvars, argvars, ownvars, TypeOK, OnlyMoves
  <2>2. WaitInv(p)'
    BY <1>0, <1>1, <2>1
    DEF Bread, WaitInv, ProcInv, AtGetblk, InTransfer, InBreada, InBmap, InHand, GetblkRet,
        Settled
  <2>3. execnt' >= execnt
    BY <1>0, <2>1 DEF TypeOK
  <2> QED
    BY <2>1, <2>2, <2>3, QuietWaits
<1>2. CASE "DONE" \notin flags[bp[p]]
  <2> DEFINE f == flags[bp[p]] \cup {"READ"}
  <2>1. /\ pc'[p] = "iowait" /\ ret'[p] = ret[p] /\ want'[p] = want[p]
        /\ blkno'[p] = blkno[p] /\ bp'[p] = bp[p] /\ rbp'[p] = rbp[p]
        /\ OnlyMoves(p)
        /\ Rkstrategy(bp[p], f, freelist)
        /\ execnt' = execnt
    BY <1>0, <1>2 DEF Bread, bufvars, devvars, argvars, ownvars, TypeOK, OnlyMoves
  <2>2. /\ f \in SUBSET Flags /\ "BUSY" \in f
        /\ "WANTED" \in flags[bp[p]] => "WANTED" \in f
        /\ "ASYNC" \notin f
    BY <1>p DEF Flags
  <2> HIDE DEF f
  <2>3. bp[p] \notin Elems(queue) /\ freelist \in Seq(Buf)
    BY <1>0, <1>p DEF InTransfer, TypeOK
  <2>b. PICK a \in Buf : a = bp[p]
    BY <1>p
  <2>4. ("DONE" \in flags'[a] \/ a \in Elems(queue')) /\ assoc' = assoc
    BY <1>0, <1>2, <1>p, <2>1, <2>2, <2>3, <2>b, StartSettles DEF Settled
  <2>5. WaitInv(p)'
    BY <1>0, <1>2, <1>p, <2>1, <2>4, <2>b
    DEF Bread, WaitInv, ProcInv, AtGetblk, InTransfer, InBreada, InBmap, InHand, GetblkRet, Settled
  <2> QED
    BY <1>0, <1>2, <1>p, <2>1, <2>2, <2>3, <2>5, StartWaits
<1> QED
  BY <1>1, <1>2

\* breada starts to read its block.
LEMMA Breada1Waits ==
    ASSUME Waits, Inv', NEW p \in Proc, Breada1(p)
    PROVE  Waits'
<1>0. Inv /\ TypeOK /\ WaitInv(p) /\ ProcInv(p) /\ pc[p] = "breada1"
  BY DEF Waits, Inv, Breada1
<1>p. /\ bp[p] \in Held(p) /\ bp[p] \in Buf /\ flags[bp[p]] \in SUBSET Flags
      /\ \A q \in Proc : q # p => bp[p] \notin Held(q)
      /\ "BUSY" \in flags[bp[p]] /\ "ASYNC" \notin flags[bp[p]]
      /\ pc[p] \notin InTransfer \/ "DONE" \in flags[bp[p]] => bp[p] \notin Elems(queue)
      /\ assoc[bp[p]] # Nodev
  BY <1>0, InHandNow DEF InHand, GetblkRet
<1>1. CASE "DONE" \in flags[bp[p]]
  <2>1. /\ pc'[p] = "ahead" /\ ret'[p] = ret[p] /\ want'[p] = want[p]
        /\ blkno'[p] = blkno[p] /\ bp'[p] = NoBuf /\ rbp'[p] = bp[p]
        /\ OnlyMoves(p)
        /\ UNCHANGED <<flags, assoc, freelist, freeWanted, queue, wchan>>
        /\ execnt' = execnt
    BY <1>0, <1>1 DEF Breada1, bufvars, devvars, argvars, ownvars, TypeOK, OnlyMoves
  <2>2. WaitInv(p)'
    BY <1>0, <1>1, <2>1
    DEF Breada1, WaitInv, ProcInv, AtGetblk, InTransfer, InBreada, InBmap, InHand, GetblkRet,
        Settled
  <2>3. execnt' >= execnt
    BY <1>0, <2>1 DEF TypeOK
  <2> QED
    BY <2>1, <2>2, <2>3, QuietWaits
<1>2. CASE "DONE" \notin flags[bp[p]]
  <2> DEFINE f == flags[bp[p]] \cup {"READ"}
  <2>1. /\ pc'[p] = "ahead" /\ ret'[p] = ret[p] /\ want'[p] = want[p]
        /\ blkno'[p] = blkno[p] /\ bp'[p] = NoBuf /\ rbp'[p] = bp[p]
        /\ OnlyMoves(p)
        /\ Rkstrategy(bp[p], f, freelist)
        /\ execnt' = execnt
    BY <1>0, <1>2 DEF Breada1, bufvars, devvars, argvars, ownvars, TypeOK, OnlyMoves
  <2>2. /\ f \in SUBSET Flags /\ "BUSY" \in f
        /\ "WANTED" \in flags[bp[p]] => "WANTED" \in f
        /\ "ASYNC" \notin f
    BY <1>p DEF Flags
  <2> HIDE DEF f
  <2>3. bp[p] \notin Elems(queue) /\ freelist \in Seq(Buf)
    BY <1>0, <1>p DEF InTransfer, TypeOK
  <2>b. PICK a \in Buf : a = bp[p]
    BY <1>p
  <2>4. ("DONE" \in flags'[a] \/ a \in Elems(queue')) /\ assoc' = assoc
    BY <1>0, <1>2, <1>p, <2>1, <2>2, <2>3, <2>b, StartSettles DEF Settled
  <2>5. WaitInv(p)'
    BY <1>0, <1>2, <1>p, <2>1, <2>4, <2>b
    DEF Breada1, WaitInv, ProcInv, AtGetblk, InTransfer, InBreada, InBmap, InHand, GetblkRet, Settled
  <2> QED
    BY <1>0, <1>2, <1>p, <2>1, <2>2, <2>3, <2>5, StartWaits
<1> QED
  BY <1>1, <1>2

\* bwrite starts the transfer.
LEMMA BwriteWaits ==
    ASSUME Waits, Inv', NEW p \in Proc, Bwrite(p)
    PROVE  Waits'
<1>0. Inv /\ TypeOK /\ WaitInv(p) /\ ProcInv(p) /\ pc[p] = "dirty"
  BY DEF Waits, Inv, Bwrite
<1>p. /\ bp[p] \in Held(p) /\ bp[p] \in Buf /\ flags[bp[p]] \in SUBSET Flags
      /\ \A q \in Proc : q # p => bp[p] \notin Held(q)
      /\ "BUSY" \in flags[bp[p]] /\ "ASYNC" \notin flags[bp[p]]
      /\ pc[p] \notin InTransfer \/ "DONE" \in flags[bp[p]] => bp[p] \notin Elems(queue)
      /\ assoc[bp[p]] # Nodev
  BY <1>0, InHandNow DEF InHand, GetblkRet
<1> DEFINE f == flags[bp[p]] \ {"READ", "DONE", "ERROR", "DELWRI"}
<1>1. /\ pc'[p] = "bwait" /\ ret'[p] = ret[p] /\ want'[p] = want[p]
      /\ blkno'[p] = blkno[p] /\ bp'[p] = bp[p] /\ rbp'[p] = rbp[p]
      /\ OnlyMoves(p)
      /\ Rkstrategy(bp[p], f, freelist)
      /\ execnt' = execnt
  BY <1>0 DEF Bwrite, BwriteStart, bufvars, devvars, argvars, ownvars, TypeOK, OnlyMoves
<1>2. /\ f \in SUBSET Flags /\ "BUSY" \in f
      /\ "WANTED" \in flags[bp[p]] => "WANTED" \in f
      /\ "ASYNC" \notin f
  BY <1>p DEF Flags
<1> HIDE DEF f
<1>3. bp[p] \notin Elems(queue) /\ freelist \in Seq(Buf)
  BY <1>0, <1>p DEF InTransfer, TypeOK
<1>b. PICK a \in Buf : a = bp[p]
  BY <1>p
<1>4. ("DONE" \in flags'[a] \/ a \in Elems(queue')) /\ assoc' = assoc
  BY <1>0, <1>p, <1>1, <1>2, <1>3, <1>b, StartSettles DEF Settled
<1>5. WaitInv(p)'
  BY <1>0, <1>p, <1>1, <1>4, <1>b
  DEF Bwrite, WaitInv, ProcInv, AtGetblk, InTransfer, InBreada, InBmap, InHand, GetblkRet, Settled
<1> QED
  BY <1>0, <1>p, <1>1, <1>2, <1>3, <1>5, StartWaits

\* bawrite gives the buffer to the driver.
LEMMA BawriteWaits ==
    ASSUME Waits, Inv', NEW p \in Proc, Bawrite(p)
    PROVE  Waits'
<1>0. Inv /\ TypeOK /\ WaitInv(p) /\ ProcInv(p) /\ pc[p] = "dirty"
  BY DEF Waits, Inv, Bawrite
<1>p. /\ bp[p] \in Held(p) /\ bp[p] \in Buf /\ flags[bp[p]] \in SUBSET Flags
      /\ \A q \in Proc : q # p => bp[p] \notin Held(q)
      /\ "BUSY" \in flags[bp[p]] /\ "ASYNC" \notin flags[bp[p]]
      /\ pc[p] \notin InTransfer \/ "DONE" \in flags[bp[p]] => bp[p] \notin Elems(queue)
      /\ assoc[bp[p]] # Nodev
  BY <1>0, InHandNow DEF InHand, GetblkRet
<1> DEFINE f == (flags[bp[p]] \cup {"ASYNC"}) \ {"READ", "DONE", "ERROR", "DELWRI"}
<1>1. /\ Finish(p) /\ bp'[p] = NoBuf /\ rbp'[p] = rbp[p]
      /\ OnlyMoves(p)
      /\ Rkstrategy(bp[p], f, freelist)
      /\ execnt' = execnt
  BY <1>0, FinishEffect DEF Bawrite, BwriteStart, bufvars, devvars, argvars, ownvars, TypeOK, OnlyMoves
<1>2. /\ f \in SUBSET Flags
      /\ "WANTED" \in flags[bp[p]] => "WANTED" \in f
      /\ "BUSY" \in f
  BY <1>p DEF Flags
<1> HIDE DEF f
<1>3. bp[p] \notin Elems(queue) /\ freelist \in Seq(Buf)
  BY <1>0, <1>p DEF InTransfer, TypeOK
<1>4. rbp[p] = NoBuf
  BY <1>0 DEF ProcInv, InBmap, InBreada
<1>5. WaitInv(p)'
  BY <1>0, <1>1, <1>4, FinishWaits
<1> QED
  BY <1>0, <1>p, <1>1, <1>2, <1>3, <1>5, StartWaits

\* A block that was read is released.
LEMMA ReleaseCleanWaits ==
    ASSUME Waits, Inv', NEW p \in Proc, ReleaseClean(p)
    PROVE  Waits'
<1>0. Inv /\ TypeOK /\ WaitInv(p) /\ ProcInv(p) /\ pc[p] = "held"
  BY DEF Waits, Inv, ReleaseClean
<1>p. /\ bp[p] \in Held(p) /\ bp[p] \in Buf /\ flags[bp[p]] \in SUBSET Flags
      /\ \A q \in Proc : q # p => bp[p] \notin Held(q)
      /\ "BUSY" \in flags[bp[p]] /\ "ASYNC" \notin flags[bp[p]]
      /\ pc[p] \notin InTransfer \/ "DONE" \in flags[bp[p]] => bp[p] \notin Elems(queue)
      /\ assoc[bp[p]] # Nodev
  BY <1>0, InHandNow DEF InHand, GetblkRet
<1> DEFINE f == flags[bp[p]]
<1>1. /\ Finish(p) /\ bp'[p] = NoBuf /\ rbp'[p] = rbp[p]
      /\ OnlyMoves(p)
      /\ Brelse(bp[p], f, freelist) /\ queue' = queue
      /\ execnt' = execnt
  BY <1>0, FinishEffect DEF ReleaseClean, bufvars, devvars, argvars, ownvars, TypeOK, OnlyMoves
<1>2. /\ f \in SUBSET Flags
      /\ "WANTED" \in flags[bp[p]] => "WANTED" \in f
  BY <1>p DEF Flags
<1> HIDE DEF f
<1>3. bp[p] \notin Elems(queue) /\ freelist \in Seq(Buf)
  BY <1>0, <1>p DEF InTransfer, TypeOK
<1>4. rbp[p] = NoBuf
  BY <1>0 DEF ProcInv, InBmap, InBreada
<1>5. WaitInv(p)'
  BY <1>0, <1>1, <1>4, FinishWaits
<1> QED
  BY <1>0, <1>p, <1>1, <1>2, <1>3, <1>5, ReleaseWaits

\* bdwrite releases the buffer.
LEMMA BdwriteWaits ==
    ASSUME Waits, Inv', NEW p \in Proc, Bdwrite(p)
    PROVE  Waits'
<1>0. Inv /\ TypeOK /\ WaitInv(p) /\ ProcInv(p) /\ pc[p] \in {"dirty", "dwrite"}
  BY DEF Waits, Inv, Bdwrite
<1>p. /\ bp[p] \in Held(p) /\ bp[p] \in Buf /\ flags[bp[p]] \in SUBSET Flags
      /\ \A q \in Proc : q # p => bp[p] \notin Held(q)
      /\ "BUSY" \in flags[bp[p]] /\ "ASYNC" \notin flags[bp[p]]
      /\ pc[p] \notin InTransfer \/ "DONE" \in flags[bp[p]] => bp[p] \notin Elems(queue)
      /\ assoc[bp[p]] # Nodev
  BY <1>0, InHandNow DEF InHand, GetblkRet
<1> DEFINE f == flags[bp[p]] \cup {"DELWRI", "DONE"}
<1>1. /\ Finish(p) /\ bp'[p] = NoBuf /\ rbp'[p] = rbp[p]
      /\ OnlyMoves(p)
      /\ Brelse(bp[p], f, freelist) /\ queue' = queue
      /\ execnt' = execnt
  BY <1>0, FinishEffect DEF Bdwrite, bufvars, devvars, argvars, ownvars, TypeOK, OnlyMoves
<1>2. /\ f \in SUBSET Flags
      /\ "WANTED" \in flags[bp[p]] => "WANTED" \in f
  BY <1>p DEF Flags
<1> HIDE DEF f
<1>3. bp[p] \notin Elems(queue) /\ freelist \in Seq(Buf)
  BY <1>0, <1>p DEF InTransfer, TypeOK
<1>4. rbp[p] = NoBuf
  BY <1>0 DEF ProcInv, InBmap, InBreada
<1>5. WaitInv(p)'
  BY <1>0, <1>1, <1>4, FinishWaits
<1> QED
  BY <1>0, <1>p, <1>1, <1>2, <1>3, <1>5, ReleaseWaits

\* bmap releases the new block and takes up the indirect block.
LEMMA BmapBdwriteWaits ==
    ASSUME Waits, Inv', NEW p \in Proc, BmapBdwrite(p)
    PROVE  Waits'
<1>0. Inv /\ TypeOK /\ WaitInv(p) /\ ProcInv(p) /\ pc[p] = "nbdw"
  BY DEF Waits, Inv, BmapBdwrite
<1>p. /\ bp[p] \in Held(p) /\ bp[p] \in Buf /\ flags[bp[p]] \in SUBSET Flags
      /\ \A q \in Proc : q # p => bp[p] \notin Held(q)
      /\ "BUSY" \in flags[bp[p]] /\ "ASYNC" \notin flags[bp[p]]
      /\ pc[p] \notin InTransfer \/ "DONE" \in flags[bp[p]] => bp[p] \notin Elems(queue)
      /\ assoc[bp[p]] # Nodev
  BY <1>0, InHandNow DEF InHand, GetblkRet
<1> DEFINE f == flags[bp[p]] \cup {"DELWRI", "DONE"}
<1>1. /\ pc'[p] = "dwrite" /\ ret'[p] = ret[p] /\ want'[p] = want[p]
      /\ blkno'[p] = blkno[p] /\ bp'[p] = rbp[p] /\ rbp'[p] = NoBuf
      /\ OnlyMoves(p)
      /\ Brelse(bp[p], f, freelist) /\ queue' = queue
      /\ execnt' = execnt
  BY <1>0 DEF BmapBdwrite, bufvars, devvars, argvars, ownvars, TypeOK, OnlyMoves
<1>2. /\ f \in SUBSET Flags
      /\ "WANTED" \in flags[bp[p]] => "WANTED" \in f
  BY <1>p DEF Flags
<1> HIDE DEF f
<1>3. bp[p] \notin Elems(queue) /\ freelist \in Seq(Buf)
  BY <1>0, <1>p DEF InTransfer, TypeOK
<1>4. rbp[p] # bp[p] /\ (rbp[p] # NoBuf => rbp[p] \in Buf)
  BY <1>0, <1>p, HandsNow DEF Hands, TypeOK, ProcInv, InHand, GetblkRet
<1>6. rbp[p] # NoBuf => assoc'[rbp[p]] = assoc[rbp[p]] /\ flags'[rbp[p]] = flags[rbp[p]]
  BY <1>0, <1>1, <1>4 DEF Brelse, TypeOK
<1>5. WaitInv(p)'
  BY <1>0, <1>1, <1>4, <1>6
  DEF BmapBdwrite, WaitInv, ProcInv, AtGetblk, InTransfer, InBreada, InBmap, InHand, GetblkRet,
      Settled
<1> QED
  BY <1>0, <1>p, <1>1, <1>2, <1>3, <1>5, ReleaseWaits

\* breada releases a read-ahead block that is in core, or starts to read it.
LEMMA Breada2Waits ==
    ASSUME Waits, Inv', NEW p \in Proc, Breada2(p)
    PROVE  Waits'
<1>0. Inv /\ TypeOK /\ WaitInv(p) /\ ProcInv(p) /\ pc[p] = "breada2"
  BY DEF Waits, Inv, Breada2
<1>p. /\ bp[p] \in Held(p) /\ bp[p] \in Buf /\ flags[bp[p]] \in SUBSET Flags
      /\ \A q \in Proc : q # p => bp[p] \notin Held(q)
      /\ "BUSY" \in flags[bp[p]] /\ "ASYNC" \notin flags[bp[p]]
      /\ pc[p] \notin InTransfer \/ "DONE" \in flags[bp[p]] => bp[p] \notin Elems(queue)
      /\ assoc[bp[p]] # Nodev
  BY <1>0, InHandNow DEF InHand, GetblkRet
<1>1. CASE "DONE" \in flags[bp[p]]
  <2> DEFINE f == flags[bp[p]]
  <2>1. /\ pc'[p] = "main" /\ ret'[p] = ret[p] /\ want'[p] = want[p]
        /\ blkno'[p] = blkno[p] /\ bp'[p] = NoBuf /\ rbp'[p] = rbp[p]
        /\ OnlyMoves(p)
        /\ Brelse(bp[p], f, freelist) /\ queue' = queue
        /\ execnt' = execnt
    BY <1>0, <1>1 DEF Breada2, bufvars, devvars, argvars, ownvars, TypeOK, OnlyMoves
  <2>2. /\ f \in SUBSET Flags
        /\ "WANTED" \in flags[bp[p]] => "WANTED" \in f
    BY <1>p DEF Flags
  <2> HIDE DEF f
  <2>3. bp[p] \notin Elems(queue) /\ freelist \in Seq(Buf)
    BY <1>0, <1>1, <1>p DEF InTransfer, TypeOK
  <2>4. rbp[p] # bp[p] /\ (rbp[p] # NoBuf => rbp[p] \in Buf)
    BY <1>0, <1>p, HandsNow DEF Hands, TypeOK, ProcInv, InHand, GetblkRet
  <2>6. rbp[p] # NoBuf => assoc'[rbp[p]] = assoc[rbp[p]] /\ flags'[rbp[p]] = flags[rbp[p]]
    BY <1>0, <2>1, <2>4 DEF Brelse, TypeOK
  <2>5. WaitInv(p)'
    BY <1>0, <1>1, <2>1, <2>4, <2>6
    DEF Breada2, WaitInv, ProcInv, AtGetblk, InTransfer, InBreada, InBmap, InHand, GetblkRet,
        Settled
  <2> QED
    BY <1>0, <1>1, <1>p, <2>1, <2>2, <2>3, <2>5, ReleaseWaits
<1>2. CASE "DONE" \notin flags[bp[p]]
  <2> DEFINE f == flags[bp[p]] \cup {"READ", "ASYNC"}
  <2>1. /\ pc'[p] = "main" /\ ret'[p] = ret[p] /\ want'[p] = want[p]
        /\ blkno'[p] = blkno[p] /\ bp'[p] = NoBuf /\ rbp'[p] = rbp[p]
        /\ OnlyMoves(p)
        /\ Rkstrategy(bp[p], f, freelist)
        /\ execnt' = execnt
    BY <1>0, <1>2 DEF Breada2, bufvars, devvars, argvars, ownvars, TypeOK, OnlyMoves
  <2>2. /\ f \in SUBSET Flags
        /\ "WANTED" \in flags[bp[p]] => "WANTED" \in f
        /\ "BUSY" \in f
    BY <1>p DEF Flags
  <2> HIDE DEF f
  <2>3. bp[p] \notin Elems(queue) /\ freelist \in Seq(Buf)
    BY <1>0, <1>2, <1>p DEF InTransfer, TypeOK
  <2>4. rbp[p] # bp[p] /\ (rbp[p] # NoBuf => rbp[p] \in Buf)
    BY <1>0, <1>p, HandsNow DEF Hands, TypeOK, ProcInv, InHand, GetblkRet
  <2>6. ASSUME NEW a \in Buf, a = rbp[p]
        PROVE  assoc'[a] = assoc[a] /\ ("DONE" \in flags[a] \/ a \in Elems(queue) => "DONE" \in flags'[a] \/ a \in Elems(queue'))
    BY <1>0, <1>p, <2>1, <2>2, <2>3, <2>4, <2>6, StartSettles DEF Settled
  <2>5. WaitInv(p)'
    BY <1>0, <1>2, <2>1, <2>4, <2>6
    DEF Breada2, WaitInv, ProcInv, AtGetblk, InTransfer, InBreada, InBmap, InHand, GetblkRet,
        Settled
  <2> QED
    BY <1>0, <1>2, <1>p, <2>1, <2>2, <2>3, <2>5, StartWaits
<1> QED
  BY <1>1, <1>2

-----------------------------------------------------------------------------
(* Going to sleep. *)

\* A process goes to sleep on a channel that will be signalled.
LEMMA SleepWaits ==
    ASSUME Waits, Inv', NEW p \in Proc, NEW c, wchan' = [wchan EXCEPT ![p] = c],
           \A a \in Buf : flags'[a] = flags[a] \/ flags'[a] = flags[a] \cup {"WANTED"},
           freeWanted => freeWanted',
           UNCHANGED <<assoc, queue, freelist, pc, ret, want, blkno, bp, rbp, arg, execnt>>,
           WillWake(c)'
    PROVE  Waits'
<1>1. Inv /\ TypeOK
  BY DEF Waits, Inv
<1>2. ASSUME NEW q \in Proc
      PROVE  WillWake(wchan[q])'
  <2>1. WillWake(wchan[q])
    BY DEF Waits, NoLostWakeup, WillWake
  <2>2. wchan'[q] = IF q = p THEN c ELSE wchan[q]
    BY <1>1 DEF TypeOK
  <2> QED
    BY <2>1, <2>2 DEF WillWake, Busy
<1>3. NoLostWakeup'
  BY <1>2 DEF NoLostWakeup, WillWake
<1>4. ASSUME NEW q \in Proc
      PROVE  WaitInv(q)'
  <2>1. \A a \in Held(q) : assoc'[a] = assoc[a] /\ (Settled(a) => Settled(a)')
    BY <1>1, HeldIn DEF Settled
  <2> QED
    BY <1>1, <2>1, WaitKept DEF Waits
<1> QED
  BY <1>3, <1>4 DEF Waits

\* getblk sleeps on a busy buffer, which it marks wanted.
LEMMA GetblkBusyWaits ==
    ASSUME Waits, Inv', NEW p \in Proc, GetblkBusy(p)
    PROVE  Waits'
<1>1. TypeOK
  BY DEF Waits, Inv
<1>2. PICK b \in Buf : /\ "BUSY" \in flags[b]
                       /\ flags' = [flags EXCEPT ![b] = @ \cup {"WANTED"}]
                       /\ wchan' = [wchan EXCEPT ![p] = b]
  BY DEF GetblkBusy, Sleep
<1>3. UNCHANGED <<assoc, queue, freelist, freeWanted, pc, ret, want, blkno, bp, rbp, arg,
                  execnt>>
  BY DEF GetblkBusy, devvars, argvars, ownvars
<1>4. /\ flags'[b] = flags[b] \cup {"WANTED"}
      /\ \A a \in Buf : flags'[a] = flags[a] \/ flags'[a] = flags[a] \cup {"WANTED"}
  BY <1>1, <1>2 DEF TypeOK
<1>5. WillWake(b)'
  BY <1>2, <1>4, BufAssumption DEF WillWake, Busy
<1> QED
  BY <1>2, <1>3, <1>4, <1>5, SleepWaits

\* getblk sleeps on the empty list, which it marks wanted.
LEMMA GetblkEmptyWaits ==
    ASSUME Waits, Inv', NEW p \in Proc, GetblkEmpty(p)
    PROVE  Waits'
<1>1. /\ freelist = <<>> /\ freeWanted' = TRUE
      /\ wchan' = [wchan EXCEPT ![p] = "bfreelist"]
      /\ UNCHANGED <<flags, assoc, queue, freelist, pc, ret, want, blkno, bp, rbp, arg,
                     execnt>>
  BY DEF GetblkEmpty, Sleep, devvars, argvars, ownvars
<1>2. WillWake("bfreelist")'
  BY <1>1, BufAssumption DEF WillWake
<1> QED
  BY <1>1, <1>2, SleepWaits

\* iowait returns when the transfer is over, and sleeps while it is not.
LEMMA IowaitWaits ==
    ASSUME Waits, Inv', NEW p \in Proc, Iowait(p)
    PROVE  Waits'
<1>0. Inv /\ TypeOK /\ WaitInv(p) /\ ProcInv(p) /\ pc[p] = "iowait"
  BY DEF Waits, Inv, Iowait
<1>p. /\ bp[p] \in Held(p) /\ bp[p] \in Buf /\ flags[bp[p]] \in SUBSET Flags
      /\ \A q \in Proc : q # p => bp[p] \notin Held(q)
      /\ "BUSY" \in flags[bp[p]] /\ "ASYNC" \notin flags[bp[p]]
      /\ pc[p] \notin InTransfer \/ "DONE" \in flags[bp[p]] => bp[p] \notin Elems(queue)
      /\ assoc[bp[p]] # Nodev
  BY <1>0, InHandNow DEF InHand, GetblkRet
<1>1. CASE "DONE" \in flags[bp[p]]
  <2>1. /\ pc'[p] = "held" /\ ret'[p] = ret[p] /\ want'[p] = want[p]
        /\ blkno'[p] = blkno[p] /\ bp'[p] = bp[p] /\ rbp'[p] = rbp[p]
        /\ OnlyMoves(p)
        /\ UNCHANGED <<flags, assoc, freelist, freeWanted, queue, wchan>>
        /\ execnt' = execnt
    BY <1>0, <1>1 DEF Iowait, bufvars, devvars, argvars, ownvars, TypeOK, OnlyMoves
  <2>2. WaitInv(p)'
    BY <1>0, <1>1, <2>1
    DEF Iowait, WaitInv, ProcInv, AtGetblk, InTransfer, InBreada, InBmap, InHand, GetblkRet,
        Settled
  <2>3. execnt' >= execnt
    BY <1>0, <2>1 DEF TypeOK
  <2> QED
    BY <2>1, <2>2, <2>3, QuietWaits
<1>2. CASE "DONE" \notin flags[bp[p]]
  <2>1. /\ wchan' = [wchan EXCEPT ![p] = bp[p]]
        /\ UNCHANGED <<flags, assoc, queue, freelist, freeWanted, pc, ret, want, blkno, bp,
                       rbp, arg, execnt>>
    BY <1>2 DEF Iowait, Sleep, devvars, argvars, ownvars
  <2>2. bp[p] \in Elems(queue)
    BY <1>0, <1>2 DEF WaitInv, InTransfer, Settled
  <2>b. PICK b \in Buf : b = bp[p]
    BY <1>p
  <2>3. WillWake(b)'
    BY <1>p, <2>1, <2>2, <2>b, BufAssumption DEF WillWake, Busy
  <2> QED
    BY <2>1, <2>3, <2>b, SleepWaits
<1> QED
  BY <1>1, <1>2

\* bwrite releases the buffer when the transfer is over, and sleeps while it is not.
LEMMA BwriteWaitWaits ==
    ASSUME Waits, Inv', NEW p \in Proc, BwriteWait(p)
    PROVE  Waits'
<1>0. Inv /\ TypeOK /\ WaitInv(p) /\ ProcInv(p) /\ pc[p] = "bwait"
  BY DEF Waits, Inv, BwriteWait
<1>p. /\ bp[p] \in Held(p) /\ bp[p] \in Buf /\ flags[bp[p]] \in SUBSET Flags
      /\ \A q \in Proc : q # p => bp[p] \notin Held(q)
      /\ "BUSY" \in flags[bp[p]] /\ "ASYNC" \notin flags[bp[p]]
      /\ pc[p] \notin InTransfer \/ "DONE" \in flags[bp[p]] => bp[p] \notin Elems(queue)
      /\ assoc[bp[p]] # Nodev
  BY <1>0, InHandNow DEF InHand, GetblkRet
<1>1. CASE "DONE" \in flags[bp[p]]
  <2> DEFINE f == flags[bp[p]]
  <2>1. /\ Finish(p) /\ bp'[p] = NoBuf /\ rbp'[p] = rbp[p]
        /\ OnlyMoves(p)
        /\ Brelse(bp[p], f, freelist) /\ queue' = queue
        /\ execnt' = execnt
    BY <1>0, <1>1, FinishEffect DEF BwriteWait, bufvars, devvars, argvars, ownvars, TypeOK, OnlyMoves
  <2>2. /\ f \in SUBSET Flags
        /\ "WANTED" \in flags[bp[p]] => "WANTED" \in f
    BY <1>p DEF Flags
  <2> HIDE DEF f
  <2>3. bp[p] \notin Elems(queue) /\ freelist \in Seq(Buf)
    BY <1>0, <1>1, <1>p DEF InTransfer, TypeOK
  <2>4. rbp[p] = NoBuf
    BY <1>0, <1>1 DEF ProcInv, InBmap, InBreada
  <2>5. WaitInv(p)'
    BY <1>0, <2>1, <2>4, FinishWaits
  <2> QED
    BY <1>0, <1>1, <1>p, <2>1, <2>2, <2>3, <2>5, ReleaseWaits
<1>2. CASE "DONE" \notin flags[bp[p]]
  <2>1. /\ wchan' = [wchan EXCEPT ![p] = bp[p]]
        /\ UNCHANGED <<flags, assoc, queue, freelist, freeWanted, pc, ret, want, blkno, bp,
                       rbp, arg, execnt>>
    BY <1>2 DEF BwriteWait, Sleep, devvars, argvars, ownvars
  <2>2. bp[p] \in Elems(queue)
    BY <1>0, <1>2 DEF WaitInv, InTransfer, Settled
  <2>b. PICK b \in Buf : b = bp[p]
    BY <1>p
  <2>3. WillWake(b)'
    BY <1>p, <2>1, <2>2, <2>b, BufAssumption DEF WillWake, Busy
  <2> QED
    BY <2>1, <2>3, <2>b, SleepWaits
<1> QED
  BY <1>1, <1>2

-----------------------------------------------------------------------------
(* The available list. *)

\* A process takes a buffer off the available list: nobody sleeps on it, nor
\* for any buffer.
LEMMA TakeWaits ==
    ASSUME Waits, Inv', NEW p \in Proc, pc[p] = "getblk", NEW b \in Buf,
           NEW f \in SUBSET Flags, b \in Elems(freelist),
           flags' = [flags EXCEPT ![b] = f],
           assoc' = [assoc EXCEPT ![b] = want[p]],
           bp' = [bp EXCEPT ![p] = b],
           pc' = [pc EXCEPT ![p] = ret[p]],
           UNCHANGED <<wchan, queue, want, ret, blkno, rbp, arg, execnt>>
    PROVE  Waits'
<1>0. Inv /\ TypeOK /\ WaitInv(p) /\ ProcInv(p) /\ BufOK(b)
  BY BufOKs DEF Waits, Inv
<1>1. /\ "BUSY" \notin flags[b] /\ b \notin Elems(queue) /\ freelist # <<>>
      /\ \A q \in Proc : b \notin Held(q)
  BY <1>0 DEF BufOK, Elems
<1>2. /\ \A a \in Buf : a # b => flags'[a] = flags[a] /\ assoc'[a] = assoc[a]
      /\ assoc'[b] = want[p]
  BY <1>0 DEF TypeOK
<1>3. OnlyMoves(p)
  BY <1>0 DEF TypeOK, OnlyMoves
<1>4. NoLostWakeup'
  <2>1. ASSUME NEW q \in Proc, WillWake(wchan[q])
        PROVE  WillWake(wchan[q])'
    BY <1>1, <1>2, <2>1 DEF WillWake, Busy
  <2> QED
    BY <2>1, SleepersFrame DEF Waits
<1>5. WaitInv(p)'
  <2>1. ret[p] \in GetblkRet /\ pc'[p] = ret[p] /\ bp'[p] = b
    BY <1>0 DEF TypeOK
  <2>2. rbp[p] # NoBuf => /\ rbp[p] \in Buf /\ rbp[p] # b
                          /\ assoc'[rbp[p]] = assoc[rbp[p]] /\ flags'[rbp[p]] = flags[rbp[p]]
    BY <1>0, <1>1, <1>2 DEF Held, TypeOK
  <2> QED
    BY <1>0, <2>1, <2>2
    DEF WaitInv, AtGetblk, InTransfer, InBreada, GetblkRet, Settled
<1> QED
  BY <1>1, <1>2, <1>3, <1>4, <1>5, TouchWaits DEF Settled

\* getblk returns the available buffer of its block.
LEMMA GetblkHitWaits ==
    ASSUME Waits, Inv', NEW p \in Proc, GetblkHit(p)
    PROVE  Waits'
<1>1. PICK b \in Buf :
          /\ assoc[b] = want[p] /\ "BUSY" \notin flags[b]
          /\ flags' = [flags EXCEPT ![b] = flags[b] \cup {"BUSY"}]
          /\ bp' = [bp EXCEPT ![p] = b]
  BY DEF GetblkHit
<1>2. /\ pc[p] = "getblk" /\ pc' = [pc EXCEPT ![p] = ret[p]]
      /\ UNCHANGED <<assoc, wchan, queue, want, ret, blkno, rbp, arg, execnt>>
  BY DEF GetblkHit, devvars, argvars
<1>3. TypeOK /\ BufOK(b)
  BY BufOKs DEF Waits, Inv
<1>4. /\ b \in Elems(freelist)
      /\ flags[b] \cup {"BUSY"} \in SUBSET Flags
      /\ assoc' = [assoc EXCEPT ![b] = want[p]]
  BY <1>1, <1>2, <1>3 DEF BufOK, TypeOK, Flags
<1> QED
  BY <1>1, <1>2, <1>4, TakeWaits

\* getblk gives the oldest available buffer to the block.
LEMMA GetblkReassignWaits ==
    ASSUME Waits, Inv', NEW p \in Proc, GetblkReassign(p)
    PROVE  Waits'
<1> DEFINE b == Head(freelist)
<1>1. /\ pc[p] = "getblk" /\ freelist # <<>>
      /\ flags' = [flags EXCEPT ![b] = {"BUSY"}]
      /\ assoc' = [assoc EXCEPT ![b] = want[p]]
      /\ bp' = [bp EXCEPT ![p] = b]
      /\ pc' = [pc EXCEPT ![p] = ret[p]]
      /\ UNCHANGED <<wchan, queue, want, ret, blkno, rbp, arg, execnt>>
  BY DEF GetblkReassign, devvars, argvars
<1>2. b \in Buf /\ b \in Elems(freelist) /\ {"BUSY"} \in SUBSET Flags
  BY <1>1, TailElems DEF Waits, Inv, TypeOK, Flags
<1> HIDE DEF b
<1> QED
  BY <1>1, <1>2, TakeWaits

\* A delayed write of an available buffer is started: getblk and bflush.
LEMMA DelayedWaits ==
    ASSUME Waits, Inv', NEW p \in Proc, NEW b \in Buf, b \in Elems(freelist),
           "DELWRI" \in flags[b], NEW fl \in Seq(Buf),
           BwriteStart(b, flags[b] \cup {"BUSY", "ASYNC"}, fl),
           UNCHANGED <<pc, want, ret, blkno, bp, rbp, arg, execnt>>
    PROVE  Waits'
<1> DEFINE f == (flags[b] \cup {"BUSY", "ASYNC"}) \ {"READ", "DONE", "ERROR", "DELWRI"}
<1>1. Inv /\ TypeOK /\ BufOK(b) /\ Rkstrategy(b, f, fl)
  BY BufOKs DEF Waits, Inv, BwriteStart
<1>2. /\ b \notin Elems(queue) /\ assoc[b] # Nodev /\ freelist # <<>>
      /\ \A q \in Proc : b \notin Held(q)
  BY <1>1, BufAssumption DEF BufOK, Elems
<1>3. /\ f \in SUBSET Flags /\ "BUSY" \in f
      /\ "WANTED" \in flags[b] => "WANTED" \in f
  BY <1>1 DEF TypeOK, Flags
<1> HIDE DEF f
<1>4. \A a \in Buf : a # b => assoc'[a] = assoc[a] /\ (Settled(a) => Settled(a)')
  BY <1>1, <1>2, <1>3, StartSettles
<1>5. WaitInv(p)'
  <2>1. \A a \in Held(p) : assoc'[a] = assoc[a] /\ (Settled(a) => Settled(a)')
    BY <1>1, <1>2, <1>4, HeldIn
  <2> QED
    BY <1>1, <2>1, WaitKept DEF Waits
<1>6. OnlyMoves(p)
  BY DEF OnlyMoves
<1> QED
  BY <1>1, <1>2, <1>3, <1>5, <1>6, StartWaits

\* getblk writes out the oldest available buffer.
LEMMA GetblkDelwriWaits ==
    ASSUME Waits, Inv', NEW p \in Proc, GetblkDelwri(p)
    PROVE  Waits'
<1> DEFINE b == Head(freelist)
<1>1. /\ freelist # <<>> /\ "DELWRI" \in flags[b]
      /\ BwriteStart(b, flags[b] \cup {"BUSY", "ASYNC"}, Tail(freelist))
      /\ UNCHANGED <<pc, want, ret, blkno, bp, rbp, arg, execnt>>
  BY DEF GetblkDelwri, argvars, ownvars
<1>2. b \in Buf /\ b \in Elems(freelist) /\ Tail(freelist) \in Seq(Buf)
  BY <1>1, TailElems DEF Waits, Inv, TypeOK
<1> HIDE DEF b
<1> QED
  BY <1>1, <1>2, DelayedWaits

\* bflush writes out the first delayed write on the available list.
LEMMA BflushWaits ==
    ASSUME Waits, Inv', NEW p \in Proc, Bflush(p)
    PROVE  Waits'
<1>1. PICK i \in Delayed :
          BwriteStart(freelist[i], flags[freelist[i]] \cup {"BUSY", "ASYNC"},
                      Unlink(freelist, freelist[i]))
  BY DEF Bflush
<1>2. UNCHANGED <<pc, want, ret, blkno, bp, rbp, arg, execnt>>
  BY DEF Bflush, argvars, ownvars
<1> DEFINE b == freelist[i]
<1>3. b \in Buf /\ b \in Elems(freelist) /\ "DELWRI" \in flags[b]
  BY DEF Waits, Inv, TypeOK, Delayed, Elems
<1>4. Unlink(freelist, b) \in Seq(Buf)
  BY <1>3, UnlinkElems DEF Waits, Inv, ListInv, TypeOK
<1> HIDE DEF b
<1> QED
  BY <1>1, <1>2, <1>3, <1>4, DelayedWaits DEF b

\* bflush ends.
LEMMA BflushEndWaits ==
    ASSUME Waits, Inv', NEW p \in Proc, BflushEnd(p)
    PROVE  Waits'
<1>0. Inv /\ TypeOK /\ WaitInv(p) /\ ProcInv(p) /\ pc[p] = "bflush"
  BY DEF Waits, Inv, BflushEnd
<1>1. /\ Finish(p) /\ OnlyMoves(p) /\ rbp'[p] = rbp[p]
      /\ UNCHANGED <<flags, assoc, freelist, freeWanted, queue, wchan, execnt>>
  BY <1>0, FinishEffect DEF BflushEnd, bufvars, devvars, ownvars, TypeOK, OnlyMoves
<1>2. rbp[p] = NoBuf
  BY <1>0 DEF ProcInv, InBmap, InBreada
<1>3. WaitInv(p)'
  BY <1>0, <1>1, <1>2, FinishWaits
<1>4. execnt' >= execnt
  BY <1>0, <1>1 DEF TypeOK
<1> QED
  BY <1>1, <1>3, <1>4, QuietWaits

-----------------------------------------------------------------------------
(* exec. *)

\* exec sleeps while there are enough of them, or asks for its buffer.
LEMMA ExecEnterWaits ==
    ASSUME Waits, Inv', NEW p \in Proc, ExecEnter(p)
    PROVE  Waits'
<1>0. Inv /\ TypeOK /\ WaitInv(p) /\ ProcInv(p) /\ pc[p] = "execwait"
  BY DEF Waits, Inv, ExecEnter
<1>1. CASE execnt >= NEXEC
  <2>1. /\ wchan' = [wchan EXCEPT ![p] = "execnt"]
        /\ UNCHANGED <<flags, assoc, queue, freelist, freeWanted, pc, ret, want, blkno, bp,
                       rbp, arg, execnt>>
    BY <1>1 DEF ExecEnter, Sleep, devvars, ownvars
  <2>2. WillWake("execnt")'
    BY <1>1, <2>1, BufAssumption DEF WillWake
  <2> QED
    BY <2>1, <2>2, SleepWaits
<1>2. CASE ~(execnt >= NEXEC)
  <2>1. /\ pc'[p] = "getblk" /\ ret'[p] = "exec" /\ blkno'[p] = blkno[p]
        /\ bp'[p] = bp[p] /\ rbp'[p] = rbp[p]
        /\ OnlyMoves(p)
        /\ UNCHANGED <<flags, assoc, freelist, freeWanted, queue, wchan>>
        /\ execnt' = execnt + 1
    BY <1>0, <1>2
    DEF ExecEnter, CallGetblk, bufvars, devvars, argvars, ownvars, TypeOK, OnlyMoves
  <2>2. WaitInv(p)'
    BY <1>0, <2>1 DEF WaitInv, ProcInv, AtGetblk, InTransfer, InBreada, InBmap
  <2>3. execnt' >= execnt
    BY <1>0, <2>1 DEF TypeOK
  <2> QED
    BY <2>1, <2>2, <2>3, QuietWaits
<1> QED
  BY <1>1, <1>2

\* exec gives its buffer back, and wakes the next exec.
LEMMA ExecEndWaits ==
    ASSUME Waits, Inv', NEW p \in Proc, ExecEnd(p)
    PROVE  Waits'
<1> DEFINE b == arg[p]
           C == (IF "WANTED" \in flags[b] THEN {b} ELSE {})
                \cup (IF freeWanted THEN {"bfreelist"} ELSE {})
                \cup (IF execnt >= NEXEC THEN {"execnt"} ELSE {})
<1>0. Inv /\ TypeOK /\ WaitInv(p) /\ ProcInv(p) /\ pc[p] = "inexec" /\ NoLostWakeup
  BY DEF Waits, Inv, ExecEnd
<1>1. /\ flags' = [flags EXCEPT ![b] = @ \ {"WANTED", "BUSY", "ASYNC"}]
      /\ wchan' = [q \in Proc |-> IF wchan[q] \in C THEN Awake ELSE wchan[q]]
      /\ pc'[p] = "user" /\ blkno'[p] = blkno[p] /\ rbp'[p] = rbp[p]
      /\ OnlyMoves(p)
      /\ UNCHANGED <<assoc, queue>> /\ execnt' = execnt - 1
  BY <1>0 DEF ExecEnd, Wakeup, devvars, argvars, TypeOK, OnlyMoves
<1>2. /\ b \in Held(p) /\ b \in Buf /\ b \notin Elems(queue)
      /\ \A q \in Proc : q # p => b \notin Held(q)
  <2>1. b \in Held(p) /\ b \notin Elems(queue)
    BY <1>0 DEF ProcInv, Held
  <2> QED
    BY <1>0, <2>1, HeldAlone
<1> HIDE DEF b
<1>3. \A a \in Buf : a # b => flags'[a] = flags[a]
  BY <1>0, <1>1 DEF TypeOK
<1>4. NoLostWakeup'
  <2>1. ASSUME NEW q \in Proc
        PROVE  \/ wchan'[q] = Awake
               \/ /\ wchan'[q] = wchan[q]
                  /\ WillWake(wchan[q]) => WillWake(wchan[q])'
    <3>1. WillWake(wchan[q]) /\ wchan[q] \in Buf \cup {Awake, "bfreelist", "execnt"}
      BY <1>0 DEF NoLostWakeup, WillWake, TypeOK
    <3>2. wchan'[q] = IF wchan[q] \in C THEN Awake ELSE wchan[q]
      BY <1>1
    <3>3. CASE wchan[q] \in Buf \ {b}
      BY <1>1, <1>3, <3>2, <3>3, BufAssumption DEF WillWake, Busy
    <3>4. CASE wchan[q] \in {b, "bfreelist", "execnt"}
      BY <1>2, <3>1, <3>2, <3>4 DEF WillWake
    <3>5. CASE wchan[q] = Awake
      BY <3>2, <3>5
    <3> QED
      BY <3>1, <3>3, <3>4, <3>5
  <2> QED
    BY <1>0, <2>1, SleepersFrame
<1>5. WaitInv(p)'
  BY <1>0, <1>1 DEF WaitInv, AtGetblk, InTransfer, InBreada
<1> QED
  BY <1>1, <1>2, <1>3, <1>4, <1>5, TouchWaits DEF Settled

-----------------------------------------------------------------------------
(* The disk interrupt. *)

\* The head of the queue is done, and everybody who waits for it is awake.
LEMMA DiskIntrWaits ==
    ASSUME Waits, Inv', DiskIntr
    PROVE  Waits'
<1>0. Inv /\ TypeOK /\ NoLostWakeup /\ queue # <<>> /\ Distinct(queue)
  BY DEF Waits, Inv, ListInv, DiskIntr
<1>b. PICK b \in Buf : b = Head(queue)
  BY <1>0, TailElems DEF TypeOK
<1>1. /\ queue' = Tail(queue)
      /\ Iodone(b, flags[b], freelist)
      /\ UNCHANGED <<pc, want, ret, blkno, bp, rbp, arg, execnt>>
  BY <1>b DEF DiskIntr, argvars, ownvars
<1>2. /\ b \in Elems(queue) /\ Elems(queue') = Elems(queue) \ {b}
      /\ flags[b] \in SUBSET Flags /\ freelist \in Seq(Buf)
  BY <1>0, <1>1, <1>b, TailElems DEF TypeOK
<1>3. NoLostWakeup'
  BY <1>0, <1>1, <1>2, IodoneWakes
<1>4. "ERROR" \notin flags[b]
  BY <1>0, <1>2, BufOKs DEF BufOK
<1>5. \A a \in Buf : assoc'[a] = assoc[a] /\ (Settled(a) => Settled(a)')
  <2>1. CASE "ASYNC" \in flags[b]
    <3>1. /\ flags' = [flags EXCEPT ![b] =
                          (flags[b] \cup {"DONE"}) \ {"WANTED", "BUSY", "ASYNC"}]
          /\ assoc' = [assoc EXCEPT ![b] = IF "ERROR" \in flags[b] THEN Nodev ELSE @]
      BY <1>0, <1>1, <1>2, <2>1, IodoneEffect
    <3> QED
      BY <1>0, <1>2, <1>4, <3>1 DEF TypeOK, Settled
  <2>2. CASE "ASYNC" \notin flags[b]
    <3>1. /\ flags' = [flags EXCEPT ![b] = (flags[b] \cup {"DONE"}) \ {"WANTED"}]
          /\ assoc' = assoc
      BY <1>0, <1>1, <1>2, <2>2, IodoneEffect
    <3> QED
      BY <1>0, <1>2, <3>1 DEF TypeOK, Settled
  <2> QED
    BY <2>1, <2>2
<1>6. ASSUME NEW q \in Proc
      PROVE  WaitInv(q)'
  <2>1. \A a \in Held(q) : assoc'[a] = assoc[a] /\ (Settled(a) => Settled(a)')
    BY <1>0, <1>5, HeldIn
  <2> QED
    BY <1>0, <1>1, <2>1, WaitKept DEF Waits
<1> QED
  BY <1>3, <1>6 DEF Waits

-----------------------------------------------------------------------------
(* The theorems. *)

\* Nobody sleeps at the start.
LEMMA InitWaits ==
    ASSUME Init
    PROVE  Waits
<1>1. Inv
  BY InitInv
<1>2. NoLostWakeup
  BY BufAssumption DEF Init, NoLostWakeup
<1>3. \A p \in Proc : WaitInv(p)
  BY DEF Init, WaitInv, AtGetblk, InTransfer, InBreada
<1> QED
  BY <1>1, <1>2, <1>3 DEF Waits

\* Every step keeps the invariant.
LEMMA NextWaits ==
    ASSUME Waits, [Next]_vars
    PROVE  Waits'
<1>0. Inv'
  BY NextInv DEF Waits
<1>1. CASE UNCHANGED vars
  <2>1. /\ UNCHANGED <<flags, assoc, freelist, freeWanted, queue, wchan, execnt, pc, ret,
                       want, blkno, bp, rbp, arg>>
    BY <1>1 DEF vars
  <2>2. NoLostWakeup'
    BY <2>1 DEF Waits, NoLostWakeup, Busy
  <2>3. \A q \in Proc : WaitInv(q)'
    BY <2>1 DEF Waits, WaitInv, AtGetblk, InBreada, Settled
  <2> QED
    BY <1>0, <2>2, <2>3 DEF Waits
<1>2. ASSUME NEW p \in Proc, Begin(p)
      PROVE  Waits'
  BY <1>0, <1>2, BeginGetblkWaits, BeginBreadaWaits, BeginBflushWaits, BeginExecWaits
  DEF Begin
<1>3. ASSUME NEW p \in Proc, Step(p)
      PROVE  Waits'
  <2>1. CASE Getblk(p)
    BY <1>0, <2>1, GetblkBusyWaits, GetblkHitWaits, GetblkEmptyWaits, GetblkDelwriWaits,
       GetblkReassignWaits DEF Getblk
  <2>2. CASE \/ Bread(p) \/ Iowait(p)
             \/ Breada(p) \/ Breada1(p) \/ Ahead(p) \/ Breada2(p) \/ BreadaMain(p)
    BY <1>0, <2>2, BreadWaits, IowaitWaits, BreadaWaits, Breada1Waits, AheadWaits,
       Breada2Waits, BreadaMainWaits
  <2>3. CASE \/ \E v \in Val : Modify(p, v)
             \/ ReleaseClean(p) \/ Bwrite(p) \/ BwriteWait(p) \/ Bawrite(p) \/ Bdwrite(p)
    BY <1>0, <2>3, ModifyWaits, ReleaseCleanWaits, BwriteWaits, BwriteWaitWaits,
       BawriteWaits, BdwriteWaits
  <2>4. CASE \/ \E k \in Blk : BmapAlloc(p, k)
             \/ AllocClrbuf(p) \/ (\E v \in Val : BmapIndirect(p, v)) \/ BmapBdwrite(p)
    BY <1>0, <2>4, BmapAllocWaits, AllocClrbufWaits, BmapIndirectWaits, BmapBdwriteWaits
  <2>5. CASE Bflush(p) \/ BflushEnd(p) \/ ExecEnter(p) \/ ExecArgs(p)
    BY <1>0, <2>5, BflushWaits, BflushEndWaits, ExecEnterWaits, ExecArgsWaits
  <2> QED
    BY <1>3, <2>1, <2>2, <2>3, <2>4, <2>5 DEF Step
<1> QED
  BY <1>0, <1>1, <1>2, <1>3, DispatchWaits, ExecEndWaits, DiskIntrWaits DEF Next

\* The invariant of the waits holds in every reachable state.
THEOREM WaitsInvariance == Spec => []Waits
<1>1. Init => Waits
  BY InitWaits
<1>2. Waits /\ [Next]_vars => Waits'
  BY NextWaits
<1> QED
  BY <1>1, <1>2, PTL DEF Spec

\* No wakeup of bio.c is lost, and bread returns with the block it was asked
\* for, read, whoever else sleeps, writes, flushes or execs.
THEOREM WaitsRight == Spec => []WaitsAreRight
<1>1. Waits => WaitsAreRight
  <2>1. SUFFICES ASSUME Waits, NEW p \in Proc, pc[p] = "held"
                 PROVE  /\ "DONE" \in flags[bp[p]]
                        /\ bp[p] \notin Elems(queue)
                        /\ assoc[bp[p]] = IF blkno[p] = Nodev THEN want[p] ELSE blkno[p]
    BY DEF Waits, WaitsAreRight, ReadIsComplete
  <2>2. ProcInv(p) /\ WaitInv(p)
    BY <2>1 DEF Waits, Inv
  <2> QED
    BY <2>1, <2>2 DEF ProcInv, WaitInv, InHand, InTransfer
<1> QED
  BY <1>1, WaitsInvariance, PTL

-----------------------------------------------------------------------------
(* The contents: the inductive invariant. *)

\* b is in the hands of a process that has written into it.
Dirty(b) == \E p \in Proc :
    \/ bp[p] = b /\ pc[p] \in {"dirty", "ind", "nbdw", "dwrite"}
    \/ rbp[p] = b /\ pc[p] = "nbdw"

\* The transfer under way is that of the head of the queue.
IoInv == io # NoIO =>
    /\ io.buf = Head(queue) /\ io.blk = assoc[Head(queue)]
    /\ io.read <=> "READ" \in flags[Head(queue)]
    /\ ~io.read => io.val = data[Head(queue)]

\* A delayed write has its contents; a read beyond the device is an error; and
\* a buffer that is done, and need not be written, is the same as the disk.
DataOK(b) ==
    /\ "DELWRI" \in flags[b] => "DONE" \in flags[b]
    /\ "DONE" \in flags[b] /\ assoc[b] \in BadBlk => "ERROR" \in flags[b]
    /\ "DONE" \in flags[b] /\ "DELWRI" \notin flags[b] /\ assoc[b] \in Blk /\ ~Dirty(b)
          => data[b] = disk[assoc[b]]

\* The indirect block in hand has been read; exec's buffer has no block.
HandInv(p) ==
    /\ InBmap(p) => "DONE" \in flags[rbp[p]] /\ assoc[rbp[p]] \in Blk
    /\ pc[p] = "dwrite" => "DONE" \in flags[bp[p]] /\ assoc[bp[p]] \in Blk
    /\ arg[p] # NoBuf => assoc[arg[p]] = Nodev
    /\ AtGetblk(p, "exec") => want[p] = Nodev

StoreInv == /\ Inv
            /\ IoInv
            /\ \A b \in Buf : DataOK(b)
            /\ \A p \in Proc : HandInv(p)

-----------------------------------------------------------------------------
(* The refinement mapping. *)

\* What the buffer b has to say about the contents of block k.
Share(b, k) == IF assoc[b] = k /\ Valid(b) THEN data[b] ELSE disk[k]

\* p has block k in hand.
Has(p, k) == \E b \in Held(p) : assoc[b] = k

\* The buffer, and the process, that the mapping chooses.
Chosen(k) == CHOOSE b \in Buf : assoc[b] = k /\ Valid(b)
Keeper(k) == CHOOSE p \in Proc : \E b \in Held(p) : assoc[b] = k

\* A block's contents are in its buffer if that is valid, else on the disk.
LEMMA ContentsNow ==
    ASSUME OneBufferPerBlock, Nodev \notin Blk, NEW k \in Blk
    PROVE  /\ \A b \in Buf : assoc[b] = k /\ Valid(b) => Contents(k) = data[b]
           /\ (\A b \in Buf : ~(assoc[b] = k /\ Valid(b))) => Contents(k) = disk[k]
<1>1. ASSUME NEW b \in Buf, assoc[b] = k, Valid(b)
      PROVE  Contents(k) = data[b]
  <2>1. Chosen(k) \in Buf /\ assoc[Chosen(k)] = k /\ Valid(Chosen(k))
    BY <1>1 DEF Chosen
  <2>2. Chosen(k) = b
    BY <1>1, <2>1 DEF OneBufferPerBlock
  <2> QED
    BY <1>1, <2>2 DEF Contents, Chosen
<1> QED
  BY <1>1 DEF Contents

\* The same after a step.
LEMMA ContentsNext ==
    ASSUME OneBufferPerBlock', Nodev \notin Blk, NEW k \in Blk
    PROVE  /\ \A b \in Buf : assoc'[b] = k /\ Valid(b)' => Contents(k)' = data'[b]
           /\ (\A b \in Buf : ~(assoc'[b] = k /\ Valid(b)')) => Contents(k)' = disk'[k]
<1>1. ASSUME NEW b \in Buf, assoc'[b] = k, Valid(b)'
      PROVE  Contents(k)' = data'[b]
  <2>1. Chosen(k)' \in Buf /\ (assoc[Chosen(k)])' = k /\ (Valid(Chosen(k)))'
    BY <1>1 DEF Chosen
  <2>2. Chosen(k)' = b
    BY <1>1, <2>1 DEF OneBufferPerBlock
  <2> QED
    BY <1>1, <2>2 DEF Contents, Chosen
<1> QED
  BY <1>1 DEF Contents

\* The holder of a block is the one process that has it in hand.
LEMMA HolderNow ==
    ASSUME Inv, NEW k \in Blk
    PROVE  /\ \A p \in Proc : Has(p, k) => Holder(k) = p
           /\ (\A p \in Proc : ~Has(p, k)) => Holder(k) = NoProc
<1>1. ASSUME NEW p \in Proc, NEW q \in Proc, Has(p, k), Has(q, k)
      PROVE  p = q
  BY <1>1, HeldIn, BufAssumption DEF Inv, Has, OneBufferPerBlock, OwnInv
<1>2. ASSUME NEW p \in Proc, Has(p, k)
      PROVE  Holder(k) = p
  <2>1. Keeper(k) \in Proc /\ Has(Keeper(k), k)
    BY <1>2 DEF Has, Keeper
  <2>2. Keeper(k) = p
    BY <1>1, <1>2, <2>1
  <2> QED
    BY <1>2, <2>2 DEF Holder, Has, Keeper
<1> QED
  BY <1>2 DEF Holder, Has

\* The same after a step.
LEMMA HolderNext ==
    ASSUME Inv', NEW k \in Blk
    PROVE  /\ \A p \in Proc : Has(p, k)' => Holder(k)' = p
           /\ (\A p \in Proc : ~Has(p, k)') => Holder(k)' = NoProc
<1>0. TypeOK' /\ OneBufferPerBlock' /\ OwnInv'
  BY DEF Inv
<1>1. ASSUME NEW p \in Proc, NEW q \in Proc, Has(p, k)', Has(q, k)'
      PROVE  p = q
  <2>1. PICK a \in Held(p)' : assoc'[a] = k
    BY <1>1 DEF Has
  <2>2. PICK b \in Held(q)' : assoc'[b] = k
    BY <1>1 DEF Has
  <2>3. a \in Buf /\ b \in Buf
    BY <1>0 DEF Held, TypeOK
  <2> QED
    BY <1>0, <2>1, <2>2, <2>3, BufAssumption DEF OneBufferPerBlock, OwnInv
<1>2. ASSUME NEW p \in Proc, Has(p, k)'
      PROVE  Holder(k)' = p
  <2>1. Keeper(k)' \in Proc /\ (Has(Keeper(k), k))'
    BY <1>2 DEF Has, Keeper
  <2>2. Keeper(k)' = p
    BY <1>1, <1>2, <2>1
  <2> QED
    BY <1>2, <2>2 DEF Holder, Has, Keeper
<1> QED
  BY <1>2 DEF Holder, Has

-----------------------------------------------------------------------------
(* Steps of the block store. *)

StoreStep == [Store!Next]_<<[k \in Blk |-> Contents(k)], [k \in Blk |-> Holder(k)],
                            [p \in Proc |-> Writing(p)]>>

\* A step that does not show.
LEMMA SameStep ==
    ASSUME \A k \in Blk : Contents(k)' = Contents(k) /\ Holder(k)' = Holder(k),
           \A q \in Proc : Writing(q)' = Writing(q)
    PROVE  StoreStep
BY DEF StoreStep

\* p takes block k.
LEMMA TakeStep ==
    ASSUME NEW p \in Proc, NEW k \in Blk, Holder(k) = NoProc, Holder(k)' = p,
           \A j \in Blk : j # k => Holder(j)' = Holder(j),
           \A j \in Blk : Contents(j)' = Contents(j),
           \A q \in Proc : Writing(q)' = Writing(q)
    PROVE  StoreStep
<1>1. Store!Take(p, k)
  BY DEF Store!Take
<1> QED
  BY <1>1 DEF StoreStep, Store!Next

\* p changes block k, which it has in hand.
LEMMA PutStep ==
    ASSUME NEW p \in Proc, NEW k \in Blk, NEW v \in Val, Holder(k) = p,
           \A j \in Blk : Holder(j)' = Holder(j),
           \A j \in Blk : Contents(j)' = IF j = k THEN v ELSE Contents(j),
           \A q \in Proc : Writing(q)' = IF q = p THEN TRUE ELSE Writing(q)
    PROVE  StoreStep
<1>1. Store!Put(p, k, v)
  BY DEF Store!Put
<1> QED
  BY <1>1 DEF StoreStep, Store!Next

\* p gives block k back.
LEMMA GiveStep ==
    ASSUME NEW p \in Proc, NEW k \in Blk, Holder(k) = p, Holder(k)' = NoProc,
           \A j \in Blk : j # k => Holder(j)' = Holder(j),
           \A j \in Blk : Contents(j)' = Contents(j),
           \A q \in Proc : Writing(q)' =
              IF q = p THEN Writing(p) /\ \E j \in Blk \ {k} : Holder(j) = p ELSE Writing(q)
    PROVE  StoreStep
<1>1. Store!Give(p, k)
  BY DEF Store!Give
<1> QED
  BY <1>1 DEF StoreStep, Store!Next

-----------------------------------------------------------------------------
(* Steps of a process. *)

\* The flags that tell whether a buffer's contents are there.
Like(a) == /\ "READ" \in flags'[a] <=> "READ" \in flags[a]
           /\ "DONE" \in flags'[a] <=> "DONE" \in flags[a]
           /\ "DELWRI" \in flags'[a] <=> "DELWRI" \in flags[a]
           /\ "ERROR" \in flags'[a] <=> "ERROR" \in flags[a]

\* Only p moves, and no buffer changes but b, which only p may have in hand.
Touches(p, b) ==
    /\ OnlyMoves(p)
    /\ \A q \in Proc : q # p => b \notin Held(q)
    /\ disk' = disk
    /\ \A a \in Buf : a # b => /\ Like(a) /\ assoc'[a] = assoc[a] /\ data'[a] = data[a]
                               /\ a \in Elems(queue') <=> a \in Elems(queue)

\* p's part of Valid and of Dirty.
ValidHand(p, a) == bp[p] = a /\ pc[p] \in {"dirty", "ind", "nbdw"}
DirtyHand(p, a) == \/ bp[p] = a /\ pc[p] \in {"dirty", "ind", "nbdw", "dwrite"}
                   \/ rbp[p] = a /\ pc[p] = "nbdw"

\* The other processes keep what they have, and what they may say of it.
LEMMA OthersStore ==
    ASSUME StoreInv, NEW p \in Proc, NEW b, Touches(p, b), NEW q \in Proc, q # p
    PROVE  /\ HandInv(q)'
           /\ Writing(q)' = Writing(q)
           /\ \A k \in Blk : Has(q, k)' <=> Has(q, k)
<1>1. TypeOK /\ ProcInv(q) /\ HandInv(q)
  BY DEF StoreInv, Inv
<1>2. /\ pc'[q] = pc[q] /\ ret'[q] = ret[q] /\ want'[q] = want[q]
      /\ bp'[q] = bp[q] /\ rbp'[q] = rbp[q] /\ arg'[q] = arg[q]
      /\ Held(q)' = Held(q)
  BY DEF Touches, OnlyMoves, Held
<1>3. \A a \in Held(q) : /\ assoc'[a] = assoc[a]
                         /\ "DONE" \in flags'[a] <=> "DONE" \in flags[a]
  BY <1>1, HeldIn DEF Touches, Like
<1>4. HandInv(q)'
  <2>1. /\ rbp[q] # NoBuf => /\ assoc'[rbp[q]] = assoc[rbp[q]]
                             /\ "DONE" \in flags'[rbp[q]] <=> "DONE" \in flags[rbp[q]]
        /\ bp[q] # NoBuf => /\ assoc'[bp[q]] = assoc[bp[q]]
                            /\ "DONE" \in flags'[bp[q]] <=> "DONE" \in flags[bp[q]]
        /\ arg[q] # NoBuf => assoc'[arg[q]] = assoc[arg[q]]
    BY <1>3 DEF Held
  <2>2. /\ InBmap(q) => rbp[q] # NoBuf
        /\ pc[q] = "dwrite" => bp[q] # NoBuf
    BY <1>1 DEF ProcInv, InHand
  <2>3. (InBmap(q)' <=> InBmap(q)) /\ (AtGetblk(q, "exec")' <=> AtGetblk(q, "exec"))
    BY <1>2 DEF InBmap, AtGetblk
  <2> QED
    BY <1>1, <1>2, <2>1, <2>2, <2>3 DEF HandInv
<1>5. Writing(q)' = Writing(q)
  <2>1. pc[q] \in {"dirty", "bwait", "ind", "nbdw", "dwrite"} => assoc'[bp[q]] = assoc[bp[q]]
    BY <1>1, <1>3 DEF ProcInv, InHand, Held
  <2> QED
    BY <1>2, <2>1 DEF Writing
<1>6. \A k \in Blk : Has(q, k)' <=> Has(q, k)
  BY <1>2, <1>3 DEF Has
<1> QED
  BY <1>4, <1>5, <1>6

\* The other buffers are as valid and as dirty as before.
LEMMA OthersValid ==
    ASSUME NEW p \in Proc, NEW b, Touches(p, b), NEW a \in Buf, a # b,
           "DONE" \in flags[a] \/ (ValidHand(p, a)' <=> ValidHand(p, a)),
           DirtyHand(p, a) => DirtyHand(p, a)'
    PROVE  (Valid(a)' <=> Valid(a)) /\ (Dirty(a) => Dirty(a)')
<1>1. /\ Like(a) /\ (a \in Elems(queue') <=> a \in Elems(queue))
      /\ \A q \in Proc : q # p => pc'[q] = pc[q] /\ bp'[q] = bp[q] /\ rbp'[q] = rbp[q]
  BY DEF Touches, OnlyMoves
<1>2. Valid(a)' <=> Valid(a)
  <2>1. CASE "DONE" \in flags[a]
    BY <1>1, <2>1 DEF Valid, Like
  <2>2. CASE ValidHand(p, a)' <=> ValidHand(p, a)
    <3>1. \A q \in Proc : ValidHand(q, a)' <=> ValidHand(q, a)
      BY <1>1, <2>2 DEF ValidHand
    <3>2. (\E q \in Proc : ValidHand(q, a)') <=> \E q \in Proc : ValidHand(q, a)
      BY <3>1
    <3> QED
      BY <1>1, <3>2 DEF Valid, Like, ValidHand
  <2> QED
    BY <2>1, <2>2
<1>3. Dirty(a) => Dirty(a)'
  <2>1. \A q \in Proc : DirtyHand(q, a) => DirtyHand(q, a)'
    BY <1>1 DEF DirtyHand
  <2> QED
    BY <2>1 DEF Dirty, DirtyHand
<1> QED
  BY <1>2, <1>3

\* What the others have, and the contents of the blocks that b says the same
\* about, do not change.
Framed(p, b) ==
    /\ \A q \in Proc : q # p => /\ Writing(q)' = Writing(q)
                                /\ \A k \in Blk : Has(q, k)' <=> Has(q, k)
    /\ \A k \in Blk : (b \in Buf => Share(b, k)' = Share(b, k)) => Contents(k)' = Contents(k)

\* A step keeps the invariant when it does for the buffer and the process it
\* is about.
LEMMA TouchStore ==
    ASSUME StoreInv, Inv', NEW p \in Proc, NEW b, Touches(p, b),
           \A a \in Buf : a # b =>
              /\ "DONE" \in flags[a] \/ (ValidHand(p, a)' <=> ValidHand(p, a))
              /\ DirtyHand(p, a) => DirtyHand(p, a)',
           IoInv', b \in Buf => DataOK(b)', HandInv(p)'
    PROVE  StoreInv' /\ Framed(p, b)
<1>1. ASSUME NEW a \in Buf, a # b
      PROVE  /\ Valid(a)' <=> Valid(a)
             /\ Dirty(a) => Dirty(a)'
             /\ Like(a) /\ assoc'[a] = assoc[a] /\ data'[a] = data[a]
  <2>1. /\ "DONE" \in flags[a] \/ (ValidHand(p, a)' <=> ValidHand(p, a))
        /\ DirtyHand(p, a) => DirtyHand(p, a)'
    BY <1>1
  <2>2. (Valid(a)' <=> Valid(a)) /\ (Dirty(a) => Dirty(a)')
    BY <1>1, <2>1, OthersValid
  <2> QED
    BY <1>1, <2>2 DEF Touches
<1>2. ASSUME NEW a \in Buf
      PROVE  DataOK(a)'
  <2>1. CASE a = b
    BY <1>2, <2>1
  <2>2. CASE a # b
    <3>1. DataOK(a) /\ disk' = disk
      BY DEF StoreInv, Touches
    <3> QED
      BY <1>1, <2>2, <3>1 DEF DataOK, Like
  <2> QED
    BY <2>1, <2>2
<1>3. StoreInv'
  BY <1>2, OthersStore DEF StoreInv
<1>4. OneBufferPerBlock /\ OneBufferPerBlock' /\ Nodev \notin Blk /\ disk' = disk
  BY BufAssumption DEF StoreInv, Inv, Touches
<1>5. ASSUME NEW k \in Blk, b \in Buf => Share(b, k)' = Share(b, k)
      PROVE  Contents(k)' = Contents(k)
  <2>1. CASE \E a \in Buf : a # b /\ assoc[a] = k /\ Valid(a)
    <3>1. PICK a \in Buf : a # b /\ assoc[a] = k /\ Valid(a)
      BY <2>1
    <3>2. Contents(k) = data[a]
      BY <1>4, <3>1, ContentsNow
    <3>3. assoc'[a] = k /\ Valid(a)' /\ data'[a] = data[a]
      BY <1>1, <3>1
    <3>4. Contents(k)' = data'[a]
      BY <1>4, <3>3, ContentsNext
    <3> QED
      BY <3>2, <3>3, <3>4
  <2>2. CASE \A a \in Buf : a # b => ~(assoc[a] = k /\ Valid(a))
    <3>1. Contents(k) = IF b \in Buf THEN Share(b, k) ELSE disk[k]
      BY <1>4, <2>2, ContentsNow DEF Share
    <3>2. \A a \in Buf : a # b => ~(assoc'[a] = k /\ Valid(a)')
      BY <1>1, <2>2
    <3>3. Contents(k)' = IF b \in Buf THEN Share(b, k)' ELSE disk'[k]
      BY <1>4, <3>2, ContentsNext DEF Share
    <3> QED
      BY <1>4, <1>5, <3>1, <3>3
  <2> QED
    BY <2>1, <2>2
<1> QED
  BY <1>3, <1>5, OthersStore DEF Framed

\* A block keeps its holder while nobody takes it or gives it back.
LEMMA HolderKept ==
    ASSUME Inv, Inv', NEW k \in Blk, \A q \in Proc : Has(q, k)' <=> Has(q, k)
    PROVE  Holder(k)' = Holder(k)
BY HolderNow, HolderNext

\* p takes block k.
LEMMA HolderTaken ==
    ASSUME Inv, Inv', NEW k \in Blk, NEW p \in Proc,
           \A q \in Proc : ~Has(q, k), Has(p, k)'
    PROVE  Holder(k) = NoProc /\ Holder(k)' = p
BY HolderNow, HolderNext

\* p gives block k back.
LEMMA HolderGiven ==
    ASSUME Inv, Inv', NEW k \in Blk, NEW p \in Proc, Has(p, k), ~Has(p, k)',
           \A q \in Proc : q # p => (Has(q, k)' <=> Has(q, k))
    PROVE  Holder(k) = p /\ Holder(k)' = NoProc
<1>1. Holder(k) = p
  BY HolderNow
<1>2. \A q \in Proc : q # p => ~Has(q, k)
  BY <1>1, HolderNow
<1>3. \A q \in Proc : ~Has(q, k)'
  BY <1>2
<1> QED
  BY <1>1, <1>3, HolderNext

\* The transfer under way is not touched.
LEMMA IoKept ==
    ASSUME StoreInv, queue' = queue, io' = io,
           \A a \in Elems(queue) : /\ "READ" \in flags'[a] <=> "READ" \in flags[a]
                                   /\ assoc'[a] = assoc[a] /\ data'[a] = data[a]
    PROVE  IoInv'
<1>1. io # NoIO => Head(queue) \in Elems(queue)
  BY TailElems DEF StoreInv, Inv, ListInv, TypeOK
<1> QED
  BY <1>1 DEF StoreInv, IoInv

Writers == {"dirty", "bwait", "ind", "nbdw", "dwrite"}

\* A step that changes no buffer, nor what anybody has in hand.
LEMMA QuietStore ==
    ASSUME StoreInv, Inv', NEW p \in Proc, OnlyMoves(p), \A a \in Buf : Like(a),
           UNCHANGED <<assoc, data, queue, io, disk>>, Held(p)' = Held(p),
           \/ pc[p] \notin Writers /\ pc'[p] \notin Writers
           \/ UNCHANGED <<pc, bp, rbp>>,
           HandInv(p)'
    PROVE  StoreInv' /\ StoreStep
<1>1. Inv /\ NoBuf \notin Buf /\ TypeOK
  BY BufAssumption DEF StoreInv, Inv
<1>2. Touches(p, NoBuf)
  BY DEF Touches, Held
<1>3. \A a \in Buf : /\ ValidHand(p, a)' <=> ValidHand(p, a)
                     /\ DirtyHand(p, a) => DirtyHand(p, a)'
  BY DEF ValidHand, DirtyHand, Writers
<1>4. IoInv'
  <2>1. Elems(queue) \subseteq Buf
    BY <1>1, ElemsIn DEF TypeOK
  <2> QED
    BY <2>1, IoKept DEF Like
<1>5. StoreInv' /\ Framed(p, NoBuf)
  BY <1>1, <1>2, <1>3, <1>4, TouchStore
<1>6. \A k \in Blk : Has(p, k)' <=> Has(p, k)
  BY DEF Has
<1>7. \A k \in Blk : \A q \in Proc : Has(q, k)' <=> Has(q, k)
  BY <1>5, <1>6 DEF Framed
<1>8. \A k \in Blk : Contents(k)' = Contents(k) /\ Holder(k)' = Holder(k)
  BY <1>1, <1>5, <1>7, HolderKept DEF Framed
<1>9. Writing(p)' = Writing(p)
  BY DEF Writing, Writers
<1> QED
  BY <1>5, <1>8, <1>9, SameStep DEF Framed

\* A process takes a buffer off the available list: its block's own, or a
\* clean one for a block that is not in core.
LEMMA TakeStore ==
    ASSUME StoreInv, Inv', NEW p \in Proc, pc[p] = "getblk", NEW b \in Buf,
           NEW f \in SUBSET Flags, b \in Elems(freelist),
           \/ f = flags[b] \cup {"BUSY"} /\ assoc[b] = want[p]
           \/ /\ f = {"BUSY"} /\ "DELWRI" \notin flags[b]
              /\ want[p] = Nodev \/ ~Incore(want[p]),
           flags' = [flags EXCEPT ![b] = f],
           assoc' = [assoc EXCEPT ![b] = want[p]],
           bp' = [bp EXCEPT ![p] = b],
           pc' = [pc EXCEPT ![p] = ret[p]],
           UNCHANGED <<data, queue, io, disk, want, ret, blkno, rbp, arg>>
    PROVE  StoreInv' /\ StoreStep
<1>0. Inv /\ TypeOK /\ HandInv(p) /\ ProcInv(p) /\ BufOK(b) /\ DataOK(b)
  BY BufOKs DEF StoreInv, Inv
<1>1. /\ "BUSY" \notin flags[b] /\ b \notin Elems(queue)
      /\ \A q \in Proc : b \notin Held(q)
  BY <1>0 DEF BufOK
<1>2. /\ \A a \in Buf : a # b => flags'[a] = flags[a] /\ assoc'[a] = assoc[a]
      /\ flags'[b] = f /\ assoc'[b] = want[p]
  BY <1>0 DEF TypeOK
<1>3. /\ OnlyMoves(p) /\ pc'[p] = ret[p] /\ bp'[p] = b /\ bp[p] = NoBuf
      /\ ret[p] \in GetblkRet
  BY <1>0 DEF TypeOK, OnlyMoves, ProcInv, InHand, GetblkRet
<1>4. Touches(p, b)
  BY <1>1, <1>2, <1>3 DEF Touches, Like
<1>5. \A a \in Buf : /\ ValidHand(p, a)' <=> ValidHand(p, a)
                     /\ DirtyHand(p, a) => DirtyHand(p, a)'
  BY <1>3 DEF ValidHand, DirtyHand, GetblkRet
<1>6. IoInv'
  <2>1. \A a \in Elems(queue) : a \in Buf /\ a # b
    BY <1>0, <1>1, ElemsIn DEF TypeOK
  <2> QED
    BY <1>2, <2>1, IoKept
<1>7. ~Dirty(b) /\ (Valid(b) <=> "DONE" \in flags[b]) /\ (Valid(b)' <=> "DONE" \in f)
  <2>1. \A q \in Proc : bp[q] # b /\ rbp[q] # b
    BY <1>0, <1>1, BufAssumption DEF Held
  <2>2. \A q \in Proc : ~(bp'[q] = b /\ pc'[q] \in {"dirty", "ind", "nbdw"})
    BY <1>3, <2>1 DEF OnlyMoves, GetblkRet
  <2> QED
    BY <1>1, <1>2, <2>1, <2>2 DEF Dirty, Valid
<1>8. DataOK(b)'
  BY <1>0, <1>2, <1>7 DEF DataOK
<1>9. HandInv(p)'
  <2>1. /\ rbp[p] # NoBuf => rbp[p] \in Buf /\ rbp[p] # b
        /\ arg[p] # NoBuf => arg[p] \in Buf /\ arg[p] # b
    BY <1>0, <1>1 DEF Held, TypeOK
  <2>2. /\ InBmap(p)' => InBmap(p)
        /\ AtGetblk(p, "exec")' => AtGetblk(p, "exec")
    BY <1>3 DEF InBmap, AtGetblk, GetblkRet
  <2>3. pc'[p] # "dwrite"
    BY <1>3 DEF GetblkRet
  <2> QED
    BY <1>0, <1>2, <2>1, <2>2, <2>3 DEF HandInv, ProcInv
<1>10. StoreInv' /\ Framed(p, b)
  BY <1>4, <1>5, <1>6, <1>8, <1>9, TouchStore
<1>11. \A k \in Blk : Contents(k)' = Contents(k)
  <2>1. ASSUME NEW k \in Blk
        PROVE  Share(b, k)' = Share(b, k)
    BY <1>0, <1>2, <1>7 DEF Share, DataOK
  <2> QED
    BY <1>10, <2>1 DEF Framed
<1>12. \A q \in Proc : Writing(q)' = Writing(q)
  <2>1. Writing(p)' = Writing(p)
    BY <1>3 DEF Writing, GetblkRet
  <2> QED
    BY <1>10, <2>1 DEF Framed
<1>13. \A k \in Blk : Has(p, k)' <=> Has(p, k) \/ k = want[p]
  <2>1. Held(p)' = Held(p) \cup {b}
    BY <1>3, BufAssumption DEF Held
  <2>2. \A a \in Held(p) : assoc'[a] = assoc[a]
    BY <1>0, <1>1, <1>2, HeldIn
  <2> QED
    BY <1>2, <2>1, <2>2 DEF Has
<1>14. \A k \in Blk : k # want[p] => Holder(k)' = Holder(k)
  BY <1>0, <1>10, <1>13, HolderKept DEF Framed
<1>15. CASE want[p] \in Blk
  <2>1. \A q \in Proc : ~Has(q, want[p])
    <3>1. ASSUME NEW q \in Proc, NEW a \in Held(q), assoc[a] = want[p]
          PROVE  FALSE
      <4>1. a \in Buf /\ a # b
        BY <1>0, <1>1, HeldIn
      <4> QED
        BY <1>0, <1>15, <3>1, <4>1, BufAssumption DEF Incore, Inv, OneBufferPerBlock
    <3> QED
      BY <3>1 DEF Has
  <2>k. PICK k \in Blk : k = want[p]
    BY <1>15
  <2>2. Holder(k) = NoProc /\ Holder(k)' = p
    BY <1>0, <1>13, <2>1, <2>k, HolderTaken
  <2> QED
    BY <1>10, <1>11, <1>12, <1>14, <2>2, <2>k, TakeStep
<1>16. CASE want[p] \notin Blk
  BY <1>10, <1>11, <1>12, <1>14, <1>16, SameStep
<1> QED
  BY <1>15, <1>16

\* A process writes into a buffer it has in hand: iomove, clrbuf, bmap.
LEMMA PutStore ==
    ASSUME StoreInv, Inv', NEW p \in Proc, NEW b \in Buf, b \in Held(p), b \notin Elems(queue),
           NEW v \in Val, NEW c,
           \/ /\ b = bp[p]
              /\ \/ pc[p] \in {"held", "fill"} /\ c = "dirty"
                 \/ pc[p] = "alloc" /\ c = "ind"
           \/ b = rbp[p] /\ pc[p] = "ind" /\ c = "nbdw",
           pc[p] = "held" => assoc[b] \in Blk,
           data' = [data EXCEPT ![b] = v],
           pc' = [pc EXCEPT ![p] = c],
           UNCHANGED <<flags, assoc, queue, io, disk, want, ret, blkno, bp, rbp, arg>>
    PROVE  StoreInv' /\ StoreStep
<1>0. Inv /\ TypeOK /\ HandInv(p) /\ ProcInv(p) /\ Hands(p) /\ DataOK(b)
  BY HandsNow DEF StoreInv, Inv
<1>1. \A q \in Proc : q # p => b \notin Held(q)
  BY <1>0, HeldAlone
<1>2. /\ data'[b] = v /\ \A a \in Buf : a # b => data'[a] = data[a]
      /\ pc'[p] = c /\ OnlyMoves(p)
      /\ \A q \in Proc : Held(q)' = Held(q)
  BY <1>0 DEF TypeOK, OnlyMoves, Held
<1>3. Touches(p, b)
  BY <1>1, <1>2 DEF Touches, Like
<1>4. ASSUME NEW a \in Buf, a # b
      PROVE  /\ "DONE" \in flags[a] \/ (ValidHand(p, a)' <=> ValidHand(p, a))
             /\ DirtyHand(p, a) => DirtyHand(p, a)'
  BY <1>2, <1>4 DEF ValidHand, DirtyHand
<1>5. IoInv'
  <2>1. \A a \in Elems(queue) : a \in Buf /\ a # b
    BY <1>0, ElemsIn DEF TypeOK
  <2> QED
    BY <1>2, <2>1, IoKept
<1>6. Dirty(b)' /\ Valid(b)'
  <2>1. \/ bp'[p] = b /\ pc'[p] \in {"dirty", "ind"}
        \/ rbp'[p] = b /\ pc'[p] = "nbdw" /\ pc[p] = "ind"
    BY <1>2
  <2>2. CASE bp'[p] = b /\ pc'[p] \in {"dirty", "ind"}
    BY <2>2 DEF Dirty, Valid
  <2>3. CASE rbp'[p] = b /\ pc'[p] = "nbdw" /\ pc[p] = "ind"
    <3>1. "DONE" \in flags'[b]
      BY <1>0, <2>3 DEF HandInv, InBmap
    <3> QED
      BY <2>3, <3>1 DEF Dirty, Valid
  <2> QED
    BY <2>1, <2>2, <2>3
<1>7. DataOK(b)'
  BY <1>0, <1>6 DEF DataOK
<1>8. HandInv(p)'
  BY <1>0, <1>2 DEF HandInv, InBmap, AtGetblk
<1>9. StoreInv' /\ Framed(p, b)
  BY <1>3, <1>4, <1>5, <1>7, <1>8, TouchStore
<1>10. \A k \in Blk : Holder(k)' = Holder(k)
  BY <1>0, <1>2, HolderKept DEF Has
<1>11. \A k \in Blk : k # assoc[b] => Contents(k)' = Contents(k)
  BY <1>9 DEF Framed, Share
<1>12. \A q \in Proc : q # p => Writing(q)' = Writing(q)
  BY <1>9 DEF Framed
<1>13. CASE assoc[b] \in Blk
  <2>1. PICK k \in Blk : k = assoc[b]
    BY <1>13
  <2>2. Contents(k)' = v
    BY <1>2, <1>6, <2>1, ContentsNext, BufAssumption DEF Inv
  <2>3. Holder(k) = p
    BY <1>0, <2>1, HolderNow DEF Has
  <2>4. Writing(p)' = TRUE
    BY <1>0, <1>2, <1>13 DEF Writing, ProcInv, Hands
  <2> QED
    BY <1>9, <1>10, <1>11, <1>12, <2>1, <2>2, <2>3, <2>4, PutStep
<1>14. CASE assoc[b] \notin Blk
  <2>1. b = bp[p] /\ pc[p] = "fill" /\ c = "dirty"
    BY <1>0, <1>14 DEF HandInv, InBmap, ProcInv, Hands
  <2>2. Writing(p)' = Writing(p)
    BY <1>2, <1>14, <2>1 DEF Writing
  <2> QED
    BY <1>9, <1>10, <1>11, <1>12, <1>14, <2>2, SameStep
<1> QED
  BY <1>13, <1>14

\* p no longer has b: what that is to the block store.
LEMMA GiveStore ==
    ASSUME StoreInv, StoreInv', NEW p \in Proc, NEW b \in Buf, Framed(p, b),
           b \in Held(p), Held(p)' = Held(p) \ {b},
           \A a \in Buf : a # b => assoc'[a] = assoc[a],
           \A k \in Blk : Share(b, k)' = Share(b, k),
           Writing(p)' = IF assoc[b] \in Blk
                         THEN Writing(p) /\ \E j \in Blk \ {assoc[b]} : Has(p, j)
                         ELSE Writing(p)
    PROVE  StoreStep
<1>0. Inv /\ Inv' /\ TypeOK /\ NoProc \notin Proc
  BY BufAssumption DEF StoreInv, Inv
<1>1. /\ \A k \in Blk : Contents(k)' = Contents(k)
      /\ \A q \in Proc : q # p => /\ Writing(q)' = Writing(q)
                                  /\ \A k \in Blk : Has(q, k)' <=> Has(q, k)
  BY DEF Framed
<1>2. \A k \in Blk : k # assoc[b] => (Has(p, k)' <=> Has(p, k))
  BY <1>0, HeldIn DEF Has
<1>3. \A k \in Blk : k # assoc[b] => Holder(k)' = Holder(k)
  BY <1>0, <1>1, <1>2, HolderKept
<1>4. CASE assoc[b] \in Blk
  <2>1. PICK k \in Blk : k = assoc[b]
    BY <1>4
  <2>2. Has(p, k) /\ ~Has(p, k)'
    <3>1. ASSUME NEW a \in Held(p)', assoc'[a] = k
          PROVE  FALSE
      <4>1. a \in Held(p) /\ a \in Buf /\ a # b
        BY <1>0, HeldIn
      <4> QED
        BY <1>0, <2>1, <3>1, <4>1, BufAssumption DEF Inv, OneBufferPerBlock
    <3> QED
      BY <2>1, <3>1 DEF Has
  <2>3. Holder(k) = p /\ Holder(k)' = NoProc
    BY <1>0, <1>1, <2>2, HolderGiven
  <2>4. \A j \in Blk : Holder(j) = p <=> Has(p, j)
    BY <1>0, HolderNow
  <2>5. Writing(p)' = (Writing(p) /\ \E j \in Blk \ {k} : Holder(j) = p)
    BY <1>4, <2>1, <2>4
  <2> QED
    BY <1>1, <1>3, <2>1, <2>3, <2>5, GiveStep
<1>5. CASE assoc[b] \notin Blk
  BY <1>1, <1>3, <1>5, SameStep
<1> QED
  BY <1>4, <1>5

\* brelse of a buffer in hand: one that has not been written into, or as a
\* delayed write.
LEMMA ReleaseStore ==
    ASSUME StoreInv, Inv', NEW p \in Proc, NEW b \in Buf, b \in Held(p), b \notin Elems(queue),
           NEW f \in SUBSET Flags,
           \/ f = flags[b] /\ pc[p] \notin {"dirty", "ind", "nbdw", "dwrite"}
           \/ f = flags[b] \cup {"DELWRI", "DONE"} /\ Valid(b) /\ assoc[b] \in Blk,
           flags' = [flags EXCEPT ![b] = f \ {"WANTED", "BUSY", "ASYNC"}],
           \A a \in Buf : a # b => assoc'[a] = assoc[a],
           assoc'[b] = assoc[b] \/ (assoc[b] \notin Blk /\ assoc'[b] = Nodev),
           UNCHANGED <<data, queue, io, disk>>,
           OnlyMoves(p), Held(p)' = Held(p) \ {b},
           \A a \in Buf : a # b =>
              /\ "DONE" \in flags[a] \/ (ValidHand(p, a)' <=> ValidHand(p, a))
              /\ DirtyHand(p, a) => DirtyHand(p, a)',
           HandInv(p)',
           Writing(p)' = IF assoc[b] \in Blk
                         THEN Writing(p) /\ \E j \in Blk \ {assoc[b]} : Has(p, j)
                         ELSE Writing(p)
    PROVE  StoreInv' /\ StoreStep
<1>0. Inv /\ TypeOK /\ DataOK(b) /\ Nodev \notin Blk \cup BadBlk
  BY BufAssumption DEF StoreInv, Inv
<1>1. \A q \in Proc : q # p => b \notin Held(q)
  BY <1>0, HeldAlone
<1>2. /\ flags'[b] = f \ {"WANTED", "BUSY", "ASYNC"}
      /\ \A a \in Buf : a # b => flags'[a] = flags[a]
  BY <1>0 DEF TypeOK
<1>3. Touches(p, b)
  BY <1>1, <1>2 DEF Touches, Like
<1>4. IoInv'
  <2>1. \A a \in Elems(queue) : a \in Buf /\ a # b
    BY <1>0, ElemsIn DEF TypeOK
  <2> QED
    BY <1>2, <2>1, IoKept
<1>5. Valid(b)' <=> "DONE" \in f
  <2>1. \A q \in Proc : bp'[q] # b
    BY <1>0, <1>1, BufAssumption DEF Held, OnlyMoves
  <2> QED
    BY <1>2, <2>1 DEF Valid
<1>6. /\ Valid(b) <=> "DONE" \in f
      /\ f = flags[b] \/ "DELWRI" \in f
      /\ "DELWRI" \in f \/ ~Dirty(b)
  <2>1. CASE f = flags[b] /\ pc[p] \notin {"dirty", "ind", "nbdw", "dwrite"}
    <3>1. \A q \in Proc : q # p => bp[q] # b /\ rbp[q] # b
      BY <1>1, BufAssumption DEF Held
    <3>2. ~Dirty(b) /\ (Valid(b) <=> "DONE" \in flags[b])
      BY <2>1, <3>1 DEF Dirty, Valid
    <3> QED
      BY <2>1, <3>2
  <2>2. CASE f = flags[b] \cup {"DELWRI", "DONE"} /\ Valid(b)
    BY <2>2
  <2> QED
    BY <2>1, <2>2
<1>7. DataOK(b)'
  <2>1. "DONE" \in flags'[b] <=> "DONE" \in f
    BY <1>2
  <2>2. /\ "DELWRI" \in flags'[b] <=> "DELWRI" \in f
        /\ "ERROR" \in flags'[b] <=> "ERROR" \in f
    BY <1>2
  <2>3. CASE "DELWRI" \in f
    <3>1. "DONE" \in f /\ (assoc[b] \in BadBlk => "ERROR" \in f)
      <4>1. CASE f = flags[b]
        BY <1>0, <2>3, <4>1 DEF DataOK
      <4>2. CASE f = flags[b] \cup {"DELWRI", "DONE"} /\ assoc[b] \in Blk
        BY <4>2, BufAssumption
      <4> QED
        BY <4>1, <4>2
    <3> QED
      BY <1>0, <2>1, <2>2, <2>3, <3>1 DEF DataOK
  <2>4. CASE "DELWRI" \notin f
    <3>1. f = flags[b] /\ ~Dirty(b) /\ disk' = disk /\ data' = data
      BY <1>6, <2>4
    <3> QED
      BY <1>0, <2>1, <2>2, <2>4, <3>1 DEF DataOK
  <2> QED
    BY <2>3, <2>4
<1>8. StoreInv' /\ Framed(p, b)
  BY <1>3, <1>4, <1>7, TouchStore
<1>9. \A k \in Blk : Share(b, k)' = Share(b, k)
  BY <1>0, <1>5, <1>6 DEF Share
<1> QED
  BY <1>8, <1>9, GiveStore

\* The strategy routine: the buffer is queued as it is, or done with an error.
LEMMA StartEffect ==
    ASSUME StoreInv, NEW b \in Buf, b \notin Elems(queue), assoc[b] # Nodev,
           NEW fl \in Seq(Buf), NEW f \in SUBSET Flags, Rkstrategy(b, f, fl),
           data' = data
    PROVE  /\ assoc[b] \in Blk =>
                flags'[b] = f /\ assoc'[b] = assoc[b] /\ b \in Elems(queue')
           /\ assoc[b] \notin Blk =>
                /\ assoc[b] \in BadBlk /\ assoc'[b] \in {Nodev, assoc[b]}
                /\ "DONE" \in flags'[b] /\ "ERROR" \in flags'[b]
                /\ "DELWRI" \in flags'[b] <=> "DELWRI" \in f
           /\ \A a \in Buf : a # b => /\ flags'[a] = flags[a] /\ assoc'[a] = assoc[a]
                                      /\ a \in Elems(queue') <=> a \in Elems(queue)
           /\ IoInv'
<1>0. Inv /\ TypeOK /\ ListInv /\ IoInv
  BY DEF StoreInv, Inv
<1>1. CASE assoc[b] \in BadBlk
  <2>1. Iodone(b, f \cup {"ERROR"}, fl) /\ queue' = queue /\ io' = io
    BY <1>0, <1>1, RkstrategyEffect
  <2>2. f \cup {"ERROR"} \in SUBSET Flags
    BY DEF Flags
  <2>3. /\ \A a \in Buf : a # b => flags'[a] = flags[a] /\ assoc'[a] = assoc[a]
        /\ "DONE" \in flags'[b] /\ "ERROR" \in flags'[b]
        /\ "DELWRI" \in flags'[b] <=> "DELWRI" \in f
        /\ assoc'[b] \in {Nodev, assoc[b]}
    <3>1. CASE "ASYNC" \in f
      <4>1. "ASYNC" \in f \cup {"ERROR"}
        BY <3>1
      <4>2. /\ flags' = [flags EXCEPT ![b] = ((f \cup {"ERROR"}) \cup {"DONE"})
                                              \ {"WANTED", "BUSY", "ASYNC"}]
            /\ assoc' = [assoc EXCEPT ![b] = IF "ERROR" \in f \cup {"ERROR"} THEN Nodev ELSE @]
        BY <1>0, <2>1, <2>2, <4>1, IodoneEffect
      <4> QED
        BY <1>0, <4>2 DEF TypeOK
    <3>2. CASE "ASYNC" \notin f
      <4>1. "ASYNC" \notin f \cup {"ERROR"}
        BY <3>2
      <4>2. /\ flags' = [flags EXCEPT ![b] = ((f \cup {"ERROR"}) \cup {"DONE"}) \ {"WANTED"}]
            /\ assoc' = assoc
        BY <1>0, <2>1, <2>2, <4>1, IodoneEffect
      <4> QED
        BY <1>0, <4>2 DEF TypeOK
    <3> QED
      BY <3>1, <3>2
  <2>4. IoInv'
    <3>1. \A a \in Elems(queue) : a \in Buf /\ a # b
      BY <1>0, ElemsIn DEF TypeOK
    <3> QED
      BY <2>1, <2>3, <3>1, IoKept
  <2>5. assoc[b] \notin Blk
    BY <1>1, BufAssumption
  <2> QED
    BY <1>1, <2>1, <2>3, <2>4, <2>5
<1>2. CASE assoc[b] \notin BadBlk
  <2>1. /\ assoc[b] \in Blk /\ flags' = [flags EXCEPT ![b] = f] /\ assoc' = assoc
        /\ Elems(queue') = Elems(queue) \cup {b}
    BY <1>0, <1>2, RkstrategyEffect
  <2>2. queue' = Append(queue, b) /\ io' = IF io = NoIO THEN Devstart(b, f) ELSE io
    BY <1>2 DEF Rkstrategy
  <2>3. flags'[b] = f /\ \A a \in Buf : a # b => flags'[a] = flags[a]
    BY <1>0, <2>1 DEF TypeOK
  <2>4. IoInv'
    <3>1. CASE io = NoIO
      <4>1. queue = <<>>
        BY <1>0, <3>1 DEF ListInv
      <4>2. Head(queue') = b
        BY <2>2, <4>1
      <4>3. io' = [buf |-> b, blk |-> assoc[b], read |-> "READ" \in f, val |-> data[b]]
        BY <2>2, <3>1 DEF Devstart
      <4> QED
        BY <2>1, <2>3, <4>2, <4>3 DEF IoInv
    <3>2. CASE io # NoIO
      <4>1. queue # <<>> /\ queue \in Seq(Buf)
        BY <1>0, <3>2 DEF ListInv, TypeOK
      <4>2. Head(queue') = Head(queue)
        BY <2>2, <4>1
      <4>3. Head(queue) \in Buf /\ Head(queue) # b
        BY <4>1, TailElems
      <4> QED
        BY <1>0, <2>1, <2>2, <2>3, <3>2, <4>2, <4>3 DEF IoInv
    <3> QED
      BY <3>1, <3>2
  <2> QED
    BY <2>1, <2>3, <2>4
<1> QED
  BY <1>1, <1>2

\* A transfer of b starts: a read if b has not the contents of its block, a
\* write if it has.
Starts(p, b, f, fl) ==
    /\ b \notin Elems(queue) /\ assoc[b] # Nodev
    /\ "DONE" \notin f /\ "DELWRI" \notin f
    /\ Rkstrategy(b, f, fl)
    /\ assoc[b] \in Blk => (Valid(b) <=> "READ" \notin f)
    /\ UNCHANGED <<data, disk>>
    /\ OnlyMoves(p)
    /\ \A q \in Proc : q # p => b \notin Held(q)

\* That keeps the invariant, and shows in no block's contents.
LEMMA StartStore ==
    ASSUME StoreInv, Inv', NEW p \in Proc, NEW b \in Buf, NEW fl \in Seq(Buf),
           NEW f \in SUBSET Flags, Starts(p, b, f, fl), ~ValidHand(p, b)',
           \A a \in Buf : a # b =>
              /\ "DONE" \in flags[a] \/ (ValidHand(p, a)' <=> ValidHand(p, a))
              /\ DirtyHand(p, a) => DirtyHand(p, a)',
           HandInv(p)'
    PROVE  /\ StoreInv' /\ Framed(p, b)
           /\ \A k \in Blk : Share(b, k)' = Share(b, k)
           /\ \A k \in Blk : assoc'[b] = k <=> assoc[b] = k
           /\ \A a \in Buf : a # b => assoc'[a] = assoc[a]
<1>0. Nodev \notin Blk \cup BadBlk /\ Blk \cap BadBlk = {} /\ NoBuf \notin Buf
  BY BufAssumption
<1>1. /\ assoc[b] \in Blk =>
             flags'[b] = f /\ assoc'[b] = assoc[b] /\ b \in Elems(queue')
      /\ assoc[b] \notin Blk =>
             /\ assoc[b] \in BadBlk /\ assoc'[b] \in {Nodev, assoc[b]}
             /\ "DONE" \in flags'[b] /\ "ERROR" \in flags'[b]
             /\ "DELWRI" \in flags'[b] <=> "DELWRI" \in f
      /\ \A a \in Buf : a # b => /\ flags'[a] = flags[a] /\ assoc'[a] = assoc[a]
                                 /\ a \in Elems(queue') <=> a \in Elems(queue)
      /\ IoInv'
  BY StartEffect DEF Starts
<1>2. Touches(p, b)
  BY <1>1 DEF Touches, Starts, Like
<1>3. DataOK(b)'
  <2>1. CASE assoc[b] \in Blk
    BY <1>0, <1>1, <2>1 DEF DataOK, Starts
  <2>2. CASE assoc[b] \notin Blk
    BY <1>0, <1>1, <2>2 DEF DataOK, Starts
  <2> QED
    BY <2>1, <2>2
<1>4. StoreInv' /\ Framed(p, b)
  BY <1>1, <1>2, <1>3, TouchStore
<1>5. ASSUME NEW k \in Blk
      PROVE  Share(b, k)' = Share(b, k)
  <2>1. CASE assoc[b] = k
    <3>1. \A q \in Proc : ~(bp'[q] = b /\ pc'[q] \in {"dirty", "ind", "nbdw"})
      BY <1>0 DEF Starts, OnlyMoves, Held, ValidHand
    <3>2. Valid(b)' <=> "READ" \notin f
      BY <1>1, <2>1, <3>1 DEF Valid, Starts
    <3> QED
      BY <1>1, <2>1, <3>2 DEF Share, Starts
  <2>2. CASE assoc[b] # k
    <3>1. assoc'[b] # k
      BY <1>0, <1>1, <2>2
    <3> QED
      BY <2>2, <3>1 DEF Share, Starts
  <2> QED
    BY <2>1, <2>2
<1>6. \A k \in Blk : assoc'[b] = k <=> assoc[b] = k
  BY <1>0, <1>1
<1> QED
  BY <1>1, <1>4, <1>5, <1>6

\* The process keeps the buffer, or never had it.
LEMMA StartKept ==
    ASSUME StoreInv, StoreInv', NEW p \in Proc, NEW b \in Buf, Framed(p, b),
           \A k \in Blk : Share(b, k)' = Share(b, k),
           \A k \in Blk : assoc'[b] = k <=> assoc[b] = k,
           \A a \in Buf : a # b => assoc'[a] = assoc[a],
           Held(p)' = Held(p), Writing(p)' = Writing(p)
    PROVE  StoreStep
<1>0. Inv /\ Inv' /\ TypeOK
  BY DEF StoreInv, Inv
<1>1. \A k \in Blk : Has(p, k)' <=> Has(p, k)
  BY <1>0, HeldIn DEF Has
<1>2. \A k \in Blk : Holder(k)' = Holder(k)
  BY <1>0, <1>1, HolderKept DEF Framed
<1> QED
  BY <1>2, SameStep DEF Framed

-----------------------------------------------------------------------------
(* The actions that change no buffer. *)

\* An operation begins.
LEMMA BeginStore ==
    ASSUME StoreInv, Inv', NEW p \in Proc, Begin(p)
    PROVE  StoreInv' /\ StoreStep
<1>0. Inv /\ TypeOK /\ HandInv(p)
  BY DEF StoreInv, Inv
<1>1. /\ pc[p] \in {"user", "inexec"} /\ pc'[p] \in {"getblk", "breada", "bflush", "execwait"}
      /\ pc'[p] = "getblk" => ret'[p] \in {"bread", "fill"}
      /\ OnlyMoves(p)
      /\ UNCHANGED <<flags, assoc, data, queue, io, disk, bp, rbp, arg>>
  <2>1. ASSUME NEW k, NEW r \in {"bread", "fill"}, BeginGetblk(p, k, r)
        PROVE  <1>1!:
    BY <1>0, <2>1 DEF BeginGetblk, CanBegin, CallGetblk, bufvars, devvars, ownvars, TypeOK,
                      OnlyMoves
  <2>2. ASSUME NEW k, NEW r, BeginBreada(p, k, r)
        PROVE  <1>1!:
    BY <1>0, <2>2 DEF BeginBreada, CanBegin, bufvars, devvars, ownvars, TypeOK, OnlyMoves
  <2>3. CASE BeginBflush(p) \/ BeginExec(p)
    BY <1>0, <2>3 DEF BeginBflush, BeginExec, bufvars, devvars, ownvars, argvars, TypeOK,
                      OnlyMoves
  <2> QED
    BY <2>1, <2>2, <2>3 DEF Begin
<1>2. HandInv(p)'
  BY <1>0, <1>1 DEF HandInv, InBmap, AtGetblk
<1> QED
  BY <1>1, <1>2, QuietStore DEF Like, Held, Writers

\* A process goes on, or goes to sleep.
LEMMA SleepStore ==
    ASSUME StoreInv, Inv', NEW p \in Proc,
           UNCHANGED <<assoc, data, queue, io, disk, pc, want, ret, blkno, bp, rbp, arg>>,
           \A a \in Buf : Like(a)
    PROVE  StoreInv' /\ StoreStep
<1>0. TypeOK /\ HandInv(p) /\ ProcInv(p)
  BY DEF StoreInv, Inv
<1>1. OnlyMoves(p) /\ Held(p)' = Held(p)
  BY DEF OnlyMoves, Held
<1>2. HandInv(p)'
  <2>1. /\ InBmap(p) => rbp[p] \in Buf
        /\ pc[p] = "dwrite" => bp[p] \in Buf
    BY <1>0 DEF ProcInv, TypeOK, InHand
  <2> QED
    BY <1>0, <2>1 DEF HandInv, InBmap, AtGetblk, Like
<1> QED
  BY <1>1, <1>2, QuietStore

\* A process is dispatched, or sleeps in getblk.
LEMMA WaitStore ==
    ASSUME StoreInv, Inv', NEW p \in Proc, Dispatch(p) \/ GetblkBusy(p) \/ GetblkEmpty(p)
    PROVE  StoreInv' /\ StoreStep
<1>0. TypeOK
  BY DEF StoreInv, Inv
<1>1. ASSUME NEW a \in Buf
      PROVE  Like(a)
  <2>1. CASE GetblkBusy(p)
    <3>1. PICK b \in Buf : flags' = [flags EXCEPT ![b] = @ \cup {"WANTED"}]
      BY <2>1 DEF GetblkBusy
    <3>2. flags'[a] = flags[a] \/ flags'[a] = flags[a] \cup {"WANTED"}
      BY <1>0, <3>1 DEF TypeOK
    <3> QED
      BY <3>2 DEF Like
  <2>2. CASE Dispatch(p) \/ GetblkEmpty(p)
    BY <2>2 DEF Dispatch, GetblkEmpty, bufvars, Like
  <2> QED
    BY <2>1, <2>2
<1>2. UNCHANGED <<assoc, data, queue, io, disk, pc, want, ret, blkno, bp, rbp, arg>>
  BY DEF Dispatch, GetblkBusy, GetblkEmpty, bufvars, devvars, argvars, ownvars
<1> QED
  BY <1>1, <1>2, SleepStore

\* The turns of breada.
LEMMA BreadaTurns ==
    ASSUME StoreInv, Inv', NEW p \in Proc, Breada(p) \/ Ahead(p) \/ BreadaMain(p)
    PROVE  StoreInv' /\ StoreStep
<1>0. Inv /\ TypeOK /\ HandInv(p) /\ ProcInv(p)
  BY DEF StoreInv, Inv
<1>1. /\ pc[p] \in {"breada", "ahead", "main"} /\ pc'[p] \in {"ahead", "main", "getblk", "iowait"}
      /\ pc'[p] = "getblk" => ret'[p] \in {"breada1", "breada2", "bread"}
      /\ OnlyMoves(p)
      /\ UNCHANGED <<flags, assoc, data, queue, io, disk, arg>>
      /\ \/ bp'[p] = bp[p] /\ rbp'[p] = rbp[p]
         \/ bp[p] = NoBuf /\ bp'[p] = rbp[p] /\ rbp'[p] = NoBuf
  <2>1. CASE Breada(p)
    BY <1>0, <2>1 DEF Breada, CallGetblk, bufvars, devvars, ownvars, TypeOK, OnlyMoves
  <2>2. CASE Ahead(p)
    BY <1>0, <2>2 DEF Ahead, CallGetblk, bufvars, devvars, ownvars, TypeOK, OnlyMoves
  <2>3. CASE BreadaMain(p)
    BY <1>0, <2>3 DEF BreadaMain, CallGetblk, bufvars, devvars, TypeOK, OnlyMoves,
                      ProcInv, InHand, GetblkRet
  <2> QED
    BY <2>1, <2>2, <2>3
<1>2. HandInv(p)'
  BY <1>0, <1>1 DEF HandInv, InBmap, AtGetblk
<1>3. Held(p)' = Held(p)
  BY <1>1 DEF Held
<1> QED
  BY <1>1, <1>2, <1>3, QuietStore DEF Like, Writers

\* iowait.
LEMMA IowaitStore ==
    ASSUME StoreInv, Inv', NEW p \in Proc, Iowait(p)
    PROVE  StoreInv' /\ StoreStep
<1>0. Inv /\ TypeOK /\ HandInv(p)
  BY DEF StoreInv, Inv
<1>1. UNCHANGED <<flags, assoc, data, queue, io, disk, want, ret, blkno, bp, rbp, arg>>
  BY DEF Iowait, devvars, argvars, ownvars
<1>2. CASE "DONE" \in flags[bp[p]]
  <2>1. pc[p] = "iowait" /\ pc'[p] = "held" /\ OnlyMoves(p)
    BY <1>0, <1>1, <1>2 DEF Iowait, TypeOK, OnlyMoves
  <2>2. HandInv(p)'
    BY <1>0, <1>1, <2>1 DEF HandInv, InBmap, AtGetblk
  <2> QED
    BY <1>1, <2>1, <2>2, QuietStore DEF Like, Held, Writers
<1>3. CASE "DONE" \notin flags[bp[p]]
  BY <1>1, <1>3, SleepStore DEF Iowait, Like
<1> QED
  BY <1>2, <1>3

\* bmap asks for the new block's buffer.
LEMMA BmapAllocStore ==
    ASSUME StoreInv, Inv', NEW p \in Proc, NEW k \in Blk, BmapAlloc(p, k)
    PROVE  StoreInv' /\ StoreStep
<1>0. Inv /\ TypeOK /\ HandInv(p) /\ ProcInv(p)
  BY DEF StoreInv, Inv
<1>1. /\ pc[p] = "held" /\ pc'[p] = "getblk" /\ ret'[p] = "alloc"
      /\ bp'[p] = NoBuf /\ rbp'[p] = bp[p] /\ arg'[p] = NoBuf
      /\ "ERROR" \notin flags[bp[p]]
      /\ OnlyMoves(p)
      /\ UNCHANGED <<flags, assoc, data, queue, io, disk>>
  BY <1>0 DEF BmapAlloc, CallGetblk, bufvars, devvars, TypeOK, OnlyMoves
<1>2. bp[p] \in Buf /\ rbp[p] = NoBuf /\ assoc[bp[p]] # Nodev /\ "DONE" \in flags[bp[p]]
  BY <1>0, <1>1 DEF ProcInv, InHand, InBmap, InBreada, TypeOK, GetblkRet
<1>3. assoc[bp[p]] \in Blk
  BY <1>0, <1>1, <1>2 DEF StoreInv, DataOK, TypeOK, Block
<1>4. HandInv(p)'
  BY <1>0, <1>1, <1>2, <1>3 DEF HandInv, InBmap, AtGetblk
<1>5. Held(p)' = Held(p)
  BY <1>1, <1>2 DEF Held, BmapAlloc
<1> QED
  BY <1>1, <1>4, <1>5, QuietStore DEF Like, Writers

\* bflush is done.
LEMMA BflushEndStore ==
    ASSUME StoreInv, Inv', NEW p \in Proc, BflushEnd(p)
    PROVE  StoreInv' /\ StoreStep
<1>0. Inv /\ TypeOK /\ HandInv(p)
  BY DEF StoreInv, Inv
<1>1. /\ pc[p] = "bflush" /\ pc'[p] \in {"user", "inexec"} /\ Finish(p)
      /\ UNCHANGED <<flags, assoc, data, queue, io, disk, bp, rbp, arg>>
  BY <1>0, FinishEffect DEF BflushEnd, bufvars, devvars, ownvars
<1>2. OnlyMoves(p)
  BY <1>0, <1>1, FinishEffect DEF OnlyMoves
<1>3. HandInv(p)'
  BY <1>0, <1>1 DEF HandInv, InBmap, AtGetblk
<1> QED
  BY <1>1, <1>2, <1>3, QuietStore DEF Like, Held, Writers

\* exec waits for its turn, or asks for a buffer.
LEMMA ExecEnterStore ==
    ASSUME StoreInv, Inv', NEW p \in Proc, ExecEnter(p)
    PROVE  StoreInv' /\ StoreStep
<1>0. Inv /\ TypeOK /\ HandInv(p)
  BY DEF StoreInv, Inv
<1>1. UNCHANGED <<flags, assoc, data, queue, io, disk, blkno, bp, rbp, arg>>
  BY DEF ExecEnter, bufvars, devvars, ownvars
<1>2. CASE execnt >= NEXEC
  BY <1>1, <1>2, SleepStore DEF ExecEnter, Like
<1>3. CASE ~(execnt >= NEXEC)
  <2>1. /\ pc[p] = "execwait" /\ pc'[p] = "getblk" /\ ret'[p] = "exec" /\ want'[p] = Nodev
        /\ OnlyMoves(p)
    BY <1>0, <1>1, <1>3 DEF ExecEnter, CallGetblk, TypeOK, OnlyMoves
  <2>2. HandInv(p)'
    BY <1>0, <1>1, <2>1 DEF HandInv, InBmap, AtGetblk
  <2> QED
    BY <1>1, <2>1, <2>2, QuietStore DEF Like, Held, Writers
<1> QED
  BY <1>2, <1>3

\* exec has its buffer.
LEMMA ExecArgsStore ==
    ASSUME StoreInv, Inv', NEW p \in Proc, ExecArgs(p)
    PROVE  StoreInv' /\ StoreStep
<1>0. Inv /\ TypeOK /\ HandInv(p) /\ ProcInv(p)
  BY DEF StoreInv, Inv
<1>1. /\ pc[p] = "exec" /\ pc'[p] = "inexec"
      /\ arg'[p] = bp[p] /\ bp'[p] = NoBuf /\ rbp'[p] = rbp[p] /\ arg[p] = NoBuf
      /\ OnlyMoves(p)
      /\ UNCHANGED <<flags, assoc, data, queue, io, disk, want, ret>>
  BY <1>0 DEF ExecArgs, bufvars, devvars, argvars, TypeOK, OnlyMoves, ProcInv
<1>2. assoc[bp[p]] = Nodev
  BY <1>0, <1>1 DEF ProcInv, HandInv, AtGetblk, GetblkRet
<1>3. HandInv(p)'
  BY <1>0, <1>1, <1>2 DEF HandInv, InBmap, AtGetblk
<1>4. Held(p)' = Held(p)
  BY <1>1 DEF Held
<1> QED
  BY <1>1, <1>3, <1>4, QuietStore DEF Like, Writers

-----------------------------------------------------------------------------
(* The actions that take a buffer, write into it, or release it. *)

\* getblk returns a buffer.
LEMMA GetblkTakeStore ==
    ASSUME StoreInv, Inv', NEW p \in Proc, GetblkHit(p) \/ GetblkReassign(p)
    PROVE  StoreInv' /\ StoreStep
<1>0. Inv /\ TypeOK /\ ListInv
  BY DEF StoreInv, Inv
<1>1. CASE GetblkHit(p)
  <2>1. PICK b \in Buf :
          /\ assoc[b] = want[p] /\ "BUSY" \notin flags[b]
          /\ flags' = [flags EXCEPT ![b] = @ \cup {"BUSY"}]
          /\ bp' = [bp EXCEPT ![p] = b]
    BY <1>1 DEF GetblkHit
  <2>2. /\ flags' = [flags EXCEPT ![b] = flags[b] \cup {"BUSY"}]
        /\ flags[b] \cup {"BUSY"} \in SUBSET Flags
        /\ assoc' = [assoc EXCEPT ![b] = want[p]]
        /\ b \in Elems(freelist)
    BY <1>0, <1>1, <2>1 DEF GetblkHit, TypeOK, ListInv, Flags
  <2>3. /\ pc[p] = "getblk" /\ pc' = [pc EXCEPT ![p] = ret[p]]
        /\ UNCHANGED <<data, queue, io, disk, want, ret, blkno, rbp, arg>>
    BY <1>1 DEF GetblkHit, devvars, argvars
  <2> QED
    BY <2>1, <2>2, <2>3, TakeStore
<1>2. CASE GetblkReassign(p)
  <2>1. PICK b \in Buf :
          /\ b \in Elems(freelist) /\ "DELWRI" \notin flags[b]
          /\ flags' = [flags EXCEPT ![b] = {"BUSY"}]
          /\ assoc' = [assoc EXCEPT ![b] = want[p]]
          /\ bp' = [bp EXCEPT ![p] = b]
    BY <1>0, <1>2, TailElems DEF GetblkReassign, TypeOK
  <2>2. {"BUSY"} \in SUBSET Flags
    BY DEF Flags
  <2>3. /\ pc[p] = "getblk" /\ pc' = [pc EXCEPT ![p] = ret[p]]
        /\ want[p] = Nodev \/ ~Incore(want[p])
        /\ UNCHANGED <<data, queue, io, disk, want, ret, blkno, rbp, arg>>
    BY <1>2 DEF GetblkReassign, Miss, devvars, argvars
  <2> QED
    BY <2>1, <2>2, <2>3, TakeStore
<1> QED
  BY <1>1, <1>2

\* A caller writes into its buffer.
LEMMA ModifyStore ==
    ASSUME StoreInv, Inv', NEW p \in Proc, NEW v \in Val, Modify(p, v)
    PROVE  StoreInv' /\ StoreStep
<1>0. Inv /\ TypeOK /\ ProcInv(p) /\ NoBuf \notin Buf
  BY BufAssumption DEF StoreInv, Inv
<1>1. /\ pc[p] \in {"held", "fill"} /\ data' = [data EXCEPT ![bp[p]] = v]
      /\ pc[p] = "held" => "ERROR" \notin flags[bp[p]]
      /\ pc' = [pc EXCEPT ![p] = "dirty"]
      /\ UNCHANGED <<flags, assoc, queue, io, disk, want, ret, blkno, bp, rbp, arg>>
  BY DEF Modify, bufvars, devvars, argvars, ownvars
<1>2. PICK b \in Buf : b = bp[p]
  BY <1>0, <1>1 DEF ProcInv, InHand, GetblkRet, TypeOK
<1>3. b \in Held(p) /\ b \notin Elems(queue)
  BY <1>0, <1>1, <1>2 DEF Held, ProcInv, InHand, InTransfer, GetblkRet
<1>4. pc[p] = "held" => assoc[b] \in Blk
  BY <1>0, <1>1, <1>2 DEF StoreInv, DataOK, ProcInv, TypeOK, Block, InHand
<1> QED
  BY <1>1, <1>2, <1>3, <1>4, PutStore

\* alloc clears its buffer.
LEMMA AllocClrbufStore ==
    ASSUME StoreInv, Inv', NEW p \in Proc, AllocClrbuf(p)
    PROVE  StoreInv' /\ StoreStep
<1>0. Inv /\ TypeOK /\ ProcInv(p) /\ NoBuf \notin Buf /\ Zero \in Val
  BY BufAssumption DEF StoreInv, Inv
<1>1. /\ pc[p] = "alloc" /\ data' = [data EXCEPT ![bp[p]] = Zero]
      /\ pc' = [pc EXCEPT ![p] = "ind"]
      /\ UNCHANGED <<flags, assoc, queue, io, disk, want, ret, blkno, bp, rbp, arg>>
  BY DEF AllocClrbuf, bufvars, devvars, argvars, ownvars
<1>2. PICK b \in Buf : b = bp[p]
  BY <1>0, <1>1 DEF ProcInv, InHand, GetblkRet, TypeOK
<1>3. b \in Held(p) /\ b \notin Elems(queue)
  BY <1>0, <1>1, <1>2 DEF Held, ProcInv, InHand, InTransfer, GetblkRet
<1> QED
  BY <1>0, <1>1, <1>2, <1>3, PutStore

\* bmap writes into the indirect block.
LEMMA BmapIndirectStore ==
    ASSUME StoreInv, Inv', NEW p \in Proc, NEW v \in Val, BmapIndirect(p, v)
    PROVE  StoreInv' /\ StoreStep
<1>0. Inv /\ TypeOK /\ ProcInv(p) /\ NoBuf \notin Buf
  BY BufAssumption DEF StoreInv, Inv
<1>1. /\ pc[p] = "ind" /\ data' = [data EXCEPT ![rbp[p]] = v]
      /\ pc' = [pc EXCEPT ![p] = "nbdw"]
      /\ UNCHANGED <<flags, assoc, queue, io, disk, want, ret, blkno, bp, rbp, arg>>
  BY DEF BmapIndirect, bufvars, devvars, argvars, ownvars
<1>2. PICK b \in Buf : b = rbp[p]
  BY <1>0, <1>1 DEF ProcInv, InBmap, TypeOK
<1>3. b \in Held(p) /\ b \notin Elems(queue)
  BY <1>0, <1>1, <1>2 DEF Held, ProcInv, InBmap
<1> QED
  BY <1>1, <1>2, <1>3, PutStore

\* An operation that is over has written into no other block.
LEMMA FinishStore ==
    ASSUME StoreInv, NEW p \in Proc, Finish(p), bp[p] # NoBuf, rbp[p] = NoBuf,
           bp'[p] = NoBuf, rbp'[p] = rbp[p], arg'[p] = arg[p],
           \A a \in Buf : a # bp[p] => assoc'[a] = assoc[a]
    PROVE  /\ OnlyMoves(p) <=> \A q \in Proc : q # p =>
                 bp'[q] = bp[q] /\ rbp'[q] = rbp[q] /\ arg'[q] = arg[q]
           /\ pc'[p] \in {"user", "inexec"}
           /\ Held(p)' = Held(p) \ {bp[p]}
           /\ HandInv(p)'
           /\ Writing(p)' = IF assoc[bp[p]] \in Blk
                            THEN Writing(p) /\ \E j \in Blk \ {assoc[bp[p]]} : Has(p, j)
                            ELSE Writing(p)
<1>0. Inv /\ TypeOK /\ HandInv(p) /\ Hands(p) /\ ProcInv(p) /\ Nodev \notin Blk
  BY HandsNow, BufAssumption DEF StoreInv, Inv
<1>1. pc'[p] \in {"user", "inexec"}
  BY <1>0, FinishEffect
<1>2. OnlyMoves(p) <=> \A q \in Proc : q # p =>
          bp'[q] = bp[q] /\ rbp'[q] = rbp[q] /\ arg'[q] = arg[q]
  BY <1>0, FinishEffect DEF OnlyMoves
<1>3. Held(p)' = Held(p) \ {bp[p]}
  BY <1>0 DEF Held, Hands
<1>4. HandInv(p)'
  <2>1. arg[p] # NoBuf => arg[p] \in Buf /\ arg[p] # bp[p]
    BY <1>0 DEF Hands, TypeOK
  <2> QED
    BY <1>0, <1>1, <2>1 DEF HandInv, InBmap, AtGetblk
<1>5. ~Writing(p)'
  BY <1>1 DEF Writing
<1>6. \A j \in Blk \ {assoc[bp[p]]} : ~Has(p, j)
  BY <1>0 DEF Has, Held, HandInv
<1> QED
  BY <1>1, <1>2, <1>3, <1>4, <1>5, <1>6 DEF Writing

\* brelse, and what it does to the block of the buffer.
LEMMA BrelseStore ==
    ASSUME StoreInv, NEW b \in Buf, NEW f \in SUBSET Flags,
           "ERROR" \in f => "ERROR" \in flags[b], Brelse(b, f, freelist)
    PROVE  /\ flags' = [flags EXCEPT ![b] = f \ {"WANTED", "BUSY", "ASYNC"}]
           /\ \A a \in Buf : a # b => flags'[a] = flags[a] /\ assoc'[a] = assoc[a]
           /\ assoc'[b] = assoc[b] \/ (assoc[b] \notin Blk /\ assoc'[b] = Nodev)
BY DEF StoreInv, Inv, TypeOK, FlagInv, Brelse

\* An operation ends with a brelse.
LEMMA FinishRelease ==
    ASSUME StoreInv, Inv', NEW p \in Proc, bp[p] \in Buf, rbp[p] = NoBuf,
           bp[p] \notin Elems(queue), NEW f \in SUBSET Flags,
           \/ f = flags[bp[p]] /\ pc[p] \notin {"dirty", "ind", "nbdw", "dwrite"}
           \/ f = flags[bp[p]] \cup {"DELWRI", "DONE"} /\ Valid(bp[p]) /\ assoc[bp[p]] \in Blk,
           Brelse(bp[p], f, freelist), Finish(p),
           bp' = [bp EXCEPT ![p] = NoBuf], UNCHANGED <<data, queue, io, disk, rbp, arg>>
    PROVE  StoreInv' /\ StoreStep
<1>0. Inv /\ TypeOK /\ NoBuf \notin Buf
  BY BufAssumption DEF StoreInv, Inv
<1>1. PICK b \in Buf : b = bp[p]
  OBVIOUS
<1>2. "ERROR" \in f => "ERROR" \in flags[b]
  BY <1>1
<1>3. /\ flags' = [flags EXCEPT ![b] = f \ {"WANTED", "BUSY", "ASYNC"}]
      /\ \A a \in Buf : a # b => flags'[a] = flags[a] /\ assoc'[a] = assoc[a]
      /\ assoc'[b] = assoc[b] \/ (assoc[b] \notin Blk /\ assoc'[b] = Nodev)
  BY <1>1, <1>2, BrelseStore
<1>4. bp'[p] = NoBuf /\ \A q \in Proc : q # p => bp'[q] = bp[q]
  BY <1>0 DEF TypeOK
<1>5. /\ OnlyMoves(p) /\ pc'[p] \in {"user", "inexec"}
      /\ Held(p)' = Held(p) \ {b} /\ HandInv(p)'
      /\ Writing(p)' = IF assoc[b] \in Blk
                       THEN Writing(p) /\ \E j \in Blk \ {assoc[b]} : Has(p, j)
                       ELSE Writing(p)
  BY <1>0, <1>1, <1>3, <1>4, FinishStore
<1>6. \A a \in Buf : a # b => /\ ValidHand(p, a)' <=> ValidHand(p, a)
                              /\ DirtyHand(p, a) => DirtyHand(p, a)'
  BY <1>0, <1>1, <1>4 DEF ValidHand, DirtyHand
<1>7. b \in Held(p)
  BY <1>0, <1>1 DEF Held
<1> QED
  BY <1>1, <1>3, <1>5, <1>6, <1>7, ReleaseStore

\* The operations that end with a brelse.
LEMMA BrelseEnds ==
    ASSUME StoreInv, Inv', NEW p \in Proc,
           \/ ReleaseClean(p) \/ Bdwrite(p)
           \/ BwriteWait(p) /\ "DONE" \in flags[bp[p]]
    PROVE  StoreInv' /\ StoreStep
<1>0. Inv /\ TypeOK /\ ProcInv(p) /\ HandInv(p) /\ ListInv
  BY DEF StoreInv, Inv
<1>1. /\ pc[p] \in {"held", "bwait", "dirty", "dwrite"} /\ Finish(p)
      /\ bp' = [bp EXCEPT ![p] = NoBuf]
      /\ UNCHANGED <<data, queue, io, disk, rbp, arg>>
      /\ \/ /\ pc[p] \in {"held", "bwait"} /\ Brelse(bp[p], flags[bp[p]], freelist)
            /\ pc[p] = "bwait" => "DONE" \in flags[bp[p]]
         \/ /\ pc[p] \in {"dirty", "dwrite"} /\ assoc[bp[p]] \in Blk
            /\ Brelse(bp[p], flags[bp[p]] \cup {"DELWRI", "DONE"}, freelist)
  BY DEF ReleaseClean, Bdwrite, BwriteWait, devvars
<1>2. bp[p] \in Buf /\ rbp[p] = NoBuf
  BY <1>0, <1>1 DEF ProcInv, InHand, InBmap, InBreada, TypeOK
<1>3. bp[p] \notin Elems(queue)
  BY <1>0, <1>1, <1>2 DEF ProcInv, InHand, InTransfer, ListInv
<1>4. /\ flags[bp[p]] \in SUBSET Flags
      /\ flags[bp[p]] \cup {"DELWRI", "DONE"} \in SUBSET Flags
  BY <1>0, <1>2 DEF TypeOK, Flags
<1>5. pc[p] \in {"dirty", "dwrite"} => Valid(bp[p])
  BY <1>0 DEF Valid, HandInv
<1>6. CASE pc[p] \in {"held", "bwait"} /\ Brelse(bp[p], flags[bp[p]], freelist)
  BY <1>1, <1>2, <1>3, <1>4, <1>6, FinishRelease
<1>7. CASE /\ pc[p] \in {"dirty", "dwrite"} /\ assoc[bp[p]] \in Blk
           /\ Brelse(bp[p], flags[bp[p]] \cup {"DELWRI", "DONE"}, freelist)
  BY <1>1, <1>2, <1>3, <1>4, <1>5, <1>7, FinishRelease
<1> QED
  BY <1>1, <1>6, <1>7

\* bwrite waits, or releases its buffer.
LEMMA BwriteWaitStore ==
    ASSUME StoreInv, Inv', NEW p \in Proc, BwriteWait(p)
    PROVE  StoreInv' /\ StoreStep
<1>1. CASE "DONE" \in flags[bp[p]]
  BY <1>1, BrelseEnds
<1>2. CASE "DONE" \notin flags[bp[p]]
  <2>1. UNCHANGED <<flags, assoc, data, queue, io, disk, pc, want, ret, blkno, bp, rbp, arg>>
    BY <1>2 DEF BwriteWait, devvars, argvars
  <2> QED
    BY <2>1, SleepStore DEF Like
<1> QED
  BY <1>1, <1>2

\* bmap releases the new block and goes on with the indirect one.
LEMMA BmapBdwriteStore ==
    ASSUME StoreInv, Inv', NEW p \in Proc, BmapBdwrite(p)
    PROVE  StoreInv' /\ StoreStep
<1>0. Inv /\ TypeOK /\ ProcInv(p) /\ HandInv(p) /\ Hands(p) /\ NoBuf \notin Buf /\ OneBufferPerBlock
  BY HandsNow, BufAssumption DEF StoreInv, Inv
<1>1. /\ pc[p] = "nbdw" /\ pc'[p] = "dwrite" /\ bp'[p] = rbp[p] /\ rbp'[p] = NoBuf
      /\ arg'[p] = arg[p] /\ OnlyMoves(p)
      /\ Brelse(bp[p], flags[bp[p]] \cup {"DELWRI", "DONE"}, freelist)
      /\ UNCHANGED <<data, queue, io, disk>>
  BY <1>0 DEF BmapBdwrite, devvars, argvars, TypeOK, OnlyMoves
<1>2. /\ bp[p] \in Buf /\ rbp[p] \in Buf /\ bp[p] # rbp[p] /\ arg[p] = NoBuf
      /\ assoc[bp[p]] \in Blk /\ assoc[rbp[p]] \in Blk /\ "DONE" \in flags[rbp[p]]
      /\ bp[p] \notin Elems(queue)
  BY <1>0, <1>1 DEF ProcInv, HandInv, Hands, InHand, InTransfer, InBmap, TypeOK
<1>3. PICK b \in Buf : b = bp[p]
  BY <1>2
<1>4. PICK c \in Buf : c = rbp[p]
  BY <1>2
<1>5. /\ flags[b] \cup {"DELWRI", "DONE"} \in SUBSET Flags
      /\ "ERROR" \in flags[b] \cup {"DELWRI", "DONE"} => "ERROR" \in flags[b]
  BY <1>0 DEF TypeOK, Flags
<1>6. /\ flags' = [flags EXCEPT ![b] =
                     (flags[b] \cup {"DELWRI", "DONE"}) \ {"WANTED", "BUSY", "ASYNC"}]
      /\ \A a \in Buf : a # b => flags'[a] = flags[a] /\ assoc'[a] = assoc[a]
      /\ assoc'[b] = assoc[b] \/ (assoc[b] \notin Blk /\ assoc'[b] = Nodev)
  BY <1>1, <1>3, <1>5, BrelseStore
<1>7. Held(p) = {b, c} /\ Held(p)' = {c} /\ b # c
  BY <1>0, <1>1, <1>2, <1>3, <1>4 DEF Held
<1>8. \A a \in Buf : a # b =>
          /\ "DONE" \in flags[a] \/ (ValidHand(p, a)' <=> ValidHand(p, a))
          /\ DirtyHand(p, a) => DirtyHand(p, a)'
  BY <1>1, <1>2, <1>3, <1>4 DEF ValidHand, DirtyHand
<1>9. HandInv(p)'
  BY <1>1, <1>2, <1>4, <1>6, <1>7 DEF HandInv, InBmap, AtGetblk
<1>10. Writing(p)' = IF assoc[b] \in Blk
                     THEN Writing(p) /\ \E j \in Blk \ {assoc[b]} : Has(p, j)
                     ELSE Writing(p)
  <2>1. Writing(p) /\ Writing(p)'
    BY <1>1, <1>2, <1>4, <1>6, <1>7 DEF Writing
  <2>2. Has(p, assoc[c]) /\ assoc[c] # assoc[b] /\ assoc[c] \in Blk
    BY <1>0, <1>2, <1>3, <1>4, <1>7, BufAssumption DEF Has, OneBufferPerBlock
  <2>3. Writing(p) = TRUE /\ Writing(p)' = TRUE
    BY <2>1 DEF Writing
  <2> QED
    BY <2>2, <2>3
<1>11. Valid(b) /\ assoc[b] \in Blk /\ b \in Held(p) /\ b \notin Elems(queue)
  BY <1>1, <1>2, <1>3, <1>7 DEF Valid
<1>12. Held(p)' = Held(p) \ {b}
  BY <1>7
<1> QED
  BY <1>1, <1>5, <1>6, <1>8, <1>9, <1>10, <1>11, <1>12, ReleaseStore

\* exec gives its buffer back.
LEMMA ExecEndStore ==
    ASSUME StoreInv, Inv', NEW p \in Proc, ExecEnd(p)
    PROVE  StoreInv' /\ StoreStep
<1>0. Inv /\ TypeOK /\ ProcInv(p) /\ HandInv(p) /\ NoBuf \notin Buf
  BY BufAssumption DEF StoreInv, Inv
<1>1. /\ pc[p] = "inexec" /\ pc'[p] = "user" /\ arg'[p] = NoBuf
      /\ UNCHANGED <<assoc, data, queue, io, disk, bp, rbp>> /\ OnlyMoves(p)
      /\ flags' = [flags EXCEPT ![arg[p]] = flags[arg[p]] \ {"WANTED", "BUSY", "ASYNC"}]
  BY <1>0 DEF ExecEnd, devvars, argvars, TypeOK, OnlyMoves
<1>2. bp[p] = NoBuf /\ rbp[p] = NoBuf /\ arg[p] \in Buf /\ arg[p] \notin Elems(queue)
  BY <1>0, <1>1 DEF ProcInv, InHand, InBmap, InBreada, GetblkRet, TypeOK
<1>3. PICK b \in Buf : b = arg[p]
  BY <1>2
<1>4. Held(p) = {b} /\ Held(p)' = Held(p) \ {b} /\ b \in Held(p)
  BY <1>0, <1>1, <1>2, <1>3 DEF Held
<1>5. assoc[b] = Nodev /\ Nodev \notin Blk /\ flags[b] \in SUBSET Flags
  BY <1>0, <1>2, <1>3, BufAssumption DEF HandInv, TypeOK
<1>6. HandInv(p)'
  BY <1>1 DEF HandInv, InBmap, AtGetblk
<1>7. ~Writing(p) /\ ~Writing(p)' /\ Writing(p)' = Writing(p)
  BY <1>1 DEF Writing
<1>8. \A a \in Buf : /\ ValidHand(p, a)' <=> ValidHand(p, a)
                     /\ DirtyHand(p, a) => DirtyHand(p, a)'
  BY <1>0, <1>1, <1>2 DEF ValidHand, DirtyHand
<1>9. /\ pc[p] \notin {"dirty", "ind", "nbdw", "dwrite"}
      /\ flags' = [flags EXCEPT ![b] = flags[b] \ {"WANTED", "BUSY", "ASYNC"}]
      /\ b \notin Elems(queue)
      /\ \A a \in Buf : assoc'[a] = assoc[a]
  BY <1>1, <1>2, <1>3
<1> QED
  BY <1>1, <1>4, <1>5, <1>6, <1>7, <1>8, <1>9, ReleaseStore

-----------------------------------------------------------------------------
(* The actions that start a transfer. *)

\* A buffer that has not been read is not a delayed write.
LEMMA NotRead ==
    ASSUME StoreInv, NEW b \in Buf, "DONE" \notin flags[b]
    PROVE  "DELWRI" \notin flags[b]
BY DEF StoreInv, DataOK

\* A process that is to read its buffer has not the contents yet.
LEMMA NotValid ==
    ASSUME StoreInv, NEW p \in Proc, NEW b \in Buf, b = bp[p],
           pc[p] \in {"bread", "breada1", "breada2"}, "DONE" \notin flags[b]
    PROVE  ~Valid(b)
<1>0. Inv /\ TypeOK /\ ProcInv(p) /\ NoBuf \notin Buf
  BY BufAssumption DEF StoreInv, Inv
<1>1. b \notin Elems(queue) /\ b \in Held(p)
  BY <1>0 DEF ProcInv, InHand, InTransfer, GetblkRet, Held
<1>2. \A q \in Proc : q # p => b \notin Held(q)
  BY <1>0, <1>1, HeldAlone
<1>3. \A q \in Proc : bp[q] = b => q = p
  BY <1>0, <1>2 DEF Held
<1> QED
  BY <1>1, <1>3 DEF Valid

\* breada and bread read the block, when it has not been read already; the
\* first keeps the buffer aside.
LEMMA ReadStore ==
    ASSUME StoreInv, Inv', NEW p \in Proc, Bread(p) \/ Breada1(p)
    PROVE  StoreInv' /\ StoreStep
<1>0. /\ Inv /\ TypeOK /\ ProcInv(p) /\ HandInv(p) /\ Hands(p) /\ NoBuf \notin Buf
      /\ freelist \in Seq(Buf)
  BY HandsNow, BufAssumption DEF StoreInv, Inv, TypeOK
<1>1. /\ pc[p] \in {"bread", "breada1"} /\ pc'[p] \in {"held", "iowait", "ahead"}
      /\ OnlyMoves(p) /\ arg'[p] = arg[p]
      /\ \/ pc[p] = "bread" /\ UNCHANGED <<bp, rbp>>
         \/ pc[p] = "breada1" /\ bp'[p] = NoBuf /\ rbp'[p] = bp[p]
      /\ UNCHANGED <<data, disk>>
      /\ IF "DONE" \in flags[bp[p]]
         THEN UNCHANGED <<flags, assoc, queue, io>>
         ELSE Rkstrategy(bp[p], flags[bp[p]] \cup {"READ"}, freelist)
  <2>1. CASE Bread(p)
    BY <1>0, <2>1 DEF Bread, bufvars, devvars, argvars, ownvars, TypeOK, OnlyMoves
  <2>2. CASE Breada1(p)
    BY <1>0, <2>2 DEF Breada1, bufvars, devvars, argvars, TypeOK, OnlyMoves
  <2> QED
    BY <2>1, <2>2
<1>2. /\ bp[p] \in Buf /\ rbp[p] = NoBuf /\ bp[p] \notin Elems(queue)
      /\ assoc[bp[p]] # Nodev
  BY <1>0, <1>1 DEF ProcInv, InHand, InTransfer, InBmap, InBreada, GetblkRet, TypeOK
<1>3. PICK b \in Buf : b = bp[p]
  BY <1>2
<1>4. Held(p)' = Held(p)
  BY <1>1, <1>2 DEF Held
<1>5. ~Writing(p) /\ ~Writing(p)' /\ Writing(p)' = Writing(p)
  BY <1>1 DEF Writing
<1>6. CASE "DONE" \in flags[b]
  <2>1. HandInv(p)'
    BY <1>0, <1>1, <1>3, <1>6 DEF HandInv, InBmap, AtGetblk
  <2> QED
    BY <1>1, <1>3, <1>4, <1>6, <2>1, QuietStore DEF Like, Writers
<1>7. CASE "DONE" \notin flags[b]
  <2>1. PICK f \in SUBSET Flags : f = flags[b] \cup {"READ"}
    BY <1>0 DEF TypeOK, Flags
  <2>2. "DONE" \notin f /\ "DELWRI" \notin f
    BY <1>7, <2>1, NotRead
  <2>3. ~Valid(b)
    BY <1>1, <1>3, <1>7, NotValid
  <2>4. b \in Held(p) /\ \A q \in Proc : q # p => b \notin Held(q)
    BY <1>0, <1>3, HeldAlone DEF Held
  <2>5. Rkstrategy(b, f, freelist)
    BY <1>1, <1>3, <1>7, <2>1
  <2>6. Starts(p, b, f, freelist)
    BY <1>1, <1>2, <1>3, <2>1, <2>2, <2>3, <2>4, <2>5 DEF Starts
  <2>7. \A a \in Buf : /\ ~ValidHand(p, a)' /\ ~ValidHand(p, a)
                       /\ ~DirtyHand(p, a)
    BY <1>0, <1>1, <1>2 DEF ValidHand, DirtyHand
  <2>8. HandInv(p)'
    <3>1. \A a \in Buf : a # b => assoc'[a] = assoc[a]
      BY <1>0, <1>2, <1>3, <2>5, <2>6, StartEffect DEF Starts
    <3>2. arg[p] # NoBuf => arg[p] \in Buf /\ arg[p] # b
      BY <1>0, <1>2, <1>3 DEF Hands, TypeOK
    <3> QED
      BY <1>0, <1>1, <3>1, <3>2 DEF HandInv, InBmap, AtGetblk
  <2>9. /\ StoreInv' /\ Framed(p, b)
        /\ \A k \in Blk : Share(b, k)' = Share(b, k)
        /\ \A k \in Blk : assoc'[b] = k <=> assoc[b] = k
        /\ \A a \in Buf : a # b => assoc'[a] = assoc[a]
    BY <1>0, <2>6, <2>7, <2>8, StartStore
  <2> QED
    BY <1>4, <1>5, <2>9, StartKept
<1> QED
  BY <1>6, <1>7

\* breada starts the read-ahead, or finds it read already.
LEMMA Breada2Store ==
    ASSUME StoreInv, Inv', NEW p \in Proc, Breada2(p)
    PROVE  StoreInv' /\ StoreStep
<1>0. /\ Inv /\ TypeOK /\ ProcInv(p) /\ HandInv(p) /\ Hands(p) /\ NoBuf \notin Buf
      /\ freelist \in Seq(Buf)
  BY HandsNow, BufAssumption DEF StoreInv, Inv, TypeOK
<1>1. /\ pc[p] = "breada2" /\ pc'[p] = "main"
      /\ OnlyMoves(p) /\ arg'[p] = arg[p] /\ bp'[p] = NoBuf /\ rbp' = rbp
      /\ UNCHANGED <<data, disk>>
  BY <1>0 DEF Breada2, argvars, TypeOK, OnlyMoves
<1>2. /\ bp[p] \in Buf /\ bp[p] \notin Elems(queue) /\ assoc[bp[p]] # Nodev
  BY <1>0, <1>1 DEF ProcInv, InHand, InTransfer, GetblkRet, TypeOK
<1>3. PICK b \in Buf : b = bp[p]
  BY <1>2
<1>4. Held(p)' = Held(p) \ {b} /\ b \in Held(p)
  BY <1>0, <1>1, <1>3 DEF Held, Hands
<1>5. /\ ~Writing(p) /\ ~Writing(p)'
      /\ Writing(p)' = IF assoc[b] \in Blk
                       THEN Writing(p) /\ \E j \in Blk \ {assoc[b]} : Has(p, j)
                       ELSE Writing(p)
  BY <1>1 DEF Writing
<1>6. \A a \in Buf : /\ ~ValidHand(p, a)' /\ ~ValidHand(p, a)
                     /\ ~DirtyHand(p, a)
  BY <1>0, <1>1 DEF ValidHand, DirtyHand
<1>7. arg[p] # NoBuf => arg[p] \in Buf /\ arg[p] # b
  BY <1>0, <1>2, <1>3 DEF Hands, TypeOK
<1>8. (\A a \in Buf : a # b => assoc'[a] = assoc[a]) => HandInv(p)'
  BY <1>0, <1>1, <1>7 DEF HandInv, InBmap, AtGetblk
<1>9. CASE "DONE" \in flags[b]
  <2>1. Brelse(b, flags[b], freelist) /\ UNCHANGED <<queue, io>> /\ flags[b] \in SUBSET Flags
    BY <1>0, <1>3, <1>9 DEF Breada2, devvars, TypeOK
  <2>2. /\ flags' = [flags EXCEPT ![b] = flags[b] \ {"WANTED", "BUSY", "ASYNC"}]
        /\ \A a \in Buf : a # b => flags'[a] = flags[a] /\ assoc'[a] = assoc[a]
        /\ assoc'[b] = assoc[b] \/ (assoc[b] \notin Blk /\ assoc'[b] = Nodev)
    BY <2>1, BrelseStore
  <2>3. HandInv(p)' /\ pc[p] \notin {"dirty", "ind", "nbdw", "dwrite"}
    BY <1>1, <1>8, <2>2
  <2> QED
    BY <1>1, <1>2, <1>3, <1>4, <1>5, <1>6, <2>1, <2>2, <2>3, ReleaseStore
<1>10. CASE "DONE" \notin flags[b]
  <2>1. PICK f \in SUBSET Flags : f = flags[b] \cup {"READ", "ASYNC"}
    BY <1>0 DEF TypeOK, Flags
  <2>2. "DONE" \notin f /\ "DELWRI" \notin f
    BY <1>10, <2>1, NotRead
  <2>3. ~Valid(b)
    BY <1>1, <1>3, <1>10, NotValid
  <2>4. \A q \in Proc : q # p => b \notin Held(q)
    BY <1>0, <1>4, HeldAlone
  <2>5. Rkstrategy(b, f, freelist)
    BY <1>3, <1>10, <2>1 DEF Breada2
  <2>6. Starts(p, b, f, freelist)
    BY <1>1, <1>2, <1>3, <2>1, <2>2, <2>3, <2>4, <2>5 DEF Starts
  <2>7. \A a \in Buf : a # b => assoc'[a] = assoc[a]
    BY <1>0, <1>2, <1>3, <2>5, <2>6, StartEffect DEF Starts
  <2>8. /\ StoreInv' /\ Framed(p, b)
        /\ \A k \in Blk : Share(b, k)' = Share(b, k)
    BY <1>0, <1>6, <1>8, <2>6, <2>7, StartStore
  <2> QED
    BY <1>4, <1>5, <2>7, <2>8, GiveStore
<1> QED
  BY <1>9, <1>10

\* What bwrite does to the flags.
LEMMA WriteFlags ==
    ASSUME NEW g \in SUBSET Flags, NEW p, NEW b \in Buf, NEW fl, BwriteStart(b, g, fl)
    PROVE  \E f \in SUBSET Flags : /\ Rkstrategy(b, f, fl)
                                   /\ {"READ", "DONE", "ERROR", "DELWRI"} \cap f = {}
<1>1. /\ g \ {"READ", "DONE", "ERROR", "DELWRI"} \in SUBSET Flags
      /\ {"READ", "DONE", "ERROR", "DELWRI"} \cap (g \ {"READ", "DONE", "ERROR", "DELWRI"}) = {}
  OBVIOUS
<1> QED
  BY <1>1 DEF BwriteStart

\* bwrite and bawrite start writing the block: the first keeps the buffer.
LEMMA WriteStore ==
    ASSUME StoreInv, Inv', NEW p \in Proc, Bwrite(p) \/ Bawrite(p)
    PROVE  StoreInv' /\ StoreStep
<1>0. /\ Inv /\ TypeOK /\ ProcInv(p) /\ HandInv(p) /\ Hands(p) /\ NoBuf \notin Buf
      /\ freelist \in Seq(Buf)
  BY HandsNow, BufAssumption DEF StoreInv, Inv, TypeOK
<1>1. /\ pc[p] = "dirty" /\ UNCHANGED <<data, disk, rbp, arg>>
      /\ \/ Bwrite(p) /\ pc'[p] = "bwait" /\ bp' = bp /\ OnlyMoves(p)
         \/ /\ Bawrite(p) /\ Finish(p) /\ bp'[p] = NoBuf
            /\ \A q \in Proc : q # p => bp'[q] = bp[q]
  BY <1>0 DEF Bwrite, Bawrite, argvars, ownvars, TypeOK, OnlyMoves
<1>2. /\ bp[p] \in Buf /\ rbp[p] = NoBuf /\ bp[p] \notin Elems(queue)
      /\ assoc[bp[p]] # Nodev
  BY <1>0, <1>1 DEF ProcInv, InHand, InTransfer, InBmap, InBreada, TypeOK
<1>3. PICK b \in Buf : b = bp[p]
  BY <1>2
<1>4. PICK f \in SUBSET Flags :
          /\ Rkstrategy(b, f, freelist)
          /\ {"READ", "DONE", "ERROR", "DELWRI"} \cap f = {}
  <2>1. flags[b] \in SUBSET Flags /\ flags[b] \cup {"ASYNC"} \in SUBSET Flags
    BY <1>0 DEF TypeOK, Flags
  <2>2. BwriteStart(b, flags[b], freelist) \/ BwriteStart(b, flags[b] \cup {"ASYNC"}, freelist)
    BY <1>1, <1>3 DEF Bwrite, Bawrite
  <2> QED
    BY <2>1, <2>2, WriteFlags
<1>5. Valid(b)
  BY <1>1, <1>3 DEF Valid
<1>6. b \in Held(p) /\ \A q \in Proc : q # p => b \notin Held(q)
  BY <1>0, <1>3, HeldAlone DEF Held
<1>7. \A a \in Buf : a # b => assoc'[a] = assoc[a]
  BY <1>1, <1>2, <1>3, <1>4, <1>0, StartEffect
<1>8. arg[p] # NoBuf => arg[p] \in Buf /\ arg[p] # b
  BY <1>0, <1>2, <1>3 DEF Hands, TypeOK
<1>9. \A a \in Buf : a # b => /\ ~ValidHand(p, a)
                              /\ ~DirtyHand(p, a)
  BY <1>0, <1>1, <1>2, <1>3 DEF ValidHand, DirtyHand
<1>10. CASE Bwrite(p)
  <2>1. pc'[p] = "bwait" /\ bp' = bp /\ OnlyMoves(p)
    BY <1>0, <1>1, <1>10 DEF Bwrite, argvars, ownvars, TypeOK, OnlyMoves
  <2>2. HandInv(p)'
    BY <1>0, <1>1, <1>7, <1>8, <2>1 DEF HandInv, InBmap, AtGetblk
  <2>3. Starts(p, b, f, freelist)
    BY <1>1, <1>2, <1>3, <1>4, <1>5, <1>6, <2>1 DEF Starts
  <2>4. \A a \in Buf : ~ValidHand(p, a)'
    BY <2>1 DEF ValidHand
  <2>5. /\ StoreInv' /\ Framed(p, b)
        /\ \A k \in Blk : Share(b, k)' = Share(b, k)
        /\ \A k \in Blk : assoc'[b] = k <=> assoc[b] = k
    BY <1>0, <1>9, <2>2, <2>3, <2>4, StartStore
  <2>6. Held(p)' = Held(p)
    BY <1>1, <2>1 DEF Held
  <2>7. Writing(p)' = Writing(p)
    BY <1>1, <1>3, <2>1, <2>5 DEF Writing
  <2> QED
    BY <1>7, <2>5, <2>6, <2>7, StartKept
<1>11. CASE Bawrite(p)
  <2>1. Finish(p) /\ bp'[p] = NoBuf /\ \A q \in Proc : q # p => bp'[q] = bp[q]
    BY <1>0, <1>11 DEF Bawrite, TypeOK
  <2>2. /\ OnlyMoves(p) /\ pc'[p] \in {"user", "inexec"}
        /\ Held(p)' = Held(p) \ {b} /\ HandInv(p)'
        /\ Writing(p)' = IF assoc[b] \in Blk
                         THEN Writing(p) /\ \E j \in Blk \ {assoc[b]} : Has(p, j)
                         ELSE Writing(p)
    BY <1>0, <1>1, <1>2, <1>3, <1>7, <2>1, FinishStore
  <2>3. Starts(p, b, f, freelist)
    BY <1>1, <1>2, <1>3, <1>4, <1>5, <1>6, <2>2 DEF Starts
  <2>4. \A a \in Buf : ~ValidHand(p, a)'
    BY <2>2 DEF ValidHand
  <2>5. /\ StoreInv' /\ Framed(p, b)
        /\ \A k \in Blk : Share(b, k)' = Share(b, k)
    BY <1>0, <1>9, <2>2, <2>3, <2>4, StartStore
  <2> QED
    BY <1>6, <1>7, <2>2, <2>5, GiveStore
<1> QED
  BY <1>10, <1>11

\* getblk and bflush start a delayed write of a buffer nobody has.
LEMMA DelayedStore ==
    ASSUME StoreInv, Inv', NEW p \in Proc, GetblkDelwri(p) \/ Bflush(p)
    PROVE  StoreInv' /\ StoreStep
<1>0. /\ Inv /\ TypeOK /\ ProcInv(p) /\ HandInv(p) /\ NoBuf \notin Buf
      /\ freelist \in Seq(Buf) /\ Distinct(freelist)
  BY BufAssumption DEF StoreInv, Inv, TypeOK, ListInv
<1>1. /\ pc[p] \in {"getblk", "bflush"}
      /\ UNCHANGED <<data, disk, pc, want, ret, blkno, bp, rbp, arg>>
  BY DEF GetblkDelwri, Bflush, argvars, ownvars
<1>2. PICK b \in Buf, fl \in Seq(Buf) :
          /\ b \in Elems(freelist) /\ "DELWRI" \in flags[b]
          /\ BwriteStart(b, flags[b] \cup {"BUSY", "ASYNC"}, fl)
  <2>1. CASE GetblkDelwri(p)
    BY <1>0, <2>1, TailElems DEF GetblkDelwri
  <2>2. CASE Bflush(p)
    <3>1. PICK i \in Delayed :
              BwriteStart(freelist[i], flags[freelist[i]] \cup {"BUSY", "ASYNC"},
                          Unlink(freelist, freelist[i]))
      BY <2>2 DEF Bflush
    <3>2. i \in 1..Len(freelist) /\ "DELWRI" \in flags[freelist[i]]
      BY <3>1 DEF Delayed
    <3>3. freelist[i] \in Elems(freelist) /\ freelist[i] \in Buf
      BY <1>0, <3>2 DEF Elems
    <3>4. Unlink(freelist, freelist[i]) \in Seq(Buf)
      BY <1>0, <3>3, UnlinkElems
    <3> QED
      BY <3>1, <3>2, <3>3, <3>4
  <2> QED
    BY <2>1, <2>2
<1>3. BufOK(b) /\ DataOK(b)
  BY <1>0, BufOKs DEF StoreInv
<1>4. /\ b \notin Elems(queue) /\ \A q \in Proc : b \notin Held(q)
      /\ assoc[b] \in Blk /\ assoc[b] # Nodev /\ Valid(b)
  BY <1>2, <1>3, BufAssumption DEF BufOK, DataOK, Valid
<1>5. PICK f \in SUBSET Flags :
          /\ Rkstrategy(b, f, fl)
          /\ {"READ", "DONE", "ERROR", "DELWRI"} \cap f = {}
  <2>1. flags[b] \cup {"BUSY", "ASYNC"} \in SUBSET Flags
    BY <1>0 DEF TypeOK, Flags
  <2> QED
    BY <1>2, <2>1, WriteFlags
<1>6. \A a \in Buf : a # b => flags'[a] = flags[a] /\ assoc'[a] = assoc[a]
  BY <1>1, <1>4, <1>5, StartEffect
<1>7. OnlyMoves(p) /\ Held(p)' = Held(p)
  BY <1>1 DEF OnlyMoves, Held
<1>8. Starts(p, b, f, fl)
  BY <1>1, <1>4, <1>5, <1>7 DEF Starts
<1>9. \A a \in Buf : ~ValidHand(p, a)' /\ ~ValidHand(p, a) /\ ~DirtyHand(p, a)
  BY <1>1 DEF ValidHand, DirtyHand
<1>10. HandInv(p)'
  <2>1. \A a \in Held(p) : a \in Buf /\ a # b
    BY <1>0, <1>4, HeldIn
  <2>2. /\ rbp[p] # NoBuf => flags'[rbp[p]] = flags[rbp[p]] /\ assoc'[rbp[p]] = assoc[rbp[p]]
        /\ arg[p] # NoBuf => assoc'[arg[p]] = assoc[arg[p]]
    BY <1>6, <2>1 DEF Held
  <2> QED
    BY <1>0, <1>1, <2>2 DEF HandInv, InBmap, AtGetblk, ProcInv
<1>11. /\ StoreInv' /\ Framed(p, b)
       /\ \A k \in Blk : Share(b, k)' = Share(b, k)
       /\ \A k \in Blk : assoc'[b] = k <=> assoc[b] = k
  BY <1>0, <1>8, <1>9, <1>10, StartStore
<1>12. Writing(p)' = Writing(p)
  BY <1>1 DEF Writing
<1> QED
  BY <1>6, <1>7, <1>11, <1>12, StartKept

-----------------------------------------------------------------------------
(* The interrupt, and the theorem. *)

\* The interrupt: the block is read, or the disk has it.
LEMMA DiskIntrStore ==
    ASSUME StoreInv, Inv', DiskIntr
    PROVE  StoreInv' /\ StoreStep
<1>0. Inv /\ TypeOK /\ ListInv /\ FlagInv /\ OneBufferPerBlock /\ IoInv /\ Inv'
  BY DEF StoreInv, Inv
<1>h. PICK b \in Buf : b = Head(queue)
  BY <1>0, TailElems DEF DiskIntr, ListInv, TypeOK
<1>1. /\ io # NoIO /\ queue # <<>> /\ queue \in Seq(Buf)
      /\ b \in Elems(queue) /\ Tail(queue) \in Seq(Buf)
      /\ Elems(Tail(queue)) = Elems(queue) \ {b}
  BY <1>0, <1>h, TailElems DEF DiskIntr, ListInv, TypeOK
<1>2. /\ "DONE" \notin flags[b] /\ assoc[b] \in Blk
      /\ "DELWRI" \notin flags[b] /\ "ERROR" \notin flags[b]
  BY <1>0, <1>1, NotRead DEF ListInv, FlagInv
<1>3. /\ io.buf = b /\ io.blk = assoc[b] /\ (io.read <=> "READ" \in flags[b])
      /\ ~io.read => io.val = data[b]
  BY <1>0, <1>1, <1>h DEF IoInv
<1>4. /\ UNCHANGED <<pc, want, ret, blkno, bp, rbp, arg>>
      /\ queue' = Tail(queue)
      /\ io' = IF Tail(queue) = <<>> THEN NoIO
               ELSE Devstart(Head(Tail(queue)), flags[Head(Tail(queue))])
      /\ Iodone(b, flags[b], freelist)
      /\ io.read => disk' = disk /\ data' = [data EXCEPT ![b] = disk[assoc[b]]]
      /\ ~io.read => data' = data /\ disk' = [disk EXCEPT ![assoc[b]] = data[b]]
  BY <1>3, <1>h DEF DiskIntr, argvars, ownvars
<1>5. /\ assoc' = assoc /\ \A a \in Buf : a # b => flags'[a] = flags[a]
      /\ "DONE" \in flags'[b] /\ "DELWRI" \notin flags'[b]
  <2>1. flags[b] \in SUBSET Flags /\ freelist \in Seq(Buf)
    BY <1>0, <1>1 DEF TypeOK
  <2>2. CASE "ASYNC" \in flags[b]
    <3>1. /\ flags' = [flags EXCEPT ![b] =
                          (flags[b] \cup {"DONE"}) \ {"WANTED", "BUSY", "ASYNC"}]
          /\ assoc' = [assoc EXCEPT ![b] = IF "ERROR" \in flags[b] THEN Nodev ELSE @]
      BY <1>0, <1>1, <1>4, <2>1, <2>2, IodoneEffect
    <3> QED
      BY <1>0, <1>1, <1>2, <3>1 DEF TypeOK
  <2>3. CASE "ASYNC" \notin flags[b]
    <3>1. /\ flags' = [flags EXCEPT ![b] = (flags[b] \cup {"DONE"}) \ {"WANTED"}]
          /\ assoc' = assoc
      BY <1>0, <1>1, <1>4, <2>1, <2>3, IodoneEffect
    <3> QED
      BY <1>0, <1>1, <1>2, <3>1 DEF TypeOK
  <2> QED
    BY <2>2, <2>3
<1>6. /\ \A a \in Buf : a # b => data'[a] = data[a]
      /\ data'[b] = disk'[assoc[b]]
      /\ data'[b] = IF "READ" \in flags[b] THEN disk[assoc[b]] ELSE data[b]
      /\ \A k \in Blk : k # assoc[b] => disk'[k] = disk[k]
      /\ "READ" \in flags[b] => disk' = disk
  BY <1>0, <1>1, <1>2, <1>3, <1>4 DEF TypeOK
<1>7. \A a \in Buf : a # b => (a \in Elems(queue') <=> a \in Elems(queue))
  BY <1>1, <1>4
<1>8. /\ Valid(b)'
      /\ \A a \in Buf : a # b => (Valid(a)' <=> Valid(a))
      /\ \A a \in Buf : Dirty(a)' <=> Dirty(a)
  <2>1. Valid(b)'
    BY <1>5 DEF Valid
  <2>2. \A a \in Buf : a # b => (Valid(a)' <=> Valid(a))
    BY <1>4, <1>5, <1>7 DEF Valid
  <2>3. \A a \in Buf : Dirty(a)' <=> Dirty(a)
    BY <1>4 DEF Dirty
  <2> QED
    BY <2>1, <2>2, <2>3
<1>9. Valid(b) <=> "READ" \notin flags[b]
  <2>1. \A p \in Proc : ~(bp[p] = b /\ pc[p] \in {"dirty", "ind", "nbdw"})
    BY <1>0, <1>1 DEF Inv, ProcInv, InHand, InTransfer
  <2> QED
    BY <1>1, <1>2, <2>1 DEF Valid
<1>10. \A a \in Buf : DataOK(a)'
  <2>1. DataOK(b)'
    BY <1>2, <1>5, <1>6, BufAssumption DEF DataOK
  <2>2. ASSUME NEW a \in Buf, a # b
        PROVE  DataOK(a)'
    <3>1. DataOK(a)
      BY DEF StoreInv
    <3>2. assoc[a] \in Blk => assoc[a] # assoc[b]
      BY <1>0, <1>1, <2>2, BufAssumption DEF OneBufferPerBlock
    <3> QED
      BY <1>5, <1>6, <1>8, <2>2, <3>1, <3>2 DEF DataOK
  <2> QED
    BY <2>1, <2>2
<1>11. IoInv'
  <2>1. CASE Tail(queue) = <<>>
    BY <1>4, <2>1 DEF IoInv
  <2>2. CASE Tail(queue) # <<>>
    <3>1. PICK a \in Buf : a = Head(Tail(queue)) /\ a # b
      BY <1>1, <2>2, TailElems
    <3>2. io' = [buf |-> a, blk |-> assoc[a], read |-> "READ" \in flags[a], val |-> data[a]]
      BY <1>4, <2>2, <3>1 DEF Devstart
    <3>3. Head(queue') = a /\ flags'[a] = flags[a] /\ assoc'[a] = assoc[a] /\ data'[a] = data[a]
      BY <1>4, <1>5, <1>6, <3>1
    <3> QED
      BY <3>2, <3>3 DEF IoInv
  <2> QED
    BY <2>1, <2>2
<1>12. \A p \in Proc : HandInv(p)'
  <2>1. \A a \in Buf : "DONE" \in flags[a] => "DONE" \in flags'[a]
    BY <1>5
  <2>2. \A p \in Proc : HandInv(p) /\ ProcInv(p)
    BY <1>0 DEF StoreInv, Inv
  <2>3. \A p \in Proc : /\ InBmap(p) => rbp[p] \in Buf
                        /\ pc[p] = "dwrite" => bp[p] \in Buf
    BY <1>0, <2>2 DEF ProcInv, InHand, TypeOK
  <2> QED
    BY <1>4, <1>5, <2>1, <2>2, <2>3 DEF HandInv, InBmap, AtGetblk
<1>13. StoreInv'
  BY <1>0, <1>10, <1>11, <1>12 DEF StoreInv
<1>14. ASSUME NEW k \in Blk
       PROVE  Contents(k)' = Contents(k)
  <2>0. OneBufferPerBlock' /\ Nodev \notin Blk
    BY <1>0, BufAssumption DEF Inv
  <2>1. CASE assoc[b] = k
    <3>1. Contents(k)' = data'[b]
      BY <1>1, <1>5, <1>8, <2>0, <2>1, ContentsNext
    <3>2. CASE "READ" \in flags[b]
      <4>1. \A a \in Buf : ~(assoc[a] = k /\ Valid(a))
        BY <1>0, <1>1, <1>9, <2>0, <2>1, <3>2 DEF OneBufferPerBlock
      <4>2. Contents(k) = disk[k]
        BY <1>0, <2>0, <4>1, ContentsNow
      <4> QED
        BY <1>6, <2>1, <3>1, <3>2, <4>2
    <3>3. CASE "READ" \notin flags[b]
      <4>1. Contents(k) = data[b]
        BY <1>0, <1>1, <1>9, <2>0, <2>1, <3>3, ContentsNow
      <4> QED
        BY <1>6, <3>1, <3>3, <4>1
    <3> QED
      BY <3>2, <3>3
  <2>2. CASE assoc[b] # k
    <3>1. disk'[k] = disk[k]
      BY <1>6, <2>2
    <3>2. CASE \E a \in Buf : assoc[a] = k /\ Valid(a)
      <4>1. PICK a \in Buf : assoc[a] = k /\ Valid(a)
        BY <3>2
      <4>2. Contents(k) = data[a]
        BY <1>0, <2>0, <4>1, ContentsNow
      <4>3. a # b /\ assoc'[a] = k /\ Valid(a)' /\ data'[a] = data[a]
        BY <1>5, <1>6, <1>8, <2>2, <4>1
      <4>4. Contents(k)' = data'[a]
        BY <2>0, <4>3, ContentsNext
      <4> QED
        BY <4>2, <4>3, <4>4
    <3>3. CASE \A a \in Buf : ~(assoc[a] = k /\ Valid(a))
      <4>1. Contents(k) = disk[k]
        BY <1>0, <2>0, <3>3, ContentsNow
      <4>2. \A a \in Buf : ~(assoc'[a] = k /\ Valid(a)')
        BY <1>5, <1>8, <2>2, <3>3
      <4>3. Contents(k)' = disk'[k]
        BY <2>0, <4>2, ContentsNext
      <4> QED
        BY <3>1, <4>1, <4>3
    <3> QED
      BY <3>2, <3>3
  <2> QED
    BY <2>1, <2>2
<1>15. \A q \in Proc : Writing(q)' = Writing(q) /\ \A k \in Blk : Has(q, k)' <=> Has(q, k)
  BY <1>4, <1>5 DEF Writing, Has, Held
<1>16. \A k \in Blk : Holder(k)' = Holder(k)
  BY <1>0, <1>15, HolderKept
<1> QED
  BY <1>13, <1>14, <1>15, <1>16, SameStep

\* Init establishes the invariant, and is an initial state of the store.
LEMMA InitStore ==
    ASSUME Init
    PROVE  StoreInv /\ Store!Init
<1>1. Inv
  BY InitInv
<1>2. /\ flags = [b \in Buf |-> {}] /\ io = NoIO /\ disk \in [Blk -> Val] /\ queue = <<>>
      /\ \A p \in Proc : pc[p] = "user" /\ bp[p] = NoBuf /\ rbp[p] = NoBuf /\ arg[p] = NoBuf
  BY DEF Init
<1>3. StoreInv
  BY <1>1, <1>2 DEF StoreInv, IoInv, DataOK, HandInv, InBmap, AtGetblk
<1>4. \A b \in Buf : ~Valid(b)
  BY <1>2 DEF Valid, Elems
<1>5. \A k \in Blk : Contents(k) = disk[k]
  BY <1>4 DEF Contents
<1>6. \A k \in Blk : Holder(k) = NoProc
  BY <1>2 DEF Holder, Held
<1>7. \A p \in Proc : Writing(p) = FALSE
  BY <1>2 DEF Writing
<1> QED
  BY <1>2, <1>3, <1>5, <1>6, <1>7 DEF Store!Init

\* Every step keeps the invariant and is a step of the store, or shows nothing.
LEMMA NextStore ==
    ASSUME StoreInv, [Next]_vars
    PROVE  StoreInv' /\ StoreStep
<1>0. Inv'
  BY NextInv DEF StoreInv
<1>1. CASE UNCHANGED vars
  <2>1. UNCHANGED <<flags, assoc, data, queue, io, disk, pc, want, ret, blkno, bp, rbp, arg>>
    BY <1>1 DEF vars
  <2>2. StoreInv'
    BY <1>0, <2>1 DEF StoreInv, IoInv, DataOK, Dirty, HandInv, InBmap, AtGetblk
  <2>3. /\ \A k \in Blk : Contents(k)' = Contents(k) /\ Holder(k)' = Holder(k)
        /\ \A q \in Proc : Writing(q)' = Writing(q)
    BY <2>1 DEF Contents, Holder, Writing, Valid, Held
  <2> QED
    BY <2>2, <2>3, SameStep
<1>2. ASSUME NEW p \in Proc, Step(p)
      PROVE  StoreInv' /\ StoreStep
  <2>1. CASE Getblk(p)
    BY <1>0, <2>1, WaitStore, GetblkTakeStore, DelayedStore DEF Getblk
  <2>2. CASE \/ Bread(p) \/ Iowait(p)
             \/ Breada(p) \/ Breada1(p) \/ Ahead(p) \/ Breada2(p) \/ BreadaMain(p)
    BY <1>0, <2>2, ReadStore, IowaitStore, BreadaTurns, Breada2Store
  <2>3. CASE \/ \E v \in Val : Modify(p, v)
             \/ ReleaseClean(p) \/ Bwrite(p) \/ BwriteWait(p) \/ Bawrite(p) \/ Bdwrite(p)
    BY <1>0, <2>3, ModifyStore, BrelseEnds, WriteStore, BwriteWaitStore
  <2>4. CASE \/ \E k \in Blk : BmapAlloc(p, k)
             \/ AllocClrbuf(p) \/ (\E v \in Val : BmapIndirect(p, v)) \/ BmapBdwrite(p)
    BY <1>0, <2>4, BmapAllocStore, AllocClrbufStore, BmapIndirectStore, BmapBdwriteStore
  <2>5. CASE Bflush(p) \/ BflushEnd(p) \/ ExecEnter(p) \/ ExecArgs(p)
    BY <1>0, <2>5, DelayedStore, BflushEndStore, ExecEnterStore, ExecArgsStore
  <2> QED
    BY <1>2, <2>1, <2>2, <2>3, <2>4, <2>5 DEF Step
<1> QED
  BY <1>0, <1>1, <1>2, BeginStore, WaitStore, ExecEndStore, DiskIntrStore DEF Next

\* The invariant of the contents holds in every reachable state.
THEOREM StoreInvariance == Spec => []StoreInv
<1>1. Init => StoreInv
  BY InitStore
<1>2. StoreInv /\ [Next]_vars => StoreInv'
  BY NextStore
<1> QED
  BY <1>1, <1>2, PTL DEF Spec

\* Refinement: every behaviour of the cache is one of the block store, in which
\* a block has one contents that only the process that has it changes.
THEOREM ImplementsBlockStore == Spec => ImplementsStore
<1>1. Init => Store!Init
  BY InitStore
<1>2. StoreInv /\ [Next]_vars => StoreStep
  BY NextStore
<1> QED
  BY <1>1, <1>2, StoreInvariance, PTL DEF Spec, ImplementsStore, Store!Spec, StoreStep
=============================================================================
