-------------------------------- MODULE Pipe --------------------------------
(***************************************************************************)
(* A pipe (ken/pipe.c): an unlinked file that readers and writers share,   *)
(* with a lock on its inode, and the closing of its ends (ken/fio.c,       *)
(* ken/iget.c).  The processes of one end share one file structure, as     *)
(* they do after fork.                                                     *)
(*                                                                         *)
(* A step is the code between two places where the process may sleep:      *)
(* plock, the waits for data and for room, and the block reads inside      *)
(* readi and writei, during which the pipe stays locked.  A unit is one    *)
(* block of the file.                                                      *)
(***************************************************************************)
EXTENDS Naturals, Sequences, FiniteSets

CONSTANTS
    Reader, Writer, \* the processes that have the read or the write end
    PIPSIZ,         \* capacity
    MaxWrite,       \* bound: units in one write call
    MaxUnits,       \* bound: units asked to be written in all
    MaxSig          \* bound: signals sent in all

ASSUME PipeAssumption ==
    /\ Reader \cap Writer = {}
    /\ IsFiniteSet(Reader \cup Writer)
    /\ PIPSIZ \in Nat \ {0}
    /\ MaxWrite \in Nat \ {0}
    /\ MaxUnits \in Nat /\ MaxSig \in Nat

Proc == Reader \cup Writer

VARIABLES
    lock, want,     \* ILOCK and IWANT of i_flag
    mode,           \* the bits IREAD and IWRITE of i_mode
    icount,         \* i_count
    size,           \* i_size1
    data,           \* the file
    fcount,         \* f_count of the two file structures
    roffset,        \* f_offset[1] of the read end
    pc,             \* where each process is
    wchan,          \* p_wchan: "ip", "ip+1", "ip+2" or "awake"
    sig,            \* is a signal pending?
    offset, count,  \* u_offset, u_count of the transfer
    left,           \* c of writep
    asked, signals, \* units asked to be written, signals sent (for the bounds)
    sent,           \* units written so far: the next unit is sent + 1
    received        \* units handed to the readers

inode == <<lock, want, mode, icount, size, data>>
file == <<fcount, roffset>>
transfer == <<offset, count, left>>
log == <<sent, received>>
vars == <<inode, file, pc, wchan, sig, transfer, asked, signals, log>>

-----------------------------------------------------------------------------
\* The system call returns; trap handles a pending signal.
Return(p) ==
    /\ pc' = [pc EXCEPT ![p] = "user"]
    /\ sig' = [sig EXCEPT ![p] = FALSE]
    /\ offset' = [offset EXCEPT ![p] = 0]
    /\ count' = [count EXCEPT ![p] = 0]
    /\ left' = [left EXCEPT ![p] = 0]

\* wakeup of every channel in C, then sleep(c, PPIPE) of p: a pending signal
\* ends the call at once, as u_qsav is resumed.
Wake(C) == [q \in Proc |-> IF wchan[q] \in C THEN "awake" ELSE wchan[q]]
SleepOn(p, c, C) ==
    IF sig[p]
    THEN Return(p) /\ wchan' = Wake(C)
    ELSE /\ pc' = [pc EXCEPT ![p] = IF p \in Reader THEN "rsleep" ELSE "wsleep"]
         /\ wchan' = [Wake(C) EXCEPT ![p] = c]
         /\ UNCHANGED <<sig, transfer>>

\* p is at the top of readp or writep, at first or after a sleep.
AtLoop(p) ==
    \/ pc[p] \in {"readp", "writep"}
    \/ pc[p] \in {"rsleep", "wsleep"} /\ wchan[p] = "awake" /\ ~sig[p]

\* Mutant of prele: IWANT is cleared but nobody is woken.
PreleQuiet == [lock |-> FALSE, want |-> FALSE, wakes |-> {}]

\* prele: ILOCK and IWANT go off, whoever waited for the lock is woken.
Prele == [lock |-> FALSE, want |-> FALSE, wakes |-> IF want THEN {"ip"} ELSE {}]

\* plock when the pipe is locked: set IWANT and sleep.
Plock(p) ==
    /\ AtLoop(p) /\ lock
    /\ want' = TRUE
    /\ SleepOn(p, "ip", {})
    /\ UNCHANGED <<lock, mode, icount, size, data, file, asked, signals, log>>

\* sleep returns to find a signal: the call ends with EINTR.
Interrupted(p) ==
    /\ pc[p] \in {"rsleep", "wsleep"} /\ wchan[p] = "awake" /\ sig[p]
    /\ Return(p)
    /\ UNCHANGED <<inode, file, wchan, asked, signals, log>>

\* psignal
Psignal(p) ==
    /\ pc[p] \notin {"user", "closed"} /\ signals < MaxSig
    /\ signals' = signals + 1
    /\ sig' = [sig EXCEPT ![p] = TRUE]
    /\ wchan' = [wchan EXCEPT ![p] = "awake"]
    /\ UNCHANGED <<inode, file, pc, transfer, asked, log>>

-----------------------------------------------------------------------------
(* readp *)

ReadCall(p, n) ==
    /\ p \in Reader /\ pc[p] = "user"
    /\ pc' = [pc EXCEPT ![p] = "readp"]
    /\ count' = [count EXCEPT ![p] = n]
    /\ UNCHANGED <<inode, file, wchan, sig, offset, left, asked, signals, log>>

\* Mutant: a full pipe that is emptied does not wake the writers.
ReadpEmptyQuiet(p) ==
    /\ p \in Reader /\ AtLoop(p) /\ ~lock /\ roffset = size
    /\ size' = 0 /\ roffset' = 0
    /\ lock' = Prele.lock /\ want' = Prele.want
    /\ IF icount < 2
       THEN Return(p) /\ wchan' = Wake(Prele.wakes) /\ mode' = mode \ {"IWRITE"}
       ELSE /\ mode' = (mode \ {"IWRITE"}) \cup {"IREAD"}
            /\ SleepOn(p, "ip+2", Prele.wakes)
    /\ UNCHANGED <<icount, data, fcount, asked, signals, log>>

\* The head has caught up with the tail: reset both, wake the writers if one
\* found the pipe full; end of file if the other end is closed, else sleep.
ReadpEmpty(p) ==
    /\ p \in Reader /\ AtLoop(p) /\ ~lock /\ roffset = size
    /\ size' = 0 /\ roffset' = 0
    /\ lock' = Prele.lock /\ want' = Prele.want
    /\ LET full == size # 0 /\ "IWRITE" \in mode
           m == IF full THEN mode \ {"IWRITE"} ELSE mode
           woken == Prele.wakes \cup (IF full THEN {"ip+1"} ELSE {})
       IN  IF icount < 2
           THEN Return(p) /\ wchan' = Wake(woken) /\ mode' = m
           ELSE mode' = m \cup {"IREAD"} /\ SleepOn(p, "ip+2", woken)
    /\ UNCHANGED <<icount, data, fcount, asked, signals, log>>

\* There is something to read: lock the pipe and enter readi.
ReadpStart(p) ==
    /\ p \in Reader /\ AtLoop(p) /\ ~lock /\ roffset < size
    /\ lock' = TRUE
    /\ offset' = [offset EXCEPT ![p] = roffset]
    /\ pc' = [pc EXCEPT ![p] = "readi"]
    /\ UNCHANGED <<want, mode, icount, size, data, file, wchan, sig, count, left,
                   asked, signals, log>>

\* Mutant: the offset is not noted when the pipe is not read to its end.
ReadiForgets(p) ==
    /\ pc[p] = "readi"
    /\ received' = Append(received, data[offset[p] + 1])
    /\ IF count[p] > 1 /\ offset[p] + 1 < size
       THEN /\ offset' = [offset EXCEPT ![p] = @ + 1]
            /\ count' = [count EXCEPT ![p] = @ - 1]
            /\ UNCHANGED <<lock, want, roffset, pc, sig, wchan, left>>
       ELSE /\ roffset' = IF offset[p] + 1 < size THEN roffset ELSE size
            /\ lock' = Prele.lock /\ want' = Prele.want /\ wchan' = Wake(Prele.wakes)
            /\ Return(p)
    /\ UNCHANGED <<mode, icount, size, data, fcount, asked, signals, sent>>

\* readi, the block in core: move it; go on to the next, or note the offset
\* and unlock.
Readi(p) ==
    /\ pc[p] = "readi"
    /\ received' = Append(received, data[offset[p] + 1])
    /\ IF count[p] > 1 /\ offset[p] + 1 < size
       THEN /\ offset' = [offset EXCEPT ![p] = @ + 1]
            /\ count' = [count EXCEPT ![p] = @ - 1]
            /\ UNCHANGED <<lock, want, roffset, pc, sig, wchan, left>>
       ELSE /\ roffset' = offset[p] + 1
            /\ lock' = Prele.lock /\ want' = Prele.want /\ wchan' = Wake(Prele.wakes)
            /\ Return(p)
    /\ UNCHANGED <<mode, icount, size, data, fcount, asked, signals, sent>>

-----------------------------------------------------------------------------
(* writep *)

WriteCall(p, n) ==
    /\ p \in Writer /\ pc[p] = "user" /\ asked + n <= MaxUnits
    /\ asked' = asked + n
    /\ pc' = [pc EXCEPT ![p] = "writep"]
    /\ left' = [left EXCEPT ![p] = n]
    /\ UNCHANGED <<inode, file, wchan, sig, offset, count, signals, log>>

\* All done, or nobody to read it (EPIPE and a signal to itself).
WritepReturn(p) ==
    /\ p \in Writer /\ AtLoop(p) /\ ~lock
    /\ left[p] = 0 \/ icount < 2
    /\ lock' = Prele.lock /\ want' = Prele.want /\ wchan' = Wake(Prele.wakes)
    /\ Return(p)
    /\ UNCHANGED <<mode, icount, size, data, file, asked, signals, log>>

\* The pipe is full: wait for the readers.
WritepFull(p) ==
    /\ p \in Writer /\ AtLoop(p) /\ ~lock
    /\ left[p] # 0 /\ icount = 2 /\ size = PIPSIZ
    /\ mode' = mode \cup {"IWRITE"}
    /\ lock' = Prele.lock /\ want' = Prele.want
    /\ SleepOn(p, "ip+1", Prele.wakes)
    /\ UNCHANGED <<icount, size, data, file, asked, signals, log>>

\* Write what is possible: lock the pipe and enter writei.
WritepStart(p) ==
    /\ p \in Writer /\ AtLoop(p) /\ ~lock
    /\ left[p] # 0 /\ icount = 2 /\ size < PIPSIZ
    /\ lock' = TRUE
    /\ LET n == IF left[p] < PIPSIZ - size THEN left[p] ELSE PIPSIZ - size
       IN  /\ count' = [count EXCEPT ![p] = n]
           /\ left' = [left EXCEPT ![p] = @ - n]
    /\ offset' = [offset EXCEPT ![p] = size]
    /\ pc' = [pc EXCEPT ![p] = "writei"]
    /\ UNCHANGED <<want, mode, icount, size, data, file, wchan, sig, asked, signals, log>>

\* The end of writei: unlock, and wake the readers if one found the pipe empty.
WritepEnd(p) ==
    /\ lock' = Prele.lock /\ want' = Prele.want
    /\ mode' = mode \ {"IREAD"}
    /\ wchan' = Wake(Prele.wakes \cup (IF "IREAD" \in mode THEN {"ip+2"} ELSE {}))
    /\ pc' = [pc EXCEPT ![p] = "writep"]

\* writei, the buffer in hand: move a block, which may make the file longer.
Writei(p) ==
    /\ pc[p] = "writei"
    /\ data' = [data EXCEPT ![offset[p] + 1] = sent + 1]
    /\ sent' = sent + 1
    /\ offset' = [offset EXCEPT ![p] = @ + 1]
    /\ size' = IF offset[p] + 1 > size THEN offset[p] + 1 ELSE size
    /\ count' = [count EXCEPT ![p] = @ - 1]
    /\ IF count[p] > 1 THEN UNCHANGED <<lock, want, mode, wchan, pc>>
                       ELSE WritepEnd(p)
    /\ UNCHANGED <<icount, file, sig, left, asked, signals, received>>

\* writei, when bmap gets no block (ENOSPC): what is left of it is dropped.
WriteiNoSpace(p) ==
    /\ pc[p] = "writei"
    /\ WritepEnd(p)
    /\ UNCHANGED <<icount, size, data, file, sig, transfer, asked, signals, log>>

-----------------------------------------------------------------------------
End(p) == IF p \in Reader THEN "read" ELSE "write"

\* closef, closei, iput: wake everyone who waits for the other end; the last
\* close of a file structure gives up its reference to the inode, and unlocks
\* the inode, whoever has it locked.
Closef(p) ==
    /\ pc[p] = "user"
    /\ pc' = [pc EXCEPT ![p] = "closed"]
    /\ mode' = {}
    /\ fcount' = [fcount EXCEPT ![End(p)] = @ - 1]
    /\ IF fcount[End(p)] <= 1
       THEN /\ icount' = icount - 1
            /\ size' = IF icount = 1 THEN 0 ELSE size
            /\ roffset' = IF icount = 1 THEN 0 ELSE roffset
            /\ lock' = Prele.lock /\ want' = Prele.want
            /\ wchan' = Wake(Prele.wakes \cup {"ip+1", "ip+2"})
       ELSE /\ wchan' = Wake({"ip+1", "ip+2"})
            /\ UNCHANGED <<icount, size, roffset, lock, want>>
    /\ UNCHANGED <<data, sig, transfer, asked, signals, log>>

-----------------------------------------------------------------------------
\* pipe, then fork and close in the processes that share the ends.
Init ==
    /\ lock = FALSE /\ want = FALSE
    /\ mode = {}
    /\ icount = 2
    /\ size = 0
    /\ data = [i \in 1..PIPSIZ |-> 0]
    /\ fcount = [e \in {"read", "write"} |->
                    Cardinality(IF e = "read" THEN Reader ELSE Writer)]
    /\ roffset = 0
    /\ pc = [p \in Proc |-> "user"]
    /\ wchan = [p \in Proc |-> "awake"]
    /\ sig = [p \in Proc |-> FALSE]
    /\ offset = [p \in Proc |-> 0]
    /\ count = [p \in Proc |-> 0]
    /\ left = [p \in Proc |-> 0]
    /\ asked = 0 /\ signals = 0
    /\ sent = 0
    /\ received = <<>>

\* What a process does by itself once it has made the call.
Step(p) ==
    \/ Plock(p) \/ Interrupted(p)
    \/ ReadpEmpty(p) \/ ReadpStart(p) \/ Readi(p)
    \/ WritepReturn(p) \/ WritepFull(p) \/ WritepStart(p) \/ Writei(p)
    \/ WriteiNoSpace(p)

Call(p) == \E n \in 1..MaxWrite : ReadCall(p, n) \/ WriteCall(p, n)

Next == \E p \in Proc : Call(p) \/ Step(p) \/ Closef(p) \/ Psignal(p)

Spec == Init /\ [][Next]_vars

\* A process in the kernel goes on; the programs at both ends go on, and a
\* writer closes in the end.
Fairness == \A p \in Proc : /\ WF_vars(Step(p))
                            /\ WF_vars(Call(p) \/ Closef(p))
                            /\ p \in Writer => SF_vars(Closef(p))

FairSpec == Spec /\ Fairness

-----------------------------------------------------------------------------
(* Properties. *)

\* Every variable stays in its range; the file is never longer than PIPSIZ
\* and never read beyond its end.
TypeOK ==
    /\ lock \in BOOLEAN /\ want \in BOOLEAN
    /\ mode \subseteq {"IREAD", "IWRITE"}
    /\ icount \in 0..2
    /\ size \in 0..PIPSIZ /\ roffset \in 0..size
    /\ data \in [1..PIPSIZ -> 0..MaxUnits]
    /\ fcount \in [{"read", "write"} -> Nat]
    /\ pc \in [Proc -> {"user", "readp", "rsleep", "readi", "writep", "wsleep", "writei",
                        "closed"}]
    /\ wchan \in [Proc -> {"awake", "ip", "ip+1", "ip+2"}]
    /\ sig \in [Proc -> BOOLEAN]
    /\ offset \in [Proc -> 0..PIPSIZ] /\ count \in [Proc -> 0..MaxWrite]
    /\ left \in [Proc -> 0..MaxWrite]
    /\ asked \in 0..MaxUnits /\ signals \in 0..MaxSig
    /\ sent \in 0..MaxUnits /\ received \in Seq(1..MaxUnits)

Inside == {p \in Proc : pc[p] \in {"readi", "writei"}}

\* "Lock a pipe. If its already locked, set the WANT bit and sleep": at most
\* one process is in readi or writei on the pipe.
OneInside == \A p, q \in Inside : p = q

\* What is in the pipe: from the place the reader has got to, to the end.
Unread == LET at == IF \E p \in Reader : pc[p] = "readi"
                    THEN offset[CHOOSE p \in Reader : pc[p] = "readi"]
                    ELSE roffset
          IN  SubSeq(data, at + 1, size)

Channel == INSTANCE Fifo WITH Unit <- 1..MaxUnits, Size <- PIPSIZ,
                              queue <- Unread

\* A pipe is a bounded queue: what the reader gets is what was written, in
\* order, nothing twice and nothing lost, with resets, signals and closes.
ImplementsFifo == Channel!Spec

\* Nobody sleeps for something that has happened: on the lock only while it is
\* held and prele will look at IWANT; for room only while the pipe is full and
\* read; for data only while there is none and the pipe is written to, or a
\* writer has it locked and will look at IREAD.
NoLostWakeup ==
    \A p \in Proc :
        /\ wchan[p] = "ip" => lock /\ want
        /\ wchan[p] = "ip+1" => icount = 2 /\ size = PIPSIZ /\ "IWRITE" \in mode
        /\ wchan[p] = "ip+2" =>
              /\ icount = 2 /\ "IREAD" \in mode
              /\ roffset = size \/ \E q \in Writer : pc[q] = "writei"

\* plock, prele and the waits of readp and writep: one process inside, and
\* nobody left asleep.
PipeIsSafe == TypeOK /\ OneInside /\ NoLostWakeup

\* Every wait for the lock, for data or for room ends.
SleepersWake == \A p \in Proc : wchan[p] # "awake" ~> wchan[p] = "awake"
=============================================================================
