----------------------------- MODULE PipeProofs -----------------------------
(***************************************************************************)
(* Proofs about pipes, for any capacity and any number of readers and      *)
(* writers, with signals, closes and full disks at any moment.             *)
(*                                                                         *)
(* The last close of an end unlocks the pipe, whoever has it locked, so    *)
(* two readers may be in readi together once the writers are gone.  The    *)
(* theorems say which facts survive that, and assume OneReader where they  *)
(* do not.                                                                 *)
(***************************************************************************)
EXTENDS Pipe, FiniteSetTheorems, SequenceTheorems, TLAPS

\* The read end is not shared: what the shell makes of a | b.
OneReader == \A p, q \in Reader : p = q

-----------------------------------------------------------------------------
(* The inductive invariant. *)

ReaderPc == {"user", "readp", "rsleep", "readi", "closed"}
WriterPc == {"user", "writep", "wsleep", "writei", "closed"}

\* TypeOK, but for what holds only while the readers are in order.
Types ==
    /\ lock \in BOOLEAN /\ want \in BOOLEAN
    /\ mode \subseteq {"IREAD", "IWRITE"}
    /\ icount \in 0..2
    /\ size \in 0..PIPSIZ /\ roffset \in 0..PIPSIZ
    /\ data \in [1..PIPSIZ -> 0..MaxUnits]
    /\ fcount \in [{"read", "write"} -> Nat]
    /\ pc \in [Proc -> ReaderPc \cup WriterPc]
    /\ wchan \in [Proc -> {"awake", "ip", "ip+1", "ip+2"}]
    /\ sig \in [Proc -> BOOLEAN]
    /\ offset \in [Proc -> 0..PIPSIZ] /\ count \in [Proc -> 0..MaxWrite]
    /\ left \in [Proc -> 0..MaxWrite]
    /\ asked \in 0..MaxUnits /\ signals \in 0..MaxSig
    /\ sent \in 0..MaxUnits /\ received \in Seq(0..MaxUnits)

\* A process is only in the calls of its own end.
Roles ==
    /\ \A p \in Reader : pc[p] \in ReaderPc
    /\ \A p \in Writer : pc[p] \in WriterPc

\* f_count counts the processes that have not closed the end, and i_count the
\* ends that have not been given up.
Members(e) == IF e = "read" THEN Reader ELSE Writer
Open(e) == {p \in Members(e) : pc[p] # "closed"}
Gone(e) == Members(e) # {} /\ Open(e) = {}
Counts ==
    /\ \A e \in {"read", "write"} : fcount[e] = Cardinality(Open(e))
    /\ icount = (IF Gone("read") THEN 0 ELSE 1) + (IF Gone("write") THEN 0 ELSE 1)

\* While both ends are open the pipe is locked just when a process is inside,
\* and there is one; a writer is never inside with another, open or not.
Locked ==
    /\ icount = 2 => OneInside /\ (lock <=> Inside # {})
    /\ \A p, q \in Writer : pc[p] = "writei" /\ pc[q] = "writei" => p = q

\* A writer inside writes at the end of the file, and has room for the rest.
WriterInside ==
    \A p \in Writer : pc[p] = "writei" =>
        offset[p] = size /\ count[p] > 0 /\ size + count[p] <= PIPSIZ

\* What is in the file has been written.  The units that the calls in progress
\* have still to write have been asked for, and not sent.
Pending == {w \in Writer \X (1..MaxWrite) :
               w[2] <= left[w[1]] + IF pc[w[1]] = "writei" THEN count[w[1]] ELSE 0}
Written ==
    /\ \A i \in 1..size : data[i] \in 1..sent
    /\ \A p \in Writer : pc[p] = "writei" => left[p] + count[p] <= MaxWrite
    /\ sent + Cardinality(Pending) <= asked

\* A reader inside is before the end of the file, and, as long as readers are
\* in order, not behind the offset noted.
Orderly == icount = 2 \/ OneReader
ReaderInside ==
    /\ \A p \in Reader : pc[p] = "readi" => offset[p] < PIPSIZ
    /\ Orderly => /\ roffset <= size
                  /\ received \in Seq(1..MaxUnits)
                  /\ \A p \in Reader : pc[p] = "readi" =>
                        roffset <= offset[p] /\ offset[p] < size

Inv == /\ Types /\ Roles /\ Counts /\ Locked /\ WriterInside /\ Written
       /\ ReaderInside /\ NoLostWakeup

-----------------------------------------------------------------------------
(* What the steps have in common. *)

\* The two ends have different processes.
LEMMA Ends ==
    ASSUME NEW p \in Proc
    PROVE  /\ p \in Reader <=> p \notin Writer
           /\ Inv /\ p \in Reader => pc[p] \in ReaderPc
           /\ Inv /\ p \in Writer => pc[p] \in WriterPc
BY PipeAssumption DEF Proc, Inv, Roles

\* The sets whose sizes the invariant speaks of are finite.
LEMMA Finite ==
    /\ \A e : IsFiniteSet(Open(e)) /\ Cardinality(Open(e)) \in Nat
    /\ IsFiniteSet(Writer \X (1..MaxWrite))
    /\ IsFiniteSet(Pending) /\ Cardinality(Pending) \in Nat
<1>1. IsFiniteSet(Reader) /\ IsFiniteSet(Writer)
  BY PipeAssumption, FS_Subset, Reader \in SUBSET (Reader \cup Writer),
     Writer \in SUBSET (Reader \cup Writer)
<1>2. ASSUME NEW e PROVE IsFiniteSet(Open(e)) /\ Cardinality(Open(e)) \in Nat
  <2>1. IsFiniteSet(Members(e)) /\ Open(e) \in SUBSET Members(e)
    BY <1>1 DEF Members, Open
  <2> QED
    BY <2>1, FS_Subset, FS_CardinalityType
<1>3. IsFiniteSet(Writer \X (1..MaxWrite))
  <2>1. IsFiniteSet(1..MaxWrite)
    BY PipeAssumption, FS_Interval
  <2> QED
    BY <1>1, <2>1, FS_Product
<1>4. Pending \in SUBSET (Writer \X (1..MaxWrite))
  BY DEF Pending
<1> QED
  BY <1>2, <1>3, <1>4, FS_Subset, FS_CardinalityType

\* The ends are counted as before when nobody closes.
LEMMA CountsFrame ==
    ASSUME Inv, UNCHANGED <<icount, fcount>>,
           \A q \in Proc : pc'[q] = "closed" <=> pc[q] = "closed"
    PROVE  Counts'
<1>1. \A e : Open(e)' = Open(e) /\ Members(e)' = Members(e)
  BY DEF Open, Members, Proc
<1> QED
  BY <1>1 DEF Inv, Counts, Gone

\* A step that sends nothing, and leaves no call more to send.
LEMMA WrittenFrame ==
    ASSUME Inv, Types', UNCHANGED <<data, sent, asked>>, size' <= size,
           \A q \in Writer : left'[q] + (IF pc'[q] = "writei" THEN count'[q] ELSE 0)
                             <= left[q] + (IF pc[q] = "writei" THEN count[q] ELSE 0)
    PROVE  Written'
<1>1. /\ \A q \in Writer : left[q] \in 0..MaxWrite /\ count[q] \in Nat
      /\ \A q \in Writer : left'[q] \in 0..MaxWrite /\ count'[q] \in Nat
      /\ size \in Nat /\ size' \in Nat /\ sent \in Nat /\ asked \in Nat
      /\ MaxWrite \in Nat
  BY PipeAssumption DEF Inv, Types, Proc
<1>2. Pending' \in SUBSET Pending
  <2>1. SUFFICES ASSUME NEW q \in Writer, NEW i \in 1..MaxWrite,
                        i <= left'[q] + IF pc'[q] = "writei" THEN count'[q] ELSE 0
                 PROVE  i <= left[q] + IF pc[q] = "writei" THEN count[q] ELSE 0
    BY DEF Pending
  <2> QED
    BY <1>1, <2>1
<1>3. Cardinality(Pending') <= Cardinality(Pending) /\ Cardinality(Pending') \in Nat
  BY <1>2, Finite, FS_Subset, FS_CardinalityType
<1>4. sent + Cardinality(Pending') <= asked
  BY <1>1, <1>3, Finite DEF Inv, Written
<1>5. \A q \in Writer : pc'[q] = "writei" => left'[q] + count'[q] <= MaxWrite
  <2>1. SUFFICES ASSUME NEW q \in Writer, pc'[q] = "writei"
                 PROVE  left'[q] + count'[q] <= MaxWrite
    OBVIOUS
  <2>2. CASE pc[q] = "writei"
    BY <1>1, <2>1, <2>2 DEF Inv, Written
  <2>3. CASE pc[q] # "writei"
    BY <1>1, <2>1, <2>3
  <2> QED
    BY <2>2, <2>3
<1>6. \A i \in 1..size' : data[i] \in 1..sent
  BY <1>1 DEF Inv, Written
<1> QED
  BY <1>4, <1>5, <1>6 DEF Written

OutsidePc == {"user", "readp", "writep", "rsleep", "wsleep"}

\* Nobody inside can notice that the file is emptied.
Unnoticed == /\ \A q \in Writer : pc[q] # "writei"
             /\ Orderly => \A q \in Reader : pc[q] # "readi"

\* A step of a process that is outside readi and writei and stays outside.
LEMMA OutsideFrame ==
    ASSUME Inv, NEW p \in Proc, pc[p] \in OutsidePc, pc'[p] \in OutsidePc,
           p \in Reader => pc'[p] \in ReaderPc, p \in Writer => pc'[p] \in WriterPc,
           UNCHANGED <<lock, icount, fcount, received>>,
           \A q \in Proc \ {p} : UNCHANGED <<pc[q], offset[q], count[q]>>,
           UNCHANGED <<size, roffset>> \/ (size' = 0 /\ roffset' = 0 /\ Unnoticed)
    PROVE  Roles' /\ Counts' /\ Locked' /\ WriterInside' /\ ReaderInside'
<1> USE DEF OutsidePc
<1>1. Inside' = Inside
  BY DEF Inside
<1>2. \A q \in Proc : pc'[q] \in {"readi", "writei"} =>
          /\ q # p
          /\ pc'[q] = pc[q] /\ offset'[q] = offset[q] /\ count'[q] = count[q]
  OBVIOUS
<1>3. Locked'
  BY <1>1, <1>2 DEF Inv, Locked, OneInside, Proc
<1>4. WriterInside'
  BY <1>2 DEF Inv, WriterInside, Proc, Unnoticed
<1>5. ReaderInside'
  <2>1. Orderly' = Orderly
    BY DEF Orderly, OneReader
  <2> QED
    BY <1>2, <2>1 DEF Inv, ReaderInside, Proc, Unnoticed
<1>6. Roles'
  BY Ends DEF Inv, Roles, Proc
<1>7. Counts'
  BY CountsFrame
<1> QED
  BY <1>3, <1>4, <1>5, <1>6, <1>7

\* What wakeup of the channels in C leaves, when p may be put to sleep on c.
WokenBut(p, c, C) ==
    /\ wchan' \in [Proc -> {"awake", "ip", "ip+1", "ip+2"}]
    /\ \A q \in Proc : \/ wchan'[q] = (IF wchan[q] \in C THEN "awake" ELSE wchan[q])
                       \/ q = p /\ wchan'[q] = c

LEMMA Woken ==
    ASSUME Types, NEW C, wchan' = Wake(C), NEW p, NEW c
    PROVE  WokenBut(p, c, C)
BY DEF Wake, WokenBut, Types

\* What a step of p leaves that takes it to one of the pcs in S.
Moved(p, S) ==
    /\ pc' \in [Proc -> ReaderPc \cup WriterPc]
    /\ sig' \in [Proc -> BOOLEAN]
    /\ offset' \in [Proc -> 0..PIPSIZ] /\ count' \in [Proc -> 0..MaxWrite]
    /\ left' \in [Proc -> 0..MaxWrite]
    /\ pc'[p] \in S
    /\ left'[p] <= left[p]
    /\ \A q \in Proc \ {p} : UNCHANGED <<pc[q], offset[q], count[q], left[q]>>

LEMMA Returned ==
    ASSUME Types, NEW p \in Proc, Return(p)
    PROVE  Moved(p, {"user"})
<1>1. left[p] \in Nat
  BY DEF Types
<1> QED
  BY <1>1, PipeAssumption DEF Moved, Return, Types, ReaderPc, WriterPc

\* sleep, or the return that a signal makes of it.
LEMMA Slept ==
    ASSUME Types, NEW p \in Proc, NEW c \in {"ip", "ip+1", "ip+2"}, NEW C,
           SleepOn(p, c, C)
    PROVE  /\ Moved(p, {"user", IF p \in Reader THEN "rsleep" ELSE "wsleep"})
           /\ WokenBut(p, c, C)
<1>1. CASE sig[p]
  <2>1. Return(p) /\ wchan' = Wake(C)
    BY <1>1 DEF SleepOn
  <2> QED
    BY <2>1, Returned, Woken DEF Moved
<1>2. CASE ~sig[p]
  <2>1. /\ pc' = [pc EXCEPT ![p] = IF p \in Reader THEN "rsleep" ELSE "wsleep"]
        /\ wchan' = [Wake(C) EXCEPT ![p] = c]
        /\ sig' = sig /\ offset' = offset /\ count' = count /\ left' = left
    BY <1>2 DEF SleepOn, transfer
  <2>2. left[p] \in Nat
    BY DEF Types
  <2>3. Moved(p, {"user", IF p \in Reader THEN "rsleep" ELSE "wsleep"})
    BY <2>1, <2>2 DEF Moved, Types, ReaderPc, WriterPc
  <2>4. WokenBut(p, c, C)
    BY <2>1 DEF WokenBut, Wake, Types
  <2> QED
    BY <2>3, <2>4
<1> QED
  BY <1>1, <1>2

\* Such a step leaves no call more to send.
LEMMA MovedWritten ==
    ASSUME Inv, Types', NEW p \in Proc, NEW S, Moved(p, S), "writei" \notin S,
           UNCHANGED <<data, sent, asked>>, size' = size \/ size' = 0
    PROVE  Written'
<1>1. \A q \in Writer : /\ left[q] \in Nat /\ count[q] \in Nat
                        /\ left'[q] \in Nat /\ count'[q] \in Nat
  BY DEF Inv, Types, Proc
<1>2. \A q \in Writer : q # p => UNCHANGED <<pc[q], count[q], left[q]>>
  BY DEF Moved, Proc
<1>3. pc'[p] # "writei" /\ left'[p] <= left[p]
  BY DEF Moved
<1>4. \A q \in Writer : left'[q] + (IF pc'[q] = "writei" THEN count'[q] ELSE 0)
                        <= left[q] + (IF pc[q] = "writei" THEN count[q] ELSE 0)
  BY <1>1, <1>2, <1>3
<1>5. size' <= size
  <2>1. size \in Nat
    BY DEF Inv, Types
  <2> QED
    BY <2>1
<1> QED
  BY <1>4, <1>5, WrittenFrame

-----------------------------------------------------------------------------
(* One lemma per action. *)

\* A process that sleeps on the lock.
LEMMA PlockInv ==
    ASSUME Inv, NEW p \in Proc, Plock(p)
    PROVE  Inv'
<1>1. /\ lock /\ want' = TRUE /\ AtLoop(p) /\ SleepOn(p, "ip", {})
      /\ UNCHANGED <<lock, mode, icount, size, data, fcount, roffset, asked, signals,
                     sent, received>>
  BY DEF Plock, file, log
<1>2. pc[p] \in {"readp", "writep", "rsleep", "wsleep"}
  BY <1>1 DEF AtLoop
<1>3. /\ Types
      /\ Moved(p, {"user", IF p \in Reader THEN "rsleep" ELSE "wsleep"})
      /\ WokenBut(p, "ip", {})
  BY <1>1, Slept DEF Inv
<1>4. Types'
  BY <1>1, <1>3 DEF Types, Moved, WokenBut
<1>5. Roles' /\ Counts' /\ Locked' /\ WriterInside' /\ ReaderInside'
  BY <1>1, <1>2, <1>3, Ends, OutsideFrame DEF Moved, ReaderPc, WriterPc, OutsidePc
<1>6. Written'
  BY <1>1, <1>3, <1>4, MovedWritten
<1>7. NoLostWakeup'
  <2>1. \A q \in Proc : wchan'[q] = wchan[q] \/ (q = p /\ wchan'[q] = "ip")
    BY <1>3 DEF WokenBut
  <2>2. \A q \in Writer : pc[q] = "writei" => pc'[q] = "writei"
    BY <1>2, <1>3 DEF Moved, Proc
  <2> QED
    BY <1>1, <2>1, <2>2 DEF Inv, NoLostWakeup
<1> QED
  BY <1>4, <1>5, <1>6, <1>7 DEF Inv

\* sleep returns to find a signal.
LEMMA InterruptedInv ==
    ASSUME Inv, NEW p \in Proc, Interrupted(p)
    PROVE  Inv'
<1>1. /\ pc[p] \in {"rsleep", "wsleep"} /\ Return(p)
      /\ UNCHANGED <<lock, want, mode, icount, size, data, fcount, roffset, wchan, asked,
                     signals, sent, received>>
  BY DEF Interrupted, inode, file, log
<1>2. Types /\ Moved(p, {"user"})
  BY <1>1, Returned DEF Inv
<1>3. Types'
  BY <1>1, <1>2 DEF Types, Moved
<1>4. Roles' /\ Counts' /\ Locked' /\ WriterInside' /\ ReaderInside'
  BY <1>1, <1>2, Ends, OutsideFrame DEF Moved, ReaderPc, WriterPc, OutsidePc
<1>5. Written'
  BY <1>1, <1>2, <1>3, MovedWritten
<1>6. NoLostWakeup'
  <2>1. \A q \in Writer : pc[q] = "writei" => pc'[q] = "writei"
    BY <1>1, <1>2 DEF Moved, Proc
  <2> QED
    BY <1>1, <2>1 DEF Inv, NoLostWakeup
<1> QED
  BY <1>3, <1>4, <1>5, <1>6 DEF Inv

\* psignal
LEMMA PsignalInv ==
    ASSUME Inv, NEW p \in Proc, Psignal(p)
    PROVE  Inv'
<1>1. /\ signals < MaxSig /\ signals' = signals + 1
      /\ sig' = [sig EXCEPT ![p] = TRUE] /\ wchan' = [wchan EXCEPT ![p] = "awake"]
      /\ UNCHANGED <<lock, want, mode, icount, size, data, fcount, roffset, pc, offset,
                     count, left, asked, sent, received>>
  BY DEF Psignal, inode, file, transfer, log
<1>2. Types'
  <2>1. signals' \in 0..MaxSig
    BY <1>1, PipeAssumption DEF Inv, Types
  <2> QED
    BY <1>1, <2>1 DEF Inv, Types
<1>3. Roles' /\ Counts' /\ Locked' /\ WriterInside' /\ Written' /\ ReaderInside'
  <2>1. Pending' = Pending
    BY <1>1 DEF Pending
  <2> QED
    BY <1>1, <2>1 DEF Inv, Roles, Counts, Gone, Open, Members, Locked, OneInside, Inside,
                      WriterInside, Written, ReaderInside, Orderly, OneReader
<1>4. NoLostWakeup'
  <2>1. \A q \in Proc : wchan'[q] \in {wchan[q], "awake"}
    BY <1>1 DEF Inv, Types
  <2> QED
    BY <1>1, <2>1 DEF Inv, NoLostWakeup
<1> QED
  BY <1>2, <1>3, <1>4 DEF Inv

\* read
LEMMA ReadCallInv ==
    ASSUME Inv, NEW p \in Proc, NEW n \in 1..MaxWrite, ReadCall(p, n)
    PROVE  Inv'
<1>1. /\ p \in Reader /\ pc[p] = "user"
      /\ pc' = [pc EXCEPT ![p] = "readp"] /\ count' = [count EXCEPT ![p] = n]
      /\ UNCHANGED <<lock, want, mode, icount, size, data, fcount, roffset, wchan, sig,
                     offset, left, asked, signals, sent, received>>
  BY DEF ReadCall, inode, file, log
<1>2. Types'
  <2>1. n \in 0..MaxWrite
    BY PipeAssumption
  <2> QED
    BY <1>1, <2>1 DEF Inv, Types, ReaderPc
<1>3. pc'[p] = "readp" /\ \A q \in Proc \ {p} : UNCHANGED <<pc[q], offset[q], count[q]>>
  BY <1>1 DEF Inv, Types
<1>4. Roles' /\ Counts' /\ Locked' /\ WriterInside' /\ ReaderInside'
  BY <1>1, <1>3, Ends, OutsideFrame DEF ReaderPc, OutsidePc
<1>5. Written'
  <2>1. Pending' = Pending
    BY <1>1, <1>3, Ends DEF Pending, Proc
  <2> QED
    BY <1>1, <1>3, <2>1, Ends DEF Inv, Written, Proc
<1>6. NoLostWakeup'
  BY <1>1, <1>3 DEF Inv, NoLostWakeup, Proc
<1> QED
  BY <1>2, <1>4, <1>5, <1>6 DEF Inv

\* write: n more units to send.
LEMMA WriteCallInv ==
    ASSUME Inv, NEW p \in Proc, NEW n \in 1..MaxWrite, WriteCall(p, n)
    PROVE  Inv'
<1>1. /\ p \in Writer /\ pc[p] = "user" /\ asked + n <= MaxUnits /\ asked' = asked + n
      /\ pc' = [pc EXCEPT ![p] = "writep"] /\ left' = [left EXCEPT ![p] = n]
      /\ UNCHANGED <<lock, want, mode, icount, size, data, fcount, roffset, wchan, sig,
                     offset, count, signals, sent, received>>
  BY DEF WriteCall, inode, file, log
<1>2. Types'
  <2>1. n \in 0..MaxWrite /\ asked' \in 0..MaxUnits
    BY <1>1, PipeAssumption DEF Inv, Types
  <2> QED
    BY <1>1, <2>1 DEF Inv, Types, WriterPc
<1>3. /\ pc'[p] = "writep" /\ left'[p] = n
      /\ \A q \in Proc \ {p} : UNCHANGED <<pc[q], offset[q], count[q], left[q]>>
  BY <1>1 DEF Inv, Types
<1>4. Roles' /\ Counts' /\ Locked' /\ WriterInside' /\ ReaderInside'
  BY <1>1, <1>3, Ends, OutsideFrame DEF WriterPc, OutsidePc
<1>5. Written'
  <2> DEFINE new == {p} \X (1..n)
  <2>1. IsFiniteSet(new) /\ Cardinality(new) = n
    <3>1. IsFiniteSet(1..n) /\ Cardinality(1..n) = n
      BY FS_Interval
    <3>2. IsFiniteSet({p}) /\ Cardinality({p}) = 1
      BY FS_Singleton
    <3> QED
      BY <3>1, <3>2, FS_Product
  <2>2. Pending' \in SUBSET (Pending \cup new)
    BY <1>1, <1>3 DEF Pending, Proc
  <2>3. /\ IsFiniteSet(Pending \cup new)
        /\ Cardinality(Pending \cup new) <= Cardinality(Pending) + n
    <3>1. Cardinality(Pending \cap new) \in Nat
      BY Finite, FS_Intersection, FS_CardinalityType
    <3>2. /\ IsFiniteSet(Pending \cup new)
          /\ Cardinality(Pending \cup new)
                = Cardinality(Pending) + Cardinality(new) - Cardinality(Pending \cap new)
      <4> HIDE DEF new
      <4> QED
        BY <2>1, Finite, FS_Union
    <3> QED
      BY <2>1, <3>1, <3>2, Finite
  <2>4. /\ Cardinality(Pending') <= Cardinality(Pending \cup new)
        /\ Cardinality(Pending') \in Nat /\ Cardinality(Pending \cup new) \in Nat
    BY <2>2, <2>3, FS_Subset, FS_CardinalityType
  <2>5. sent + Cardinality(Pending') <= asked'
    <3>1. sent \in Nat /\ asked \in Nat /\ sent + Cardinality(Pending) <= asked
      BY DEF Inv, Types, Written
    <3> QED
      BY <1>1, <2>3, <2>4, <3>1, Finite
  <2> QED
    BY <1>1, <1>3, <2>5 DEF Inv, Written, Proc
<1>6. NoLostWakeup'
  BY <1>1, <1>3 DEF Inv, NoLostWakeup, Proc
<1> QED
  BY <1>2, <1>4, <1>5, <1>6 DEF Inv

\* writep returns.
LEMMA WritepReturnInv ==
    ASSUME Inv, NEW p \in Proc, WritepReturn(p)
    PROVE  Inv'
<1>1. /\ p \in Writer /\ AtLoop(p) /\ ~lock /\ lock' = FALSE /\ want' = FALSE
      /\ wchan' = Wake(Prele.wakes) /\ Return(p)
      /\ UNCHANGED <<mode, icount, size, data, fcount, roffset, asked, signals, sent,
                     received>>
  BY DEF WritepReturn, Prele, file, log
<1>2. pc[p] \in {"readp", "writep", "rsleep", "wsleep"}
  BY <1>1 DEF AtLoop
<1>3. Types /\ Moved(p, {"user"}) /\ WokenBut(p, "awake", Prele.wakes)
  BY <1>1, Returned, Woken DEF Inv
<1>4. Types'
  BY <1>1, <1>3 DEF Types, Moved, WokenBut
<1>5. Roles' /\ Counts' /\ Locked' /\ WriterInside' /\ ReaderInside'
  <2>1. lock' = lock
    BY <1>1, <1>3 DEF Types
  <2> QED
    BY <1>1, <1>2, <1>3, <2>1, Ends, OutsideFrame DEF Moved, ReaderPc, WriterPc, OutsidePc
<1>6. Written'
  BY <1>1, <1>3, <1>4, MovedWritten
<1>7. NoLostWakeup'
  <2>1. \A q \in Proc : wchan'[q] \in {wchan[q], "awake"}
    BY <1>3 DEF WokenBut
  <2>2. \A q \in Writer : pc[q] = "writei" => pc'[q] = "writei"
    BY <1>2, <1>3 DEF Moved, Proc
  <2> QED
    BY <1>1, <2>1, <2>2 DEF Inv, NoLostWakeup
<1> QED
  BY <1>4, <1>5, <1>6, <1>7 DEF Inv

\* writep finds the pipe full.
LEMMA WritepFullInv ==
    ASSUME Inv, NEW p \in Proc, WritepFull(p)
    PROVE  Inv'
<1>1. /\ p \in Writer /\ AtLoop(p) /\ ~lock /\ lock' = FALSE /\ want' = FALSE
      /\ icount = 2 /\ size = PIPSIZ /\ mode' = mode \cup {"IWRITE"}
      /\ SleepOn(p, "ip+1", Prele.wakes)
      /\ UNCHANGED <<icount, size, data, fcount, roffset, asked, signals, sent, received>>
  BY DEF WritepFull, Prele, file, log
<1>2. pc[p] \in {"readp", "writep", "rsleep", "wsleep"}
  BY <1>1 DEF AtLoop
<1>3. /\ Types
      /\ Moved(p, {"user", IF p \in Reader THEN "rsleep" ELSE "wsleep"})
      /\ WokenBut(p, "ip+1", Prele.wakes)
  BY <1>1, Slept DEF Inv
<1>4. Types'
  BY <1>1, <1>3 DEF Types, Moved, WokenBut
<1>5. Roles' /\ Counts' /\ Locked' /\ WriterInside' /\ ReaderInside'
  <2>1. lock' = lock
    BY <1>1, <1>3 DEF Types
  <2> QED
    BY <1>1, <1>2, <1>3, <2>1, Ends, OutsideFrame DEF Moved, ReaderPc, WriterPc, OutsidePc
<1>6. Written'
  BY <1>1, <1>3, <1>4, MovedWritten
<1>7. NoLostWakeup'
  <2>1. \A q \in Proc : wchan'[q] \in {wchan[q], "awake", "ip+1"}
    BY <1>3 DEF WokenBut
  <2>2. \A q \in Writer : pc[q] = "writei" => pc'[q] = "writei"
    BY <1>2, <1>3 DEF Moved, Proc
  <2> QED
    BY <1>1, <2>1, <2>2 DEF Inv, NoLostWakeup
<1> QED
  BY <1>4, <1>5, <1>6, <1>7 DEF Inv

\* readp finds nothing to read.
LEMMA ReadpEmptyInv ==
    ASSUME Inv, NEW p \in Proc, ReadpEmpty(p)
    PROVE  Inv'
<1> DEFINE full == size # 0 /\ "IWRITE" \in mode
           woken == Prele.wakes \cup (IF full THEN {"ip+1"} ELSE {})
<1>1. /\ p \in Reader /\ AtLoop(p) /\ ~lock /\ lock' = FALSE /\ want' = FALSE
      /\ roffset = size /\ size' = 0 /\ roffset' = 0
      /\ UNCHANGED <<icount, data, fcount, asked, signals, sent, received>>
      /\ mode' \subseteq {"IREAD", "IWRITE"}
      /\ \/ icount < 2 /\ Return(p) /\ wchan' = Wake(woken)
         \/ icount = 2 /\ "IREAD" \in mode' /\ SleepOn(p, "ip+2", woken)
  <2>1. mode \subseteq {"IREAD", "IWRITE"} /\ (icount < 2 \/ icount = 2)
    BY DEF Inv, Types
  <2> DEFINE m == IF full THEN mode \ {"IWRITE"} ELSE mode
  <2>2. IF icount < 2
        THEN Return(p) /\ wchan' = Wake(woken) /\ mode' = m
        ELSE mode' = m \cup {"IREAD"} /\ SleepOn(p, "ip+2", woken)
    BY DEF ReadpEmpty
  <2>3. /\ p \in Reader /\ AtLoop(p) /\ ~lock /\ lock' = FALSE /\ want' = FALSE
        /\ roffset = size /\ size' = 0 /\ roffset' = 0
        /\ UNCHANGED <<icount, data, fcount, asked, signals, sent, received>>
    BY DEF ReadpEmpty, Prele, log
  <2> HIDE DEF full, woken
  <2> QED
    BY <2>1, <2>2, <2>3
<1>2. pc[p] \in {"readp", "writep", "rsleep", "wsleep"}
  BY <1>1 DEF AtLoop
<1> HIDE DEF full, woken
<1>3. /\ Types
      /\ Moved(p, {"user", IF p \in Reader THEN "rsleep" ELSE "wsleep"})
      /\ WokenBut(p, "ip+2", woken)
  <2>1. Moved(p, {"user"}) => Moved(p, {"user", IF p \in Reader THEN "rsleep" ELSE "wsleep"})
    BY DEF Moved
  <2> QED
    BY <1>1, <2>1, Returned, Slept, Woken DEF Inv
<1>4. Types'
  <2>1. size' \in 0..PIPSIZ /\ roffset' \in 0..PIPSIZ
    BY <1>1, PipeAssumption
  <2> QED
    BY <1>1, <1>3, <2>1 DEF Types, Moved, WokenBut
<1>5. Unnoticed
  <2>1. CASE icount = 2
    <3>1. Inside = {}
      BY <1>1, <2>1 DEF Inv, Locked
    <3> QED
      BY <3>1 DEF Unnoticed, Inside, Proc
  <2>2. CASE icount # 2
    <3>1. p \in Open("read")
      BY <1>1, <1>2 DEF Open, Members
    <3>2. Gone("write")
      BY <2>2, <3>1 DEF Inv, Counts, Gone
    <3>3. \A q \in Writer : pc[q] = "closed"
      BY <3>2 DEF Gone, Open, Members
    <3>4. Orderly => \A q \in Reader : q = p
      BY <1>1, <2>2 DEF Orderly, OneReader
    <3> QED
      BY <1>2, <3>3, <3>4 DEF Unnoticed
  <2> QED
    BY <2>1, <2>2
<1>6. Roles' /\ Counts' /\ Locked' /\ WriterInside' /\ ReaderInside'
  <2>1. lock' = lock
    BY <1>1, <1>3 DEF Types
  <2> QED
    BY <1>1, <1>2, <1>3, <1>5, <2>1, Ends, OutsideFrame
       DEF Moved, ReaderPc, WriterPc, OutsidePc
<1>7. Written'
  BY <1>1, <1>3, <1>4, MovedWritten
<1>8. NoLostWakeup'
  <2>1. \A q \in Proc : \/ wchan'[q] = "awake"
                        \/ wchan'[q] = wchan[q] /\ (wchan[q] = "ip+1" => ~full)
                        \/ wchan'[q] = "ip+2" /\ q = p
    BY <1>3 DEF WokenBut, woken
  <2>2. \A q \in Proc : wchan[q] # "ip" /\ (wchan[q] = "ip+1" => full)
    BY <1>1, PipeAssumption DEF Inv, NoLostWakeup, full
  <2>3. \A q \in Proc : wchan[q] = "ip+2" => icount = 2
    BY DEF Inv, NoLostWakeup
  <2>4. ASSUME NEW q \in Proc, wchan'[q] # "awake"
        PROVE  wchan'[q] = "ip+2"
    <3>1. CASE q = p /\ wchan'[q] = "ip+2"
      BY <3>1
    <3>2. CASE wchan'[q] = wchan[q] /\ (wchan[q] = "ip+1" => ~full)
      BY <3>2, <2>2, <2>4, <1>3 DEF Types
    <3> QED
      BY <2>1, <2>4, <3>1, <3>2
  <2>5. ASSUME NEW q \in Proc, wchan'[q] = "ip+2"
        PROVE  icount' = 2 /\ "IREAD" \in mode' /\ roffset' = size'
    <3>1. CASE icount = 2
      BY <1>1, <3>1
    <3>2. CASE icount < 2
      <4>1. wchan' = Wake(woken)
        BY <1>1, <3>2
      <4>2. wchan[q] = "ip+2"
        BY <2>5, <4>1 DEF Wake
      <4> QED
        BY <2>3, <3>2, <4>2
    <3> QED
      BY <3>1, <3>2, <1>3 DEF Types
  <2> QED
    BY <2>4, <2>5 DEF NoLostWakeup
<1> QED
  BY <1>4, <1>6, <1>7, <1>8 DEF Inv

\* readp locks the pipe and enters readi.
LEMMA ReadpStartInv ==
    ASSUME Inv, NEW p \in Proc, ReadpStart(p)
    PROVE  Inv'
<1>1. /\ p \in Reader /\ AtLoop(p) /\ ~lock /\ roffset < size /\ lock' = TRUE
      /\ offset' = [offset EXCEPT ![p] = roffset] /\ pc' = [pc EXCEPT ![p] = "readi"]
      /\ UNCHANGED <<want, mode, icount, size, data, fcount, roffset, wchan, sig, count,
                     left, asked, signals, sent, received>>
  BY DEF ReadpStart, file, log
<1>2. pc[p] \in {"readp", "writep", "rsleep", "wsleep"} /\ p \notin Writer
  BY <1>1, Ends DEF AtLoop
<1>3. /\ pc'[p] = "readi" /\ offset'[p] = roffset
      /\ \A q \in Proc \ {p} : UNCHANGED <<pc[q], offset[q]>>
      /\ size \in 0..PIPSIZ /\ roffset \in 0..PIPSIZ /\ PIPSIZ \in Nat
  BY <1>1, PipeAssumption DEF Inv, Types
<1>4. Types'
  BY <1>1 DEF Inv, Types, ReaderPc
<1>5. Roles'
  BY <1>1, <1>3, Ends DEF Inv, Roles, Proc, ReaderPc
<1>6. Counts'
  BY <1>1, <1>2, <1>3, CountsFrame
<1>7. Locked'
  <2>1. icount = 2 => Inside' = {p}
    <3>1. icount = 2 => Inside = {}
      BY <1>1 DEF Inv, Locked
    <3> QED
      BY <1>3, <3>1 DEF Inside
  <2>2. \A q \in Writer : pc'[q] = pc[q]
    BY <1>2, <1>3 DEF Proc
  <2> QED
    BY <1>1, <2>1, <2>2 DEF Inv, Locked, OneInside
<1>8. WriterInside'
  BY <1>1, <1>2, <1>3 DEF Inv, WriterInside, Proc
<1>9. Written'
  <2>1. \A q \in Writer : UNCHANGED <<pc[q], left[q], count[q]>>
    BY <1>1, <1>2, <1>3 DEF Proc
  <2>2. Pending' = Pending
    BY <2>1 DEF Pending
  <2> QED
    BY <1>1, <2>1, <2>2 DEF Inv, Written
<1>10. ReaderInside'
  BY <1>1, <1>3 DEF Inv, ReaderInside, Orderly, OneReader, Proc
<1>11. NoLostWakeup'
  BY <1>1, <1>2, <1>3 DEF Inv, NoLostWakeup, Proc
<1> QED
  BY <1>4, <1>5, <1>6, <1>7, <1>8, <1>9, <1>10, <1>11 DEF Inv

\* readi moves a block.
LEMMA ReadiInv ==
    ASSUME Inv, NEW p \in Proc, Readi(p)
    PROVE  Inv'
<1> DEFINE more == count[p] > 1 /\ offset[p] + 1 < size
<1>1. /\ pc[p] = "readi" /\ received' = Append(received, data[offset[p] + 1])
      /\ UNCHANGED <<mode, icount, size, data, fcount, asked, signals, sent>>
  BY DEF Readi
<1>2. more => /\ offset' = [offset EXCEPT ![p] = @ + 1]
              /\ count' = [count EXCEPT ![p] = @ - 1]
              /\ UNCHANGED <<lock, want, roffset, pc, sig, wchan, left>>
  BY DEF Readi
<1>3. ~more => /\ roffset' = offset[p] + 1 /\ lock' = FALSE /\ want' = FALSE
               /\ wchan' = Wake(Prele.wakes) /\ Return(p)
  BY DEF Readi, Prele
<1> HIDE DEF more
<1>4. p \in Reader /\ p \notin Writer
  BY <1>1, Ends DEF WriterPc, Proc
<1>5. /\ size \in 0..PIPSIZ /\ roffset \in 0..PIPSIZ /\ PIPSIZ \in Nat
      /\ offset[p] \in 0..PIPSIZ /\ offset[p] < PIPSIZ
      /\ count[p] \in 0..MaxWrite /\ MaxWrite \in Nat
      /\ Orderly => roffset <= offset[p] /\ offset[p] < size
  BY <1>1, <1>4, PipeAssumption DEF Inv, Types, ReaderInside
<1>6. /\ received' \in Seq(0..MaxUnits)
      /\ Orderly => received' \in Seq(1..MaxUnits)
  <2>1. data[offset[p] + 1] \in 0..MaxUnits /\ received \in Seq(0..MaxUnits)
    BY SMTT(30), <1>5 DEF Inv, Types
  <2>2. Orderly => data[offset[p] + 1] \in 1..MaxUnits /\ received \in Seq(1..MaxUnits)
    <3>1. sent \in 0..MaxUnits /\ MaxUnits \in Nat
      BY PipeAssumption DEF Inv, Types
    <3>2. Orderly => data[offset[p] + 1] \in 1..sent
      BY <1>5 DEF Inv, Written
    <3> QED
      BY <3>1, <3>2 DEF Inv, ReaderInside
  <2> QED
    BY <1>1, <2>1, <2>2, AppendProperties
<1>7. CASE more
  <2>1. /\ offset' = [offset EXCEPT ![p] = @ + 1] /\ offset[p] + 1 < size
        /\ count' = [count EXCEPT ![p] = @ - 1] /\ count[p] > 1
        /\ UNCHANGED <<lock, want, roffset, pc, sig, wchan, left>>
    BY <1>2, <1>7 DEF more
  <2>2. /\ offset' \in [Proc -> 0..PIPSIZ] /\ count' \in [Proc -> 0..MaxWrite]
        /\ offset'[p] = offset[p] + 1
        /\ \A q \in Proc \ {p} : UNCHANGED <<offset[q], count[q]>>
    <3>1. offset[p] + 1 \in 0..PIPSIZ /\ count[p] - 1 \in 0..MaxWrite
      BY <1>5, <2>1
    <3> QED
      BY <2>1, <3>1 DEF Inv, Types
  <2>3. Types'
    BY <1>1, <1>6, <2>1, <2>2 DEF Inv, Types
  <2>4. Roles' /\ Counts' /\ Locked'
    BY <1>1, <2>1 DEF Inv, Roles, Counts, Gone, Open, Members, Locked, OneInside, Inside
  <2>5. WriterInside'
    BY <1>1, <1>4, <2>1, <2>2 DEF Inv, WriterInside, Proc
  <2>6. Written'
    <3>1. \A q \in Writer : UNCHANGED <<pc[q], left[q], count[q]>>
      BY <1>4, <2>1, <2>2 DEF Proc
    <3>2. Pending' = Pending
      BY <3>1 DEF Pending
    <3> QED
      BY <1>1, <3>1, <3>2 DEF Inv, Written
  <2>7. ReaderInside'
    <3>1. Orderly' = Orderly
      BY <1>1 DEF Orderly, OneReader
    <3>2. offset'[p] < PIPSIZ /\ offset'[p] < size /\ (Orderly => roffset <= offset'[p])
      BY <1>5, <2>1, <2>2
    <3> QED
      BY <1>1, <1>6, <2>1, <2>2, <3>1, <3>2 DEF Inv, ReaderInside, Proc
  <2>8. NoLostWakeup'
    BY <1>1, <2>1 DEF Inv, NoLostWakeup
  <2> QED
    BY <2>3, <2>4, <2>5, <2>6, <2>7, <2>8 DEF Inv
<1>8. CASE ~more
  <2>1. /\ roffset' = offset[p] + 1 /\ lock' = FALSE /\ want' = FALSE
        /\ Types /\ Moved(p, {"user"}) /\ WokenBut(p, "awake", Prele.wakes)
    BY <1>3, <1>8, Returned, Woken DEF Inv
  <2>2. Types'
    <3>1. roffset' \in 0..PIPSIZ
      BY <1>5, <2>1
    <3> QED
      BY <1>1, <1>6, <2>1, <3>1 DEF Types, Moved, WokenBut
  <2>3. /\ pc'[p] = "user"
        /\ \A q \in Proc \ {p} : UNCHANGED <<pc[q], offset[q], count[q], left[q]>>
    BY <2>1 DEF Moved
  <2>4. Roles'
    BY <1>4, <2>3 DEF Inv, Roles, Proc, ReaderPc
  <2>5. Counts'
    BY <1>1, <2>3, CountsFrame
  <2>6. icount = 2 => Inside = {p}
    BY <1>1 DEF Inv, Locked, OneInside, Inside
  <2>7. Locked'
    <3>1. icount = 2 => Inside' = {}
      BY <2>3, <2>6 DEF Inside
    <3>2. \A q \in Writer : pc'[q] = pc[q]
      BY <1>4, <2>3 DEF Proc
    <3> QED
      BY <1>1, <2>1, <3>1, <3>2 DEF Inv, Locked, OneInside
  <2>8. WriterInside'
    BY <1>1, <1>4, <2>3 DEF Inv, WriterInside, Proc
  <2>9. Written'
    BY <1>1, <2>1, <2>2, MovedWritten
  <2>10. ReaderInside'
    <3>1. Orderly' = Orderly
      BY <1>1 DEF Orderly, OneReader
    <3>2. Orderly => \A q \in Reader : pc'[q] # "readi"
      BY <1>4, <2>3, <2>6 DEF Orderly, OneReader, Inside, Proc
    <3>3. Orderly => roffset' <= size
      BY <1>5, <2>1
    <3>4. \A q \in Reader : pc'[q] = "readi" => offset'[q] < PIPSIZ
      BY <2>3 DEF Inv, ReaderInside, Proc
    <3> QED
      BY <1>1, <1>6, <3>1, <3>2, <3>3, <3>4 DEF ReaderInside
  <2>11. NoLostWakeup'
    <3>1. \A q \in Proc : wchan'[q] # "ip"
      <4>1. \A q \in Proc : wchan[q] = "ip" => "ip" \in Prele.wakes
        BY DEF Inv, NoLostWakeup, Prele
      <4> QED
        BY <2>1, <4>1 DEF WokenBut
    <3>2. \A q \in Proc : wchan'[q] \in {wchan[q], "awake"}
      BY <2>1 DEF WokenBut
    <3>3. \A q \in Proc : wchan[q] # "ip+2"
      <4>1. icount = 2 => roffset # size /\ ~\E q \in Writer : pc[q] = "writei"
        BY <1>4, <1>5, <2>6 DEF Orderly, Inside, Proc
      <4> QED
        BY <4>1 DEF Inv, NoLostWakeup
    <3> QED
      BY <1>1, <3>1, <3>2, <3>3 DEF Inv, NoLostWakeup
  <2> QED
    BY <2>2, <2>4, <2>5, <2>7, <2>8, <2>9, <2>10, <2>11 DEF Inv
<1> QED
  BY <1>7, <1>8

\* writep locks the pipe and enters writei.
LEMMA WritepStartInv ==
    ASSUME Inv, NEW p \in Proc, WritepStart(p)
    PROVE  Inv'
<1> DEFINE n == IF left[p] < PIPSIZ - size THEN left[p] ELSE PIPSIZ - size
<1>1. /\ p \in Writer /\ AtLoop(p) /\ ~lock /\ lock' = TRUE
      /\ left[p] # 0 /\ icount = 2 /\ size < PIPSIZ
      /\ count' = [count EXCEPT ![p] = n] /\ left' = [left EXCEPT ![p] = @ - n]
      /\ offset' = [offset EXCEPT ![p] = size] /\ pc' = [pc EXCEPT ![p] = "writei"]
      /\ UNCHANGED <<want, mode, icount, size, data, fcount, roffset, wchan, sig, asked,
                     signals, sent, received>>
  BY DEF WritepStart, file, log
<1>2. pc[p] \in {"readp", "writep", "rsleep", "wsleep"} /\ p \notin Reader
  BY <1>1, Ends DEF AtLoop
<1>3. /\ n \in 1..MaxWrite /\ n <= left[p] /\ size + n <= PIPSIZ
      /\ left[p] \in 0..MaxWrite /\ size \in 0..PIPSIZ
      /\ PIPSIZ \in Nat /\ MaxWrite \in Nat
  <2>1. left[p] \in 0..MaxWrite /\ size \in 0..PIPSIZ /\ PIPSIZ \in Nat /\ MaxWrite \in Nat
    BY PipeAssumption DEF Inv, Types
  <2> QED
    BY <1>1, <2>1
<1> HIDE DEF n
<1>4. /\ n \in 0..MaxWrite /\ left[p] - n \in 0..MaxWrite
      /\ pc'[p] = "writei" /\ offset'[p] = size /\ count'[p] = n /\ left'[p] = left[p] - n
      /\ \A q \in Proc \ {p} : UNCHANGED <<pc[q], offset[q], count[q], left[q]>>
  BY <1>1, <1>3 DEF Inv, Types
<1>5. Types'
  BY <1>1, <1>3, <1>4 DEF Inv, Types, WriterPc
<1>6. Roles'
  BY <1>1, <1>4, Ends DEF Inv, Roles, Proc, WriterPc
<1>7. Counts'
  BY <1>1, <1>2, <1>4, CountsFrame
<1>8. Inside = {}
  BY <1>1 DEF Inv, Locked
<1>9. Inside' = {p}
  BY <1>4, <1>8 DEF Inside
<1>10. Locked'
  <2>1. \A q \in Writer : pc'[q] = "writei" => q = p
    BY <1>9 DEF Inside, Proc
  <2> QED
    BY <1>1, <1>9, <2>1 DEF Locked, OneInside
<1>11. WriterInside'
  BY <1>1, <1>3, <1>4, <1>9 DEF WriterInside, Inside, Proc
<1>12. Written'
  <2>1. \A q \in Writer \ {p} : UNCHANGED <<pc[q], left[q], count[q]>>
    BY <1>4 DEF Proc
  <2>2. \A q \in Writer : left'[q] + (IF pc'[q] = "writei" THEN count'[q] ELSE 0)
                          = left[q] + (IF pc[q] = "writei" THEN count[q] ELSE 0)
    BY <1>2, <1>3, <1>4, <2>1
  <2>3. Pending' = Pending
    BY <2>2 DEF Pending
  <2>4. \A q \in Writer : pc'[q] = "writei" => q = p
    BY <1>9 DEF Inside, Proc
  <2> QED
    BY <1>1, <1>3, <1>4, <2>3, <2>4 DEF Inv, Written
<1>13. ReaderInside'
  <2>1. \A q \in Reader : pc'[q] = pc[q] /\ offset'[q] = offset[q]
    BY <1>2, <1>4 DEF Proc
  <2> QED
    BY <1>1, <2>1 DEF Inv, ReaderInside, Orderly, OneReader
<1>14. NoLostWakeup'
  <2>1. \A q \in Writer : pc[q] # "writei"
    BY <1>8 DEF Inside, Proc
  <2> QED
    BY <1>1, <1>2, <2>1 DEF Inv, NoLostWakeup
<1> QED
  BY <1>5, <1>6, <1>7, <1>10, <1>11, <1>12, <1>13, <1>14 DEF Inv

\* The end of writei, with what is left of the count dropped or not.
LEMMA WritepEndFrame ==
    ASSUME Inv, NEW p \in Proc, pc[p] = "writei", WritepEnd(p),
           UNCHANGED <<icount, fcount, roffset, received>>, size <= size', size' \in Nat,
           \A q \in Proc \ {p} : UNCHANGED <<offset[q], count[q]>>
    PROVE  /\ p \in Writer
           /\ lock' \in BOOLEAN /\ want' \in BOOLEAN /\ mode' \subseteq {"IREAD", "IWRITE"}
           /\ pc' \in [Proc -> ReaderPc \cup WriterPc]
           /\ wchan' \in [Proc -> {"awake", "ip", "ip+1", "ip+2"}]
           /\ pc'[p] = "writep" /\ \A q \in Proc \ {p} : pc'[q] = pc[q]
           /\ Roles' /\ Counts' /\ Locked' /\ WriterInside' /\ ReaderInside'
           /\ NoLostWakeup'
<1> DEFINE woken == Prele.wakes \cup (IF "IREAD" \in mode THEN {"ip+2"} ELSE {})
<1>1. /\ lock' = FALSE /\ want' = FALSE /\ mode' = mode \ {"IREAD"}
      /\ wchan' = Wake(woken) /\ pc' = [pc EXCEPT ![p] = "writep"]
  BY DEF WritepEnd, Prele
<1> HIDE DEF woken
<1>2. p \in Writer /\ p \notin Reader
  BY Ends DEF ReaderPc, Proc
<1>3. /\ pc' \in [Proc -> ReaderPc \cup WriterPc]
      /\ pc'[p] = "writep" /\ \A q \in Proc \ {p} : pc'[q] = pc[q]
  BY <1>1 DEF Inv, Types, WriterPc
<1>4. WokenBut(p, "awake", woken)
  BY <1>1, Woken DEF Inv
<1>5. Roles'
  BY <1>2, <1>3 DEF Inv, Roles, Proc, WriterPc
<1>6. Counts'
  BY <1>3, CountsFrame
<1>7. /\ icount = 2 => Inside = {p}
      /\ \A q \in Writer : pc[q] = "writei" => q = p
  BY <1>2 DEF Inv, Locked, OneInside, Inside
<1>8. Locked'
  <2>1. icount = 2 => Inside' = {}
    BY <1>3, <1>7 DEF Inside
  <2>2. \A q \in Writer : pc'[q] # "writei"
    BY <1>3, <1>7 DEF Proc
  <2> QED
    BY <1>1, <2>1, <2>2 DEF Locked, OneInside
<1>9. WriterInside'
  BY <1>3, <1>7 DEF WriterInside, Proc
<1>10. ReaderInside'
  <2>1. \A q \in Reader : pc'[q] = pc[q] /\ offset'[q] = offset[q]
    BY <1>2, <1>3 DEF Proc
  <2>2. /\ size \in Nat /\ roffset \in Nat
        /\ \A q \in Reader : offset[q] \in Nat
    BY DEF Inv, Types, Proc
  <2> QED
    BY <2>1, <2>2 DEF Inv, ReaderInside, Orderly, OneReader
<1>11. NoLostWakeup'
  <2>1. \A q \in Proc : /\ wchan[q] = "ip" => "ip" \in woken
                        /\ wchan[q] = "ip+2" => "ip+2" \in woken
    BY DEF Inv, NoLostWakeup, Prele, woken
  <2>2. \A q \in Proc : wchan[q] # "ip+1"
    <3>1. size # PIPSIZ
      <4>1. count[p] > 0 /\ size + count[p] <= PIPSIZ /\ count[p] \in Nat
            /\ size \in Nat /\ PIPSIZ \in Nat
        BY <1>2, PipeAssumption DEF Inv, WriterInside, Types
      <4> QED
        BY <4>1
    <3> QED
      BY <3>1 DEF Inv, NoLostWakeup
  <2>3. \A q \in Proc : wchan'[q] = "awake"
    <3>1. \A q \in Proc : wchan[q] \in {"awake", "ip", "ip+1", "ip+2"}
      BY DEF Inv, Types
    <3> QED
      BY <1>4, <2>1, <2>2, <3>1 DEF WokenBut
  <2> QED
    BY <2>3 DEF NoLostWakeup
<1>12. lock' \in BOOLEAN /\ want' \in BOOLEAN /\ mode' \subseteq {"IREAD", "IWRITE"}
  BY <1>1 DEF Inv, Types
<1> QED
  BY <1>2, <1>3, <1>4, <1>5, <1>6, <1>8, <1>9, <1>10, <1>11, <1>12 DEF WokenBut

\* writei gets no block.
LEMMA WriteiNoSpaceInv ==
    ASSUME Inv, NEW p \in Proc, WriteiNoSpace(p)
    PROVE  Inv'
<1>1. /\ pc[p] = "writei" /\ WritepEnd(p)
      /\ UNCHANGED <<icount, size, data, fcount, roffset, sig, offset, count, left, asked,
                     signals, sent, received>>
  BY DEF WriteiNoSpace, file, transfer, log
<1>2. size \in Nat
  BY DEF Inv, Types
<1>3. /\ p \in Writer
      /\ lock' \in BOOLEAN /\ want' \in BOOLEAN /\ mode' \subseteq {"IREAD", "IWRITE"}
      /\ pc' \in [Proc -> ReaderPc \cup WriterPc]
      /\ wchan' \in [Proc -> {"awake", "ip", "ip+1", "ip+2"}]
      /\ pc'[p] = "writep" /\ \A q \in Proc \ {p} : pc'[q] = pc[q]
      /\ Roles' /\ Counts' /\ Locked' /\ WriterInside' /\ ReaderInside' /\ NoLostWakeup'
  BY <1>1, <1>2, WritepEndFrame
<1>4. Types'
  BY <1>1, <1>3 DEF Inv, Types
<1>5. Written'
  <2>1. \A q \in Writer : left[q] \in Nat /\ count[q] \in Nat
    BY DEF Inv, Types, Proc
  <2>2. \A q \in Writer : left'[q] + (IF pc'[q] = "writei" THEN count'[q] ELSE 0)
                          <= left[q] + (IF pc[q] = "writei" THEN count[q] ELSE 0)
    BY <1>1, <1>3, <2>1 DEF Proc
  <2> QED
    BY <1>1, <1>2, <1>4, <2>2, WrittenFrame
<1> QED
  BY <1>3, <1>4, <1>5 DEF Inv

\* What writei is about to write is among the units asked for and not sent.
LEMMA NextUnit ==
    ASSUME Inv, NEW p \in Writer, pc[p] = "writei"
    PROVE  /\ <<p, left[p] + count[p]>> \in Pending
           /\ sent + 1 \in 1..MaxUnits
<1>1. /\ left[p] \in 0..MaxWrite /\ count[p] \in 0..MaxWrite /\ MaxWrite \in Nat
      /\ count[p] > 0 /\ left[p] + count[p] <= MaxWrite
  BY PipeAssumption DEF Inv, Types, Proc, WriterInside, Written
<1>2. <<p, left[p] + count[p]>> \in Pending
  <2>1. left[p] + count[p] \in 1..MaxWrite
    BY <1>1
  <2> QED
    BY <2>1 DEF Pending
<1>3. Cardinality(Pending) >= 1
  BY <1>2, Finite, FS_EmptySet
<1>4. sent \in Nat /\ asked \in 0..MaxUnits /\ MaxUnits \in Nat
  BY PipeAssumption DEF Inv, Types
<1> QED
  BY <1>2, <1>3, <1>4, Finite DEF Inv, Written

\* writei moves a block.
LEMMA WriteiInv ==
    ASSUME Inv, NEW p \in Proc, Writei(p)
    PROVE  Inv'
<1>1. /\ pc[p] = "writei"
      /\ data' = [data EXCEPT ![offset[p] + 1] = sent + 1] /\ sent' = sent + 1
      /\ offset' = [offset EXCEPT ![p] = @ + 1]
      /\ size' = (IF offset[p] + 1 > size THEN offset[p] + 1 ELSE size)
      /\ count' = [count EXCEPT ![p] = @ - 1]
      /\ IF count[p] > 1 THEN UNCHANGED <<lock, want, mode, wchan, pc>> ELSE WritepEnd(p)
      /\ UNCHANGED <<icount, fcount, roffset, sig, left, asked, signals, received>>
  BY DEF Writei, file
<1>2. p \in Writer /\ p \notin Reader
  BY <1>1, Ends DEF ReaderPc, Proc
<1>3. /\ size \in 0..PIPSIZ /\ PIPSIZ \in Nat /\ offset[p] = size
      /\ count[p] \in 1..MaxWrite /\ MaxWrite \in Nat /\ size + count[p] <= PIPSIZ
      /\ left[p] \in 0..MaxWrite /\ left[p] + count[p] <= MaxWrite
      /\ sent \in 0..MaxUnits /\ MaxUnits \in Nat /\ asked \in 0..MaxUnits
  BY <1>1, <1>2, PipeAssumption DEF Inv, Types, WriterInside, Written
<1>4. sent + 1 \in 0..MaxUnits
  <2>1. sent + 1 \in 1..MaxUnits
    BY <1>1, <1>2, NextUnit
  <2> QED
    BY <1>3, <2>1
<1>5. /\ size' = size + 1 /\ size' \in 0..PIPSIZ
      /\ size + 1 \in 1..PIPSIZ /\ count[p] - 1 \in 0..MaxWrite
  BY <1>1, <1>3
<1>6. /\ data' \in [1..PIPSIZ -> 0..MaxUnits]
      /\ data'[size + 1] = sent + 1
      /\ \A i \in 1..PIPSIZ : i # size + 1 => data'[i] = data[i]
  BY <1>1, <1>3, <1>4, <1>5 DEF Inv, Types
<1>7. /\ offset' \in [Proc -> 0..PIPSIZ] /\ count' \in [Proc -> 0..MaxWrite]
      /\ offset'[p] = size + 1 /\ count'[p] = count[p] - 1
      /\ \A q \in Proc \ {p} : UNCHANGED <<offset[q], count[q]>>
  BY <1>1, <1>3, <1>5 DEF Inv, Types
<1>8. \A i \in 1..size' : data'[i] \in 1..sent'
  <2>1. SUFFICES ASSUME NEW i \in 1..size' PROVE data'[i] \in 1..sent'
    OBVIOUS
  <2>2. CASE i = size + 1
    BY <1>1, <1>3, <1>6, <2>2
  <2>3. CASE i # size + 1
    <3>1. i \in 1..size /\ i \in 1..PIPSIZ
      BY <1>3, <1>5, <2>1, <2>3
    <3>2. data[i] \in 1..sent
      BY <3>1 DEF Inv, Written
    <3> QED
      BY <1>1, <1>3, <1>6, <2>3, <3>1, <3>2
  <2> QED
    BY <2>2, <2>3
<1>9. ASSUME NEW q \in Proc, q # p, pc[q] = "writei" PROVE FALSE
  <2>1. q \in Writer
    BY <1>9, Ends DEF ReaderPc, Proc
  <2> QED
    BY <1>1, <1>2, <1>9, <2>1 DEF Inv, Locked
<1>10. ASSUME pc'[p] = IF count[p] > 1 THEN "writei" ELSE "writep",
              \A q \in Proc \ {p} : pc'[q] = pc[q], Types'
       PROVE  Written'
  <2> DEFINE last == <<p, left[p] + count[p]>>
  <2>1. \A q \in Writer : left[q] \in Nat /\ count[q] \in Nat
    BY DEF Inv, Types, Proc
  <2>2. \A q \in Writer \ {p} : UNCHANGED <<pc[q], left[q], count[q]>>
    BY <1>1, <1>7, <1>10 DEF Proc
  <2>3. /\ (left[p] + IF pc[p] = "writei" THEN count[p] ELSE 0) = left[p] + count[p]
        /\ (left'[p] + IF pc'[p] = "writei" THEN count'[p] ELSE 0) = left[p] + count[p] - 1
    BY <1>1, <1>3, <1>7, <1>10
  <2>4. Pending' = Pending \ {last}
    <3>1. \A i \in 1..MaxWrite : i <= left[p] + count[p] - 1
                                    <=> i <= left[p] + count[p] /\ i # left[p] + count[p]
      BY <1>3
    <3>2. \A w \in Writer \X (1..MaxWrite) :
             w[2] <= left'[w[1]] + (IF pc'[w[1]] = "writei" THEN count'[w[1]] ELSE 0)
             <=> /\ w[2] <= left[w[1]] + (IF pc[w[1]] = "writei" THEN count[w[1]] ELSE 0)
                 /\ w # last
      <4>1. SUFFICES ASSUME NEW q \in Writer, NEW i \in 1..MaxWrite
                     PROVE  i <= left'[q] + (IF pc'[q] = "writei" THEN count'[q] ELSE 0)
                            <=> /\ i <= left[q] + (IF pc[q] = "writei" THEN count[q] ELSE 0)
                                /\ <<q, i>> # last
        OBVIOUS
      <4>2. CASE q = p
        BY <1>1, <2>3, <3>1, <4>1, <4>2
      <4>3. CASE q # p
        BY <2>2, <4>1, <4>3
      <4> QED
        BY <4>2, <4>3
    <3> QED
      BY <3>2 DEF Pending
  <2>5. last \in Pending
    BY <1>1, <1>2, NextUnit
  <2>6. Cardinality(Pending') = Cardinality(Pending) - 1
    <3> HIDE DEF last
    <3> QED
      BY <2>4, <2>5, Finite, FS_RemoveElement
  <2>7. sent' + Cardinality(Pending') <= asked'
    BY <1>1, <1>3, <2>6, Finite DEF Inv, Written
  <2>8. \A q \in Writer : pc'[q] = "writei" => left'[q] + count'[q] <= MaxWrite
    BY <1>1, <1>3, <1>7, <1>9, <1>10 DEF Proc
  <2> QED
    BY <1>8, <2>7, <2>8 DEF Written
<1>11. CASE count[p] > 1
  <2>1. UNCHANGED <<lock, want, mode, wchan, pc>>
    BY <1>1, <1>11
  <2>2. Types'
    BY <1>1, <1>4, <1>5, <1>6, <1>7, <2>1 DEF Inv, Types
  <2>3. Roles' /\ Counts' /\ Locked'
    BY <1>1, <2>1 DEF Inv, Roles, Counts, Gone, Open, Members, Locked, OneInside, Inside
  <2>4. WriterInside'
    BY <1>3, <1>5, <1>7, <1>9, <1>11, <2>1 DEF WriterInside, Proc
  <2>5. Written'
    BY <1>1, <1>10, <1>11, <2>1, <2>2
  <2>6. ReaderInside'
    <3>1. \A q \in Reader : offset'[q] = offset[q] /\ offset[q] \in Nat
      BY <1>2, <1>7 DEF Inv, Types, Proc
    <3>2. roffset \in Nat
      BY DEF Inv, Types
    <3> QED
      BY SMTT(30), <1>1, <1>3, <1>5, <2>1, <3>1, <3>2
         DEF Inv, ReaderInside, Orderly, OneReader
  <2>7. NoLostWakeup'
    <3>1. size # PIPSIZ
      BY <1>3
    <3> QED
      BY <1>1, <1>2, <2>1, <3>1 DEF Inv, NoLostWakeup
  <2> QED
    BY <2>2, <2>3, <2>4, <2>5, <2>6, <2>7 DEF Inv
<1>12. CASE ~(count[p] > 1)
  <2>1. /\ lock' \in BOOLEAN /\ want' \in BOOLEAN /\ mode' \subseteq {"IREAD", "IWRITE"}
        /\ pc' \in [Proc -> ReaderPc \cup WriterPc]
        /\ wchan' \in [Proc -> {"awake", "ip", "ip+1", "ip+2"}]
        /\ pc'[p] = "writep" /\ \A q \in Proc \ {p} : pc'[q] = pc[q]
        /\ Roles' /\ Counts' /\ Locked' /\ WriterInside' /\ ReaderInside' /\ NoLostWakeup'
    <3>1. WritepEnd(p) /\ size <= size' /\ size' \in Nat
      BY <1>1, <1>3, <1>5, <1>12
    <3> QED
      BY <1>1, <1>7, <3>1, WritepEndFrame
  <2>2. Types'
    BY <1>1, <1>4, <1>5, <1>6, <1>7, <2>1 DEF Inv, Types
  <2>3. Written'
    BY <1>10, <1>12, <2>1, <2>2
  <2> QED
    BY <2>1, <2>2, <2>3 DEF Inv
<1> QED
  BY <1>11, <1>12

\* The last process of an end is the one that closes it.
LEMMA CloseCounts ==
    ASSUME Inv, NEW p \in Proc, pc[p] = "user", pc'[p] = "closed",
           \A q \in Proc \ {p} : pc'[q] = pc[q],
           fcount' = [fcount EXCEPT ![End(p)] = @ - 1]
    PROVE  /\ fcount' \in [{"read", "write"} -> Nat]
           /\ \A e \in {"read", "write"} : fcount'[e] = Cardinality(Open(e)')
           /\ \A e \in {"read", "write"} \ {End(p)} : Gone(e)' = Gone(e)
           /\ ~Gone(End(p)) /\ (Gone(End(p))' <=> fcount[End(p)] <= 1)
<1> DEFINE e == End(p)
<1>1. e \in {"read", "write"} /\ p \in Members(e) /\ p \in Open(e)
  BY DEF End, Members, Open, Proc
<1>2. Open(e)' = Open(e) \ {p}
  BY <1>1 DEF Open, Members, Proc
<1>3. \A d \in {"read", "write"} \ {e} : p \notin Members(d) /\ Open(d)' = Open(d)
  <2>1. \A d \in {"read", "write"} \ {e} : p \notin Members(d)
    BY Ends DEF Members, End, Proc
  <2> QED
    BY <2>1 DEF Open, Members, Proc
<1>4. /\ fcount[e] = Cardinality(Open(e)) /\ Cardinality(Open(e)) \in Nat
      /\ IsFiniteSet(Open(e)) /\ IsFiniteSet(Open(e)') /\ Cardinality(Open(e)') \in Nat
      /\ Cardinality(Open(e)') = Cardinality(Open(e)) - 1
  <2>1. fcount[e] = Cardinality(Open(e)) /\ Cardinality(Open(e)) \in Nat /\ IsFiniteSet(Open(e))
    BY <1>1, Finite DEF Inv, Counts
  <2>2. /\ IsFiniteSet(Open(e) \ {p})
        /\ Cardinality(Open(e) \ {p}) = Cardinality(Open(e)) - 1
    BY <1>1, <2>1, FS_RemoveElement
  <2>3. Cardinality(Open(e) \ {p}) \in Nat
    BY <2>2, FS_CardinalityType
  <2> QED
    BY <1>2, <2>1, <2>2, <2>3
<1>5. fcount \in [{"read", "write"} -> Nat] /\ \A d \in {"read", "write"} : fcount[d] = Cardinality(Open(d))
  BY DEF Inv, Types, Counts
<1>6. Open(e)' = {} <=> fcount[e] <= 1
  <2>1. Open(e)' = {} <=> Cardinality(Open(e)') = 0
    BY <1>4, FS_EmptySet
  <2> QED
    BY <1>4, <2>1
<1> HIDE DEF e
<1>7. /\ fcount' \in [{"read", "write"} -> Nat]
      /\ \A d \in {"read", "write"} : fcount'[d] = Cardinality(Open(d)')
  BY <1>1, <1>3, <1>4, <1>5 DEF e
<1>8. /\ \A d \in {"read", "write"} \ {e} : Gone(d)' = Gone(d)
      /\ ~Gone(e) /\ (Gone(e)' <=> fcount[e] <= 1)
  BY <1>1, <1>3, <1>6 DEF Gone, Members
<1> QED
  BY <1>7, <1>8 DEF e

\* A process closes its end.
LEMMA ClosefInv ==
    ASSUME Inv, NEW p \in Proc, Closef(p)
    PROVE  Inv'
<1> DEFINE last == fcount[End(p)] <= 1
<1>1. /\ pc[p] = "user" /\ pc' = [pc EXCEPT ![p] = "closed"] /\ mode' = {}
      /\ fcount' = [fcount EXCEPT ![End(p)] = @ - 1]
      /\ UNCHANGED <<data, sig, offset, count, left, asked, signals, sent, received>>
  BY DEF Closef, transfer, log
<1>2. last => /\ icount' = icount - 1
              /\ size' = (IF icount = 1 THEN 0 ELSE size)
              /\ roffset' = (IF icount = 1 THEN 0 ELSE roffset)
              /\ lock' = FALSE /\ want' = FALSE
              /\ wchan' = Wake(Prele.wakes \cup {"ip+1", "ip+2"})
  BY DEF Closef, Prele
<1>3. ~last => /\ wchan' = Wake({"ip+1", "ip+2"})
               /\ UNCHANGED <<icount, size, roffset, lock, want>>
  BY DEF Closef
<1>4. pc'[p] = "closed" /\ \A q \in Proc \ {p} : pc'[q] = pc[q]
  BY <1>1 DEF Inv, Types
<1>5. /\ fcount' \in [{"read", "write"} -> Nat]
      /\ \A e \in {"read", "write"} : fcount'[e] = Cardinality(Open(e)')
      /\ \A e \in {"read", "write"} \ {End(p)} : Gone(e)' = Gone(e)
      /\ ~Gone(End(p)) /\ (Gone(End(p))' <=> last)
  BY <1>1, <1>4, CloseCounts
<1> HIDE DEF last
<1>6. End(p) \in {"read", "write"}
  BY DEF End
<1>7. /\ Counts' /\ icount' \in 0..2 /\ icount' <= icount
      /\ last => icount' = icount - 1 /\ icount' # 2
      /\ last /\ icount = 1 => Gone("read")' /\ Gone("write")'
  <2>1. icount = (IF Gone("read") THEN 0 ELSE 1) + (IF Gone("write") THEN 0 ELSE 1)
    BY DEF Inv, Counts
  <2>2. icount' = (IF Gone("read")' THEN 0 ELSE 1) + (IF Gone("write")' THEN 0 ELSE 1)
    BY <1>2, <1>3, <1>5, <1>6, <2>1
  <2> QED
    BY <1>2, <1>3, <1>5, <1>6, <2>1, <2>2 DEF Counts
<1>8. Inside' = Inside /\ p \notin Inside
  BY <1>1, <1>4 DEF Inside
<1>9. \/ UNCHANGED <<size, roffset>>
      \/ size' = 0 /\ roffset' = 0 /\ Inside = {}
  <2>1. CASE last /\ icount = 1
    <3>1. \A q \in Proc : pc'[q] = "closed"
      BY <1>7, <2>1 DEF Gone, Open, Members, Proc
    <3> QED
      BY <1>2, <1>8, <2>1, <3>1 DEF Inside
  <2> QED
    BY <1>2, <1>3, <2>1
<1>10. /\ wchan' \in [Proc -> {"awake", "ip", "ip+1", "ip+2"}]
       /\ \A q \in Proc : /\ wchan'[q] \in {"awake", wchan[q]}
                          /\ wchan'[q] # "ip+1" /\ wchan'[q] # "ip+2"
                          /\ wchan'[q] = "ip" => ~last
  <2>1. \A q \in Proc : wchan[q] = "ip" => "ip" \in Prele.wakes
    BY DEF Inv, NoLostWakeup, Prele
  <2>2. CASE last
    <3>1. WokenBut(p, "awake", Prele.wakes \cup {"ip+1", "ip+2"})
      BY <1>2, <2>2, Woken DEF Inv
    <3> QED
      BY <2>1, <3>1 DEF WokenBut
  <2>3. CASE ~last
    <3>1. WokenBut(p, "awake", {"ip+1", "ip+2"})
      BY <1>3, <2>3, Woken DEF Inv
    <3> QED
      BY <2>3, <3>1 DEF WokenBut
  <2> QED
    BY <2>2, <2>3
<1>11. Types'
  <2>1. size' \in 0..PIPSIZ /\ roffset' \in 0..PIPSIZ
    BY <1>9, PipeAssumption DEF Inv, Types
  <2>2. lock' \in BOOLEAN /\ want' \in BOOLEAN /\ mode' \subseteq {"IREAD", "IWRITE"}
    BY <1>1, <1>2, <1>3 DEF Inv, Types
  <2>3. pc' \in [Proc -> ReaderPc \cup WriterPc]
    BY <1>1 DEF Inv, Types, ReaderPc
  <2> QED
    BY <1>1, <1>5, <1>7, <1>10, <2>1, <2>2, <2>3 DEF Inv, Types
<1>12. Roles'
  BY <1>1, <1>4 DEF Inv, Roles, Proc, ReaderPc, WriterPc
<1>13. Locked'
  <2>1. icount' = 2 => icount = 2 /\ lock' = lock
    BY <1>3, <1>7
  <2>2. \A q \in Writer : pc'[q] = "writei" => pc[q] = "writei"
    BY <1>4 DEF Proc
  <2> QED
    BY <1>8, <2>1, <2>2 DEF Inv, Locked, OneInside
<1>14. WriterInside'
  BY <1>1, <1>4, <1>9 DEF Inv, WriterInside, Inside, Proc
<1>15. Written'
  <2>1. \A q \in Writer : (pc'[q] = "writei" <=> pc[q] = "writei") /\ UNCHANGED <<left[q], count[q]>>
    BY <1>1, <1>4 DEF Proc
  <2>2. Pending' = Pending
    BY <2>1 DEF Pending
  <2>3. size' = size \/ size' = 0
    BY <1>9
  <2> QED
    BY <1>1, <2>1, <2>2, <2>3 DEF Inv, Written
<1>16. ReaderInside'
  <2>1. Orderly' => Orderly
    BY <1>3, <1>7 DEF Orderly, OneReader
  <2>2. \A q \in Reader : pc'[q] = "readi" => pc[q] = "readi" /\ q \in Inside
    BY <1>4 DEF Inside, Proc
  <2> QED
    BY <1>1, <1>9, <2>1, <2>2 DEF Inv, ReaderInside
<1>17. NoLostWakeup'
  <2>1. \A q \in Proc : wchan'[q] = "ip" => lock' /\ want'
    BY <1>3, <1>10 DEF Inv, NoLostWakeup
  <2> QED
    BY <1>10, <2>1 DEF NoLostWakeup
<1> QED
  BY <1>7, <1>11, <1>12, <1>13, <1>14, <1>15, <1>16, <1>17 DEF Inv

-----------------------------------------------------------------------------
(* The theorems. *)

\* A pipe just made.
LEMMA InitInv == Init => Inv
<1>1. SUFFICES ASSUME Init PROVE Inv
  OBVIOUS
<1>2. Open("read") = Reader /\ Open("write") = Writer
  BY <1>1 DEF Init, Open, Members, Proc
<1>3. /\ Cardinality(Reader) \in Nat /\ Cardinality(Writer) \in Nat
  BY <1>2, Finite
<1>4. Types
  <2>1. 0 \in 0..MaxUnits /\ 0 \in 0..MaxSig /\ 0 \in 0..MaxWrite /\ 0 \in 0..PIPSIZ
    BY PipeAssumption
  <2>2. received \in Seq(0..MaxUnits)
    BY <1>1, EmptySeq DEF Init
  <2>3. fcount \in [{"read", "write"} -> Nat]
    BY <1>1, <1>3 DEF Init
  <2>4. size \in 0..PIPSIZ /\ roffset \in 0..PIPSIZ /\ icount \in 0..2
    BY <1>1, <2>1 DEF Init
  <2> QED
    BY <1>1, <2>1, <2>2, <2>3, <2>4 DEF Init, Types, ReaderPc
<1>5. Roles
  BY <1>1 DEF Init, Roles, Proc, ReaderPc, WriterPc
<1>6. Counts
  BY <1>1, <1>2, <1>3 DEF Init, Counts, Gone, Members
<1>7. \A p \in Proc : pc[p] = "user" /\ wchan[p] = "awake"
  BY <1>1 DEF Init
<1>8. Locked /\ WriterInside /\ NoLostWakeup
  BY <1>1, <1>7 DEF Init, Locked, OneInside, Inside, WriterInside, NoLostWakeup, Proc
<1>9. ReaderInside
  BY <1>1, <1>7, EmptySeq DEF Init, ReaderInside, Proc
<1>10. Written
  <2>1. Pending = {}
    BY <1>1, PipeAssumption DEF Init, Pending, Proc
  <2>2. Cardinality(Pending) = 0
    BY <2>1, FS_EmptySet
  <2> QED
    BY <1>1, <1>7, <2>2 DEF Init, Written, Proc
<1> QED
  BY <1>4, <1>5, <1>6, <1>8, <1>9, <1>10 DEF Inv

\* Every step keeps the invariant.
LEMMA NextInv == Inv /\ [Next]_vars => Inv'
<1> SUFFICES ASSUME Inv, [Next]_vars PROVE Inv'
  OBVIOUS
<1>1. CASE UNCHANGED vars
  <2>1. UNCHANGED <<lock, want, mode, icount, size, data, fcount, roffset, pc, wchan, sig,
                    offset, count, left, asked, signals, sent, received>>
    BY <1>1 DEF vars, inode, file, transfer, log
  <2>2. Types' /\ Roles' /\ NoLostWakeup'
    BY <2>1 DEF Inv, Types, Roles, NoLostWakeup
  <2>3. Counts' /\ Locked' /\ WriterInside'
    BY <2>1 DEF Inv, Counts, Gone, Open, Members, Locked, OneInside, Inside, WriterInside
  <2>4. Pending' = Pending
    BY <2>1 DEF Pending
  <2>5. Written' /\ ReaderInside'
    BY <2>1, <2>4 DEF Inv, Written, ReaderInside, Orderly, OneReader
  <2> QED
    BY <2>2, <2>3, <2>5 DEF Inv
<1>2. ASSUME NEW p \in Proc, Call(p) \/ Step(p) \/ Closef(p) \/ Psignal(p)
      PROVE  Inv'
  <2>1. CASE Call(p)
    BY <2>1, ReadCallInv, WriteCallInv DEF Call
  <2>2. CASE Step(p)
    BY <2>2, PlockInv, InterruptedInv, ReadpEmptyInv, ReadpStartInv, ReadiInv,
       WritepReturnInv, WritepFullInv, WritepStartInv, WriteiInv, WriteiNoSpaceInv DEF Step
  <2> QED
    BY <1>2, <2>1, <2>2, ClosefInv, PsignalInv
<1> QED
  BY <1>1, <1>2 DEF Next

\* The inductive invariant holds in every reachable state.
THEOREM Invariance == Spec => []Inv
<1> QED
  BY InitInv, NextInv, PTL DEF Spec

\* With any number of readers and writers nobody sleeps for something that has
\* happened, and while both ends are open one process is in readi or writei.
WhileOpen == NoLostWakeup /\ (icount = 2 => OneInside)
THEOREM SafeWhileOpen == Spec => []WhileOpen
<1>1. Inv => WhileOpen
  BY DEF Inv, Locked, WhileOpen
<1> QED
  BY <1>1, Invariance, PTL

\* One process inside, when the read end is not shared: the last close unlocks
\* the pipe only under a reader or a writer who is then alone.
LEMMA InsideAlone ==
    ASSUME OneReader, Inv
    PROVE  OneInside
<1>1. CASE icount = 2
  BY <1>1 DEF Inv, Locked
<1>2. CASE icount # 2
  <2>1. Gone("read") \/ Gone("write")
    BY <1>2 DEF Inv, Counts
  <2>2. (\A q \in Reader : pc[q] = "closed") \/ (\A q \in Writer : pc[q] = "closed")
    BY <2>1 DEF Gone, Open, Members
  <2>3. \A q \in Inside : /\ q \in Reader \/ q \in Writer
                          /\ pc[q] # "closed"
                          /\ q \in Writer => pc[q] = "writei"
    BY Ends DEF Inside, Proc, WriterPc
  <2> QED
    BY <2>2, <2>3 DEF OneReader, OneInside, Inv, Locked
<1> QED
  BY <1>1, <1>2

\* plock, prele and the waits of readp and writep: the types, one process
\* inside, and nobody left asleep, for a pipe with one reader.
THEOREM Safe ==
    ASSUME OneReader
    PROVE  Spec => []PipeIsSafe
<1>1. Inv => PipeIsSafe
  <2>1. SUFFICES ASSUME Inv PROVE PipeIsSafe
    OBVIOUS
  <2>2. roffset \in 0..size /\ received \in Seq(1..MaxUnits)
    BY <2>1, OneReader DEF Inv, Types, ReaderInside, Orderly
  <2>3. TypeOK
    BY <2>1, <2>2 DEF Inv, Types, TypeOK, ReaderPc, WriterPc
  <2> QED
    BY <2>1, <2>3, InsideAlone DEF PipeIsSafe, Inv
<1> QED
  BY <1>1, Invariance, PTL

-----------------------------------------------------------------------------
(* The pipe implements the bounded queue. *)

\* Where the unread part of the file begins.
At(f, g, r) == IF \E p \in Reader : f[p] = "readi"
               THEN g[CHOOSE p \in Reader : f[p] = "readi"]
               ELSE r
Here == At(pc, offset, roffset)

LEMMA UnreadIs ==
    /\ Unread = SubSeq(data, Here + 1, size)
    /\ Unread' = SubSeq(data', Here' + 1, size')
BY DEF Unread, Here, At

LEMMA AtIs ==
    ASSUME OneReader, NEW f, NEW g, NEW r
    PROVE  /\ \A p \in Reader : f[p] = "readi" => At(f, g, r) = g[p]
           /\ (\A p \in Reader : f[p] # "readi") => At(f, g, r) = r
<1>1. ASSUME NEW p \in Reader, f[p] = "readi"
      PROVE  At(f, g, r) = g[p]
  <2>1. (CHOOSE q \in Reader : f[q] = "readi") = p
    BY <1>1, OneReader DEF OneReader
  <2> QED
    BY <1>1, <2>1 DEF At
<1>2. ASSUME \A p \in Reader : f[p] # "readi"
      PROVE  At(f, g, r) = r
  BY <1>2 DEF At
<1> QED
  BY <1>1, <1>2

\* The file as a sequence, and where the unread part of it begins.
LEMMA HereRange ==
    ASSUME OneReader, Inv
    PROVE  /\ data \in Seq(0..MaxUnits) /\ Len(data) = PIPSIZ
           /\ Here \in 0..size /\ size \in 0..PIPSIZ /\ PIPSIZ \in Nat
<1>1. /\ data \in [1..PIPSIZ -> 0..MaxUnits] /\ PIPSIZ \in Nat /\ size \in 0..PIPSIZ
      /\ roffset \in Nat /\ \A p \in Reader : offset[p] \in Nat
  BY PipeAssumption DEF Inv, Types, Proc
<1>2. Here \in 0..size
  <2>1. CASE \E p \in Reader : pc[p] = "readi"
    <3>1. PICK p \in Reader : pc[p] = "readi"
      BY <2>1
    <3>2. Here = offset[p]
      BY <3>1, AtIs DEF Here
    <3>3. offset[p] < size
      BY <3>1, OneReader DEF Inv, ReaderInside, Orderly
    <3> QED
      BY <1>1, <3>2, <3>3
  <2>2. CASE \A p \in Reader : pc[p] # "readi"
    <3>1. Here = roffset
      BY <2>2, AtIs DEF Here
    <3>2. roffset <= size
      BY OneReader DEF Inv, ReaderInside, Orderly
    <3> QED
      BY <1>1, <3>1, <3>2
  <2> QED
    BY <2>1, <2>2
<1>3. data \in Seq(0..MaxUnits) /\ Len(data) = PIPSIZ
  <2>1. data \in Seq(0..MaxUnits)
    BY <1>1, SeqDef
  <2>2. DOMAIN data = 1..PIPSIZ /\ DOMAIN data = 1..Len(data) /\ Len(data) \in Nat
    BY <1>1, <2>1, LenProperties
  <2> QED
    BY <1>1, <2>1, <2>2
<1> QED
  BY <1>1, <1>2, <1>3

\* A step that leaves the file, the offset noted and the transfer of the
\* reader alone leaves the queue alone.
LEMMA UnreadFrame ==
    ASSUME OneReader, UNCHANGED <<data, size, roffset>>,
           \A q \in Reader : (pc'[q] = "readi" <=> pc[q] = "readi")
                             /\ (pc[q] = "readi" => offset'[q] = offset[q])
    PROVE  Unread' = Unread
<1>1. Here' = Here
  <2>1. CASE \E p \in Reader : pc[p] = "readi"
    <3>1. PICK p \in Reader : pc[p] = "readi" /\ pc'[p] = "readi" /\ offset'[p] = offset[p]
      BY <2>1
    <3>2. Here = offset[p] /\ Here' = offset'[p]
      BY <3>1, AtIs DEF Here
    <3> QED
      BY <3>1, <3>2
  <2>2. CASE \A p \in Reader : pc[p] # "readi"
    <3>1. Here = roffset /\ Here' = roffset'
      BY <2>2, AtIs DEF Here
    <3> QED
      BY <3>1
  <2> QED
    BY <2>1, <2>2
<1> QED
  BY <1>1, UnreadIs

\* A step of a process outside readi and writei is a stutter, unless it
\* empties the file.
LEMMA OutsideStutters ==
    ASSUME OneReader, Inv, NEW p \in Proc, pc[p] # "readi", pc'[p] # "readi",
           UNCHANGED <<data, size, roffset, received>>,
           \A q \in Proc \ {p} : UNCHANGED <<pc[q], offset[q]>>
    PROVE  UNCHANGED <<Unread, received>>
<1>1. \A q \in Reader : (pc'[q] = "readi" <=> pc[q] = "readi")
                        /\ (pc[q] = "readi" => offset'[q] = offset[q])
  BY DEF Proc
<1> QED
  BY <1>1, UnreadFrame

\* readi is Receive.
LEMMA ReadiReceives ==
    ASSUME OneReader, Inv, NEW p \in Proc, Readi(p)
    PROVE  Channel!Receive
<1>1. /\ pc[p] = "readi" /\ received' = Append(received, data[offset[p] + 1])
      /\ UNCHANGED <<size, data>>
  BY DEF Readi
<1>2. p \in Reader
  BY <1>1, Ends DEF WriterPc, Proc
<1>3. Here = offset[p] /\ offset[p] < size /\ offset[p] \in Nat
  <2>1. Here = offset[p]
    BY <1>1, <1>2, AtIs DEF Here
  <2>2. offset[p] < size
    BY <1>1, <1>2, OneReader DEF Inv, ReaderInside, Orderly
  <2> QED
    BY <2>1, <2>2 DEF Inv, Types
<1>4. Here' = offset[p] + 1
  <2>1. CASE count[p] > 1 /\ offset[p] + 1 < size
    <3>1. pc'[p] = "readi" /\ offset'[p] = offset[p] + 1
      BY <1>1, <2>1 DEF Readi, Inv, Types
    <3> QED
      BY <1>2, <3>1, AtIs DEF Here
  <2>2. CASE ~(count[p] > 1 /\ offset[p] + 1 < size)
    <3>1. pc'[p] = "user" /\ roffset' = offset[p] + 1
      BY <2>2 DEF Readi, Return, Inv, Types
    <3>2. \A q \in Reader : pc'[q] # "readi"
      BY <1>2, <3>1, OneReader DEF OneReader
    <3> QED
      BY <3>1, <3>2, AtIs DEF Here
  <2> QED
    BY <2>1, <2>2
<1>5. /\ Unread # <<>> /\ Head(Unread) = data[Here + 1]
      /\ Tail(Unread) = SubSeq(data, Here + 2, size)
  <2>1. Here + 1 \in 1..Len(data) /\ size \in (Here + 1)..Len(data)
    BY <1>3, HereRange
  <2>2. /\ Head(SubSeq(data, Here + 1, size)) = data[Here + 1]
        /\ Tail(SubSeq(data, Here + 1, size)) = SubSeq(data, Here + 1 + 1, size)
    BY <2>1, HereRange, HeadTailOfSubSeq
  <2>3. Len(SubSeq(data, Here + 1, size)) # 0
    BY <1>3, <2>1, HereRange
  <2>4. SubSeq(data, Here + 1, size) # <<>>
    BY <2>3, EmptySeq
  <2>5. Here + 1 + 1 = Here + 2
    BY HereRange
  <2> QED
    BY <2>2, <2>4, <2>5, UnreadIs
<1>6. Unread' = Tail(Unread)
  <2>1. Here' + 1 = Here + 2
    BY <1>3, <1>4
  <2> QED
    BY <1>1, <1>5, <2>1, UnreadIs
<1> QED
  BY <1>1, <1>3, <1>5, <1>6 DEF Channel!Receive

\* writei is Send, of the next unit.
LEMMA WriteiSends ==
    ASSUME OneReader, Inv, NEW p \in Proc, Writei(p)
    PROVE  Channel!Send(sent + 1) /\ sent + 1 \in 1..MaxUnits
<1>1. /\ pc[p] = "writei"
      /\ data' = [data EXCEPT ![offset[p] + 1] = sent + 1]
      /\ offset' = [offset EXCEPT ![p] = @ + 1]
      /\ size' = (IF offset[p] + 1 > size THEN offset[p] + 1 ELSE size)
      /\ UNCHANGED <<roffset, received>>
      /\ pc' = pc \/ pc' = [pc EXCEPT ![p] = "writep"]
  BY DEF Writei, WritepEnd, file
<1>2. p \in Writer /\ p \notin Reader
  BY <1>1, Ends DEF ReaderPc, Proc
<1>3. /\ offset[p] = size /\ size < PIPSIZ /\ size \in Nat /\ PIPSIZ \in Nat
  <2>1. count[p] \in Nat /\ size \in Nat /\ PIPSIZ \in Nat
    BY PipeAssumption DEF Inv, Types
  <2>2. offset[p] = size /\ count[p] > 0 /\ size + count[p] <= PIPSIZ
    BY <1>1, <1>2 DEF Inv, WriterInside
  <2> QED
    BY <2>1, <2>2
<1>4. sent + 1 \in 1..MaxUnits
  BY <1>1, <1>2, NextUnit
<1>5. \A q \in Reader : pc'[q] = pc[q] /\ offset'[q] = offset[q]
  BY <1>1, <1>2 DEF Inv, Types, Proc
<1>6. Here' = Here
  <2>1. CASE \E q \in Reader : pc[q] = "readi"
    <3>1. PICK q \in Reader : pc[q] = "readi" /\ pc'[q] = "readi" /\ offset'[q] = offset[q]
      BY <1>5, <2>1
    <3> QED
      BY <3>1, AtIs DEF Here
  <2>2. CASE \A q \in Reader : pc[q] # "readi"
    <3> QED
      BY <1>1, <1>5, <2>2, AtIs DEF Here
  <2> QED
    BY <2>1, <2>2
<1>7. size' = size + 1 /\ Here \in 0..size
  BY <1>1, <1>3, HereRange
<1>8. /\ \A i \in 1..size : data'[i] = data[i]
      /\ data'[size + 1] = sent + 1
      /\ \A i \in 1..(size + 1) : data'[i] \in 0..MaxUnits
  <2>1. size + 1 \in 1..PIPSIZ /\ data \in [1..PIPSIZ -> 0..MaxUnits] /\ sent + 1 \in 0..MaxUnits
    BY <1>3, <1>4 DEF Inv, Types
  <2> QED
    BY <1>1, <1>3, <2>1
<1>9. /\ Unread \in Seq(0..MaxUnits) /\ Len(Unread) = size - Here
      /\ \A i \in 1..(size - Here) : Unread[i] = data[Here + i]
  <2>1. \A i \in (Here + 1)..size : data[i] \in 0..MaxUnits
    BY <1>3, <1>7, <1>8
  <2>2. Unread = SubSeq(data, Here + 1, size)
    BY UnreadIs
  <2>3. Here \in Int /\ size \in Int /\ Here + 1 \in Int
    BY <1>3, <1>7
  <2>4. /\ SubSeq(data, Here + 1, size) \in Seq(0..MaxUnits)
        /\ Len(SubSeq(data, Here + 1, size))
              = IF Here + 1 <= size THEN size - (Here + 1) + 1 ELSE 0
        /\ \A i \in 1..(size - (Here + 1) + 1) :
              SubSeq(data, Here + 1, size)[i] = data[Here + 1 + i - 1]
    BY <2>1, <2>3, SubSeqProperties
  <2> QED
    BY <1>3, <1>7, <2>2, <2>4
<1>10. /\ Unread' \in Seq(0..MaxUnits) /\ Len(Unread') = size + 1 - Here
       /\ \A i \in 1..(size + 1 - Here) : Unread'[i] = data'[Here + i]
  <2>1. \A i \in (Here + 1)..(size + 1) : data'[i] \in 0..MaxUnits
    BY <1>3, <1>7, <1>8
  <2>2. Unread' = SubSeq(data', Here + 1, size + 1)
    BY <1>6, <1>7, UnreadIs
  <2> QED
    BY <1>3, <1>7, <2>1, <2>2, SubSeqProperties
<1>11. Unread' = Append(Unread, sent + 1)
  <2>1. /\ Append(Unread, sent + 1) \in Seq(0..MaxUnits)
        /\ Len(Append(Unread, sent + 1)) = size - Here + 1
        /\ \A i \in 1..(size - Here) : Append(Unread, sent + 1)[i] = Unread[i]
        /\ Append(Unread, sent + 1)[size - Here + 1] = sent + 1
    <3>1. sent + 1 \in 0..MaxUnits
      BY <1>4
    <3> QED
      BY <1>9, <3>1, AppendProperties
  <2>2. \A i \in 1..(size - Here + 1) : Unread'[i] = Append(Unread, sent + 1)[i]
    <3>1. SUFFICES ASSUME NEW i \in 1..(size - Here + 1)
                   PROVE  Unread'[i] = Append(Unread, sent + 1)[i]
      OBVIOUS
    <3>2. i \in 1..(size + 1 - Here)
      BY <1>3, <1>7, <3>1
    <3>3. CASE i = size - Here + 1
      <4>1. Here + i = size + 1
        BY <1>3, <1>7, <3>3
      <4> QED
        BY <1>8, <1>10, <2>1, <3>2, <3>3, <4>1
    <3>4. CASE i # size - Here + 1
      <4>1. i \in 1..(size - Here) /\ Here + i \in 1..size
        BY <1>3, <1>7, <3>1, <3>4
      <4> QED
        BY <1>8, <1>9, <1>10, <2>1, <3>2, <4>1
    <3> QED
      BY <3>3, <3>4
  <2>3. Len(Unread') = Len(Append(Unread, sent + 1))
    BY <1>3, <1>7, <1>10, <2>1
  <2> QED
    BY <1>3, <1>7, <1>10, <2>1, <2>2, <2>3, SeqEqual
<1>12. Len(Unread) < PIPSIZ
  BY <1>3, <1>7, <1>9
<1> QED
  BY <1>1, <1>4, <1>11, <1>12 DEF Channel!Send

\* Sleeping, returning and making a call leave the queue alone.
LEMMA SleepStutters ==
    ASSUME OneReader, Inv, NEW p \in Proc,
           Plock(p) \/ Interrupted(p) \/ WritepReturn(p) \/ WritepFull(p)
    PROVE  UNCHANGED <<Unread, received>>
<1>1. pc[p] \in {"readp", "writep", "rsleep", "wsleep"}
  BY DEF Plock, Interrupted, WritepReturn, WritepFull, AtLoop
<1>2. UNCHANGED <<data, size, roffset, received>>
  BY DEF Plock, Interrupted, WritepReturn, WritepFull, inode, file, log
<1>3. Return(p) \/ SleepOn(p, "ip", {}) \/ SleepOn(p, "ip+1", Prele.wakes)
  BY DEF Plock, Interrupted, WritepReturn, WritepFull
<1>4. \/ Moved(p, {"user"})
      \/ Moved(p, {"user", IF p \in Reader THEN "rsleep" ELSE "wsleep"})
  BY <1>3, Returned, Slept DEF Inv
<1>5. pc'[p] # "readi" /\ \A q \in Proc \ {p} : UNCHANGED <<pc[q], offset[q]>>
  BY <1>4 DEF Moved
<1> QED
  BY <1>1, <1>2, <1>5, OutsideStutters

LEMMA CallStutters ==
    ASSUME OneReader, Inv, NEW p \in Proc, Call(p) \/ Psignal(p)
    PROVE  UNCHANGED <<Unread, received>>
<1>1. UNCHANGED <<data, size, roffset, received, offset>>
  BY DEF Call, ReadCall, WriteCall, Psignal, inode, file, transfer, log
<1>2. \/ pc' = pc
      \/ pc[p] = "user" /\ (pc' = [pc EXCEPT ![p] = "readp"] \/ pc' = [pc EXCEPT ![p] = "writep"])
  BY DEF Call, ReadCall, WriteCall, Psignal
<1>3. \A q \in Reader : pc'[q] = "readi" <=> pc[q] = "readi"
  BY <1>2 DEF Inv, Types, Proc
<1> QED
  BY <1>1, <1>3, UnreadFrame

\* The writer who enters writei, or leaves it without a block, is not the
\* reader; the reader who enters readi begins where the last one ended.
LEMMA WriterStutters ==
    ASSUME OneReader, Inv, NEW p \in Proc, WritepStart(p) \/ WriteiNoSpace(p)
    PROVE  UNCHANGED <<Unread, received>>
<1>1. /\ UNCHANGED <<data, size, roffset, received>>
      /\ pc' = [pc EXCEPT ![p] = "writei"] \/ pc' = [pc EXCEPT ![p] = "writep"]
      /\ offset' = [offset EXCEPT ![p] = size] \/ offset' = offset
  BY DEF WritepStart, WriteiNoSpace, WritepEnd, file, transfer, log
<1>2. p \notin Reader
  BY Ends DEF WritepStart, WriteiNoSpace, ReaderPc
<1>3. \A q \in Reader : pc'[q] = pc[q] /\ offset'[q] = offset[q]
  BY <1>1, <1>2 DEF Inv, Types, Proc
<1> QED
  BY <1>1, <1>3, UnreadFrame

LEMMA ReadpStartStutters ==
    ASSUME OneReader, Inv, NEW p \in Proc, ReadpStart(p)
    PROVE  UNCHANGED <<Unread, received>>
<1>1. /\ UNCHANGED <<data, size, roffset, received>> /\ p \in Reader
      /\ pc[p] # "readi" /\ pc'[p] = "readi" /\ offset'[p] = roffset
  BY DEF ReadpStart, AtLoop, file, log, Inv, Types
<1>2. Here = roffset /\ Here' = roffset
  <2>1. \A q \in Reader : pc[q] # "readi"
    BY <1>1, OneReader DEF OneReader
  <2> QED
    BY <1>1, <2>1, AtIs DEF Here
<1> QED
  BY <1>1, <1>2, UnreadIs

\* An empty pipe is reset: the queue is empty before and after.
LEMMA ReadpEmptyStutters ==
    ASSUME OneReader, Inv, NEW p \in Proc, ReadpEmpty(p)
    PROVE  UNCHANGED <<Unread, received>>
<1>1. /\ p \in Reader /\ pc[p] # "readi"
      /\ roffset = size /\ size' = 0 /\ roffset' = 0 /\ UNCHANGED <<data, received>>
  BY DEF ReadpEmpty, AtLoop, log
<1>2. Return(p) \/ \E C : SleepOn(p, "ip+2", C)
  BY DEF ReadpEmpty
<1>3. pc'[p] # "readi"
  BY <1>2, Returned, Slept DEF Moved, Inv
<1>4. \A q \in Reader : pc[q] # "readi" /\ pc'[q] # "readi"
  BY <1>1, <1>3, OneReader DEF OneReader
<1>5. Here = size /\ Here' = 0
  BY <1>1, <1>4, AtIs DEF Here
<1>6. size \in Int
  BY DEF Inv, Types
<1>7. Unread = <<>> /\ Unread' = <<>>
  BY <1>1, <1>5, <1>6, UnreadIs, SubSeqEmpty
<1> QED
  BY <1>1, <1>7

\* The last close of all throws the rest away; no other close is seen.
LEMMA ClosefDiscards ==
    ASSUME OneReader, Inv, NEW p \in Proc, Closef(p)
    PROVE  Channel!Discard \/ UNCHANGED <<Unread, received>>
<1>1. /\ pc[p] = "user" /\ pc' = [pc EXCEPT ![p] = "closed"]
      /\ UNCHANGED <<data, offset, received>>
      /\ UNCHANGED <<size, roffset>> \/ (size' = 0 /\ roffset' = 0 /\ icount' = 0)
  BY DEF Closef, transfer, log
<1>2. pc'[p] = "closed" /\ \A q \in Proc \ {p} : pc'[q] = pc[q]
  BY <1>1 DEF Inv, Types
<1>3. CASE UNCHANGED <<size, roffset>>
  <2>1. pc[p] # "readi" /\ pc'[p] # "readi"
    BY <1>1, <1>2
  <2> QED
    BY <1>1, <1>2, <1>3, <2>1, OutsideStutters
<1>4. CASE size' = 0 /\ roffset' = 0 /\ icount' = 0
  <2>1. Counts'
    BY ClosefInv DEF Inv
  <2>2. Gone("read")'
    BY <1>4, <2>1 DEF Counts
  <2>3. \A q \in Reader : pc'[q] # "readi"
    BY <2>2 DEF Gone, Open, Members
  <2>4. Here' = 0
    BY <1>4, <2>3, AtIs DEF Here
  <2>5. Unread' = <<>>
    BY <1>4, <2>4, UnreadIs, SubSeqEmpty
  <2> QED
    BY <1>1, <2>5 DEF Channel!Discard
<1> QED
  BY <1>1, <1>3, <1>4

\* Every step of the pipe is a step of the queue, or none.
LEMMA StepRefines ==
    ASSUME OneReader, Inv, [Next]_vars
    PROVE  [Channel!Next]_<<Unread, received>>
<1>1. CASE UNCHANGED vars
  BY <1>1, UnreadFrame DEF vars, inode, file, transfer, log
<1>2. ASSUME NEW p \in Proc, Call(p) \/ Step(p) \/ Closef(p) \/ Psignal(p)
      PROVE  [Channel!Next]_<<Unread, received>>
  <2>1. CASE Call(p) \/ Psignal(p)
    BY <2>1, CallStutters
  <2>2. CASE Closef(p)
    BY <2>2, ClosefDiscards DEF Channel!Next
  <2>3. CASE Step(p)
    <3>1. CASE Readi(p)
      BY <3>1, ReadiReceives DEF Channel!Next
    <3>2. CASE Writei(p)
      BY <3>2, WriteiSends DEF Channel!Next
    <3>3. CASE Plock(p) \/ Interrupted(p) \/ WritepReturn(p) \/ WritepFull(p)
      BY <3>3, SleepStutters
    <3>4. CASE WritepStart(p) \/ WriteiNoSpace(p)
      BY <3>4, WriterStutters
    <3>5. CASE ReadpStart(p) \/ ReadpEmpty(p)
      BY <3>5, ReadpStartStutters, ReadpEmptyStutters
    <3> QED
      BY <2>3, <3>1, <3>2, <3>3, <3>4, <3>5 DEF Step
  <2> QED
    BY <1>2, <2>1, <2>2, <2>3
<1> QED
  BY <1>1, <1>2 DEF Next

\* A pipe is a bounded queue: what the reader gets is what was written, in
\* order, nothing twice and nothing lost, with resets, signals and closes.
THEOREM Implements ==
    ASSUME OneReader
    PROVE  Spec => ImplementsFifo
<1>1. Init => Channel!Init
  <2>1. SUFFICES ASSUME Init PROVE Channel!Init
    OBVIOUS
  <2>2. Here = 0
    <3>1. \A q \in Reader : pc[q] # "readi"
      BY <2>1 DEF Init, Proc
    <3> QED
      BY <2>1, <3>1, AtIs DEF Here, Init
  <2>3. Unread = <<>>
    BY <2>1, <2>2, UnreadIs, SubSeqEmpty DEF Init
  <2> QED
    BY <2>1, <2>3 DEF Channel!Init, Init
<1>2. Inv /\ [Next]_vars => [Channel!Next]_<<Unread, received>>
  BY StepRefines
<1> QED
  BY <1>1, <1>2, Invariance, PTL DEF Spec, ImplementsFifo, Channel!Spec
=============================================================================
