---------------------------- MODULE AlarmProofs -----------------------------
(***************************************************************************)
(* No process oversleeps, for every word size, number of processes and     *)
(* sequence of stime calls.  The argument: dpcmp orders the times of less  *)
(* than half the range ahead of now (lemmas on numbers), the clock goes    *)
(* through the numbers one by one (lemmas on pairs), so the shared alarm   *)
(* stays ahead of the time and behind no deadline (AlarmAhead).            *)
(***************************************************************************)
EXTENDS Alarm, TLAPS

\* The wrapped difference of two numbers below 2 * H (dpcmp, pc.c:107-119).
Cmp(x, y, H) ==
    IF x - y >= H THEN x - y - 2 * H
    ELSE IF x - y < -H THEN x - y + 2 * H
    ELSE x - y

\* The successor of a number below 2 * H (the time of day, clock.c:86-87).
Succ(x, H) == IF x = 2 * H - 1 THEN 0 ELSE x + 1

Range2(H) == 0 .. 2 * H - 1

-----------------------------------------------------------------------------
\* A new alarm a before the old alarm b is before the deadline c behind b
\* (sys2.c:273-277).
LEMMA CmpEarlier ==
    ASSUME NEW H \in Nat, NEW t \in Range2(H),
           NEW a \in Range2(H), NEW b \in Range2(H), NEW c \in Range2(H),
           Cmp(a, t, H) > 0, Cmp(b, t, H) > 0, Cmp(c, t, H) > 0,
           Cmp(b, c, H) <= 0, Cmp(b, a, H) > 0
    PROVE  Cmp(a, c, H) <= 0
BY DEF Cmp, Range2

\* A second that does not reach the alarm a keeps it ahead, and with it every
\* deadline c behind it (clock.c:86-90).
LEMMA CmpSucc ==
    ASSUME NEW H \in Nat, NEW t \in Range2(H),
           NEW a \in Range2(H), NEW c \in Range2(H),
           Cmp(a, t, H) > 0, Cmp(c, t, H) > 0, Cmp(a, c, H) <= 0,
           Succ(t, H) # a
    PROVE  Cmp(a, Succ(t, H), H) > 0 /\ Cmp(c, Succ(t, H), H) > 0
BY DEF Cmp, Succ, Range2

\* Half the range of a double word is a positive number.
LEMMA HalfType == Half \in Nat /\ High \in Nat \ {0} /\ Half > 0
BY AlarmAssumption DEF Half, High

\* A pair is a number below the range of a double word.
LEMMA ValType ==
    ASSUME NEW t \in Times
    PROVE  Val(t) \in Range2(Half)
<1>1. t[1] \in 0 .. 2 * HalfHigh - 1 /\ t[2] \in 0 .. Word - 1
    BY DEF Times, High
<1>2. HalfHigh \in Nat /\ Word \in Nat
    BY AlarmAssumption
<1>3. t[1] * Word \in Nat /\ t[1] * Word <= (2 * HalfHigh - 1) * Word
    BY <1>1, <1>2
<1>4. (2 * HalfHigh - 1) * Word = 2 * (HalfHigh * Word) - Word
    BY <1>2
<1>5. HalfHigh * Word \in Nat
    BY <1>2
<1> QED
    BY <1>1, <1>2, <1>3, <1>4, <1>5 DEF Val, Range2, Half

\* Two pairs are equal if they are the same number: the clock's comparison
\* word by word (clock.c:89) is the comparison of the numbers.
LEMMA ValInjective ==
    ASSUME NEW s \in Times, NEW t \in Times, Val(s) = Val(t)
    PROVE  s = t
<1>1. /\ s[1] \in Nat /\ t[1] \in Nat
      /\ s[2] \in 0 .. Word - 1 /\ t[2] \in 0 .. Word - 1
      /\ s = <<s[1], s[2]>> /\ t = <<t[1], t[2]>>
    BY HalfType DEF Times
<1>2. Word \in Nat /\ Word > 0
    BY AlarmAssumption
<1>3. ASSUME NEW x \in Nat, NEW y \in Nat, x < y
      PROVE  x * Word + Word <= y * Word
    <2>1. y = x + (y - x - 1) + 1 /\ y - x - 1 \in Nat
        BY <1>3
    <2>2. (x + (y - x - 1) + 1) * Word = x * Word + (y - x - 1) * Word + Word
        BY <1>2, <2>1
    <2>3. (y - x - 1) * Word \in Nat
        BY <1>2, <2>1
    <2> QED
        BY <2>1, <2>2, <2>3, <1>2
<1>4. s[1] * Word \in Nat /\ t[1] * Word \in Nat
    BY <1>1, <1>2
<1>5. ~(s[1] < t[1]) /\ ~(t[1] < s[1])
    BY <1>1, <1>2, <1>3, <1>4 DEF Val
<1>6. s[1] = t[1]
    BY <1>1, <1>5
<1> QED
    BY <1>1, <1>4, <1>6 DEF Val

\* One more second is the next number (clock.c:86-87).
LEMMA TickVal ==
    ASSUME NEW t \in Times
    PROVE  Tick(t) \in Times /\ Val(Tick(t)) = Succ(Val(t), Half)
<1> DEFINE u == Tick(t)
<1>1. t[1] \in 0 .. High - 1 /\ t[2] \in 0 .. Word - 1
    BY DEF Times
<1>2. /\ HalfHigh \in Nat /\ HalfHigh > 0 /\ Word \in Nat /\ Word > 0
      /\ High = 2 * HalfHigh
    BY AlarmAssumption DEF High
<1>3. u \in Times
    BY <1>1, <1>2 DEF Times, Tick, Inc
<1>4. Val(t) \in Range2(Half)
    BY ValType
<1>5. CASE t[2] # Word - 1
    <2>1. u[1] = t[1] /\ u[2] = t[2] + 1
        BY <1>1, <1>2, <1>5 DEF Tick, Inc
    <2>2. t[1] * Word \in Nat
        BY <1>1, <1>2
    <2>3. Val(u) = Val(t) + 1
        BY <2>1, <2>2, <1>1, <1>2 DEF Val
    <2>4. Val(u) \in Range2(Half)
        BY <1>3, ValType
    <2> QED
        BY <2>3, <2>4, <1>3, <1>4, HalfType DEF Succ, Range2
<1>6. CASE t[2] = Word - 1 /\ t[1] # High - 1
    <2>1. u[1] = t[1] + 1 /\ u[2] = 0
        BY <1>1, <1>2, <1>6 DEF Tick, Inc
    <2>2. (t[1] + 1) * Word = t[1] * Word + Word /\ t[1] * Word \in Nat
        BY <1>1, <1>2
    <2>3. Val(u) = Val(t) + 1
        BY <2>1, <2>2, <1>1, <1>2, <1>6 DEF Val
    <2>4. Val(u) \in Range2(Half)
        BY <1>3, ValType
    <2> QED
        BY <2>3, <2>4, <1>3, <1>4, HalfType DEF Succ, Range2
<1>7. CASE t[2] = Word - 1 /\ t[1] = High - 1
    <2>1. u[1] = 0 /\ u[2] = 0
        BY <1>1, <1>2, <1>7 DEF Tick, Inc
    <2>2. (2 * HalfHigh - 1) * Word = 2 * (HalfHigh * Word) - Word
          /\ HalfHigh * Word \in Nat
        BY <1>2
    <2>3. Val(t) = 2 * Half - 1
        BY <2>2, <1>2, <1>7 DEF Val, Half
    <2>4. Val(u) = 0
        BY <2>1, <1>2 DEF Val
    <2> QED
        BY <2>3, <2>4, <1>3 DEF Succ
<1> QED
    BY <1>1, <1>5, <1>6, <1>7

\* dpcmp is the wrapped difference of the numbers (pc.c:107-119).
LEMMA DpcmpIsCmp ==
    ASSUME NEW s \in Times, NEW t \in Times
    PROVE  dpcmp(s, t) = Cmp(Val(s), Val(t), Half)
<1>1. Val(s) \in Int /\ Val(t) \in Int /\ Half \in Int
    BY ValType, HalfType DEF Range2
<1> QED
    BY <1>1 DEF dpcmp, Cmp

\* The deadline is a time (pc.c:97-105).
LEMMA DpaddType ==
    ASSUME NEW x \in Times, NEW y \in 0 .. MaxSleep
    PROVE  dpadd(x, y) \in Times
BY AlarmAssumption, HalfType DEF Times, dpadd, Inc

-----------------------------------------------------------------------------
Inv == TypeOK /\ AlarmAhead

\* The initial state: nobody sleeps.
LEMMA InitInv == Init => Inv
BY AlarmAssumption, HalfType DEF Init, Inv, TypeOK, AlarmAhead, Times

\* One turn of sslep's loop keeps the types and the alarm (sys2.c:272-279).
LEMMA LoopInv ==
    ASSUME Inv, KernelFree, NEW p \in Proc, NEW dd \in Times,
           pc[p] \in {"user", "sslep"}, p \notin waiting,
           SslepLoop(p, dd),
           UNCHANGED <<time, lbolt, reg, stimes, signals>>
    PROVE  Inv'
<1>1. TypeOK'
    <2>1. <<0, 0>> \in Times
        BY HalfType, AlarmAssumption DEF Times
    <2>2. tout' \in Times /\ d' \in [Proc -> Times]
        BY <2>1 DEF Inv, TypeOK, SslepLoop
    <2>3. /\ pc' \in [Proc -> {"user", "sslep", "stimelow", "stimewake"}]
          /\ sig' \in [Proc -> BOOLEAN] /\ waiting' \subseteq Proc
        BY DEF Inv, TypeOK, SslepLoop, Return
    <2> QED
        BY <2>2, <2>3 DEF Inv, TypeOK
<1>2. ~InStime
    BY DEF KernelFree, InStime
<1>3. time \in Times /\ tout \in Times /\ d \in [Proc -> Times] /\ waiting \subseteq Proc
    BY DEF Inv, TypeOK
<1>4. Half \in Nat /\ Val(time) \in Range2(Half) /\ Val(tout) \in Range2(Half)
      /\ Val(dd) \in Range2(Half)
    BY <1>3, ValType, HalfType
<1>5. CASE waiting' = waiting /\ tout' = tout
    <2>1. \A q \in waiting : d'[q] = d[q] /\ pc'[q] = pc[q]
        BY <1>3, <1>5 DEF SslepLoop, Return, Inv, TypeOK
    <2> QED
        BY <1>1, <1>2, <1>3, <1>5, <2>1 DEF Inv, AlarmAhead, dpcmp
<1>6. CASE /\ dpcmp(dd, time) > 0
           /\ tout' = IF dpcmp(tout, time) <= 0 \/ dpcmp(tout, dd) > 0
                      THEN dd ELSE tout
    <2>1. ASSUME NEW q \in waiting
          PROVE  /\ q # p /\ d'[q] = d[q] /\ pc'[q] = "sslep"
                 /\ dpcmp(tout', time) > 0
                 /\ dpcmp(tout', d[q]) <= 0
                 /\ dpcmp(d[q], time) > 0
        <3>1. q \in Proc /\ q # p /\ d[q] \in Times
            BY <1>3, <2>1
        <3>2. d'[q] = d[q] /\ pc'[q] = pc[q]
            BY <3>1 DEF SslepLoop, Return, Inv, TypeOK
        <3>3. /\ dpcmp(tout, time) > 0 /\ dpcmp(tout, d[q]) <= 0
              /\ dpcmp(d[q], time) > 0 /\ pc[q] = "sslep"
            BY <1>2, <2>1 DEF Inv, AlarmAhead
        <3>4. dpcmp(tout', time) > 0
            BY <1>6, <3>3
        <3>5. dpcmp(tout, dd) > 0 => dpcmp(dd, d[q]) <= 0
            <4>1. Val(d[q]) \in Range2(Half)
                BY <3>1, ValType
            <4> QED
                BY <1>3, <1>4, <1>6, <3>1, <3>3, <4>1, CmpEarlier, DpcmpIsCmp
        <3>6. dpcmp(tout, time) \in Int
            BY <1>3, <1>4, DpcmpIsCmp DEF Cmp, Range2
        <3> QED
            BY <1>6, <3>1, <3>2, <3>3, <3>4, <3>5, <3>6
    <2>2. CASE waiting' = waiting
        BY <1>1, <1>3, <2>1, <2>2 DEF Inv, AlarmAhead, InStime, dpcmp
    <2>3. CASE waiting' = waiting \cup {p} /\ d' = [d EXCEPT ![p] = dd]
               /\ pc' = [pc EXCEPT ![p] = "sslep"]
        <3>1. pc'[p] = "sslep" /\ d'[p] = dd
            BY <1>3, <2>3 DEF Inv, TypeOK
        <3>2. dpcmp(dd, dd) = 0
            BY <1>4, DpcmpIsCmp, HalfType DEF Cmp, Range2
        <3>3. dpcmp(tout, time) \in Int /\ dpcmp(tout, dd) \in Int
            BY <1>3, <1>4, DpcmpIsCmp DEF Cmp, Range2
        <3>4. dpcmp(tout', time) > 0 /\ dpcmp(tout', dd) <= 0
            BY <1>6, <3>2, <3>3
        <3>5. ASSUME NEW q \in waiting'
              PROVE  /\ pc'[q] = "sslep"
                     /\ dpcmp(tout', time) > 0 /\ dpcmp(tout', d'[q]) <= 0
                     /\ dpcmp(d'[q], time) > 0
            BY <1>6, <2>1, <2>3, <3>1, <3>4, <3>5
        <3>6. time' = time
            OBVIOUS
        <3> QED
            BY <1>1, <3>5, <3>6 DEF Inv, AlarmAhead, dpcmp
    <2> QED
        BY <1>6, <2>2, <2>3 DEF SslepLoop
<1> QED
    BY <1>5, <1>6 DEF SslepLoop

\* A step that leaves time, alarm, deadlines alone and wakes or keeps the
\* sleepers keeps the alarm, unless stime ends in it.
LEMMA FrameInv ==
    ASSUME Inv, TypeOK', UNCHANGED <<time, tout, d>>, waiting' \subseteq waiting,
           \A q \in waiting' : pc'[q] = pc[q],
           InStime => InStime'
    PROVE  Inv'
BY DEF Inv, AlarmAhead, TypeOK, dpcmp

\* Every step preserves the invariant.
LEMMA NextInv == Inv /\ [Next]_vars => Inv'
<1> SUFFICES ASSUME Inv, [Next]_vars PROVE Inv'
    OBVIOUS
<1>1. time \in Times /\ tout \in Times /\ d \in [Proc -> Times]
      /\ waiting \subseteq Proc /\ pc \in [Proc -> {"user", "sslep", "stimelow",
                                    "stimewake"}]
    BY DEF Inv, TypeOK
<1>2. \A q \in waiting : pc[q] = "sslep"
    BY DEF Inv, AlarmAhead
<1>3. ASSUME NEW p \in Proc, NEW y \in 0 .. MaxSleep, Sslep(p, y)
      PROVE  Inv'
    <2>1. dpadd(time, y) \in Times
        BY <1>1, DpaddType
    <2>2. pc[p] = "user" /\ p \notin waiting
        BY <1>2, <1>3 DEF Sslep
    <2> QED
        BY <1>3, <2>1, <2>2, LoopInv DEF Sslep
<1>4. ASSUME NEW p \in Proc, SslepResume(p)
      PROVE  Inv'
    <2>1. CASE ~sig[p] /\ SslepLoop(p, d[p])
        BY <1>1, <1>4, <2>1, LoopInv DEF SslepResume
    <2>2. CASE Return(p) /\ d' = [d EXCEPT ![p] = <<0, 0>>]
               /\ UNCHANGED <<tout, waiting>>
        <3>1. TypeOK'
            BY <1>4, <2>2, HalfType, AlarmAssumption
            DEF Inv, TypeOK, Return, SslepResume, Times
        <3>2. p \notin waiting /\ time' = time /\ ~InStime
            BY <1>4 DEF SslepResume, KernelFree, InStime
        <3>3. \A q \in waiting : d'[q] = d[q] /\ pc'[q] = pc[q]
            BY <1>1, <2>2, <3>2 DEF Return
        <3> QED
            BY <2>2, <3>1, <3>2, <3>3 DEF Inv, AlarmAhead, dpcmp
    <2> QED
        BY <1>4, <2>1, <2>2 DEF SslepResume
<1>5. ASSUME NEW p \in Proc, Psignal(p)
      PROVE  Inv'
    <2>1. TypeOK'
        BY <1>5, AlarmAssumption DEF Inv, TypeOK, Psignal
    <2> QED
        BY <1>5, <2>1, FrameInv DEF Psignal, InStime
<1>6. ASSUME Clock
      PROVE  Inv'
    <2>1. CASE lbolt + 1 < HZ /\ lbolt' = lbolt + 1 /\ UNCHANGED <<time, waiting>>
        <3>1. TypeOK'
            BY <1>6, <2>1, AlarmAssumption DEF Inv, TypeOK, Clock
        <3> QED
            BY <1>6, <2>1, <3>1, FrameInv DEF Clock, InStime
    <2>2. CASE /\ lbolt + 1 >= HZ /\ lbolt' = lbolt + 1 - HZ
               /\ time' = Tick(time)
               /\ waiting' = IF Tick(time) = tout THEN {} ELSE waiting
        <3>1. Tick(time) \in Times /\ Val(Tick(time)) = Succ(Val(time), Half)
            BY <1>1, TickVal
        <3>2. TypeOK'
            BY <1>6, <2>2, <3>1, AlarmAssumption DEF Inv, TypeOK, Clock
        <3>3. UNCHANGED <<tout, d, pc>> /\ (InStime' <=> InStime)
            BY <1>6 DEF Clock, InStime
        <3>4. ASSUME NEW q \in waiting', ~InStime'
              PROVE  /\ dpcmp(tout, time') > 0 /\ dpcmp(tout, d[q]) <= 0
                     /\ dpcmp(d[q], time') > 0
            <4>1. q \in waiting /\ Tick(time) # tout /\ d[q] \in Times
                BY <1>1, <2>2, <3>4
            <4>2. /\ dpcmp(tout, time) > 0 /\ dpcmp(tout, d[q]) <= 0
                  /\ dpcmp(d[q], time) > 0
                BY <3>3, <3>4, <4>1 DEF Inv, AlarmAhead
            <4>3. Val(Tick(time)) # Val(tout)
                BY <1>1, <3>1, <4>1, ValInjective
            <4>4. /\ Half \in Nat /\ Val(time) \in Range2(Half)
                  /\ Val(tout) \in Range2(Half) /\ Val(d[q]) \in Range2(Half)
                BY <1>1, <4>1, ValType, HalfType
            <4> QED
                BY <1>1, <2>2, <3>1, <4>1, <4>2, <4>3, <4>4, CmpSucc, DpcmpIsCmp
        <3>5. \A q \in waiting' : pc'[q] = "sslep"
            BY <1>2, <2>2, <3>3
        <3> QED
            BY <3>2, <3>3, <3>4, <3>5 DEF Inv, AlarmAhead, dpcmp
    <2> QED
        BY <1>6, <2>1, <2>2 DEF Clock
<1>7. ASSUME NEW p \in Proc, NEW t \in Times, StimeHigh(p, t)
      PROVE  Inv'
    <2>1. TypeOK'
        BY <1>7, AlarmAssumption DEF Inv, TypeOK, StimeHigh, Times
    <2>2. pc'[p] = "stimelow" /\ p \notin waiting
        BY <1>1, <1>2, <1>7 DEF StimeHigh
    <2>3. \A q \in waiting' : pc'[q] = "sslep"
        BY <1>1, <1>2, <1>7, <2>2 DEF StimeHigh
    <2> QED
        BY <2>1, <2>2, <2>3 DEF Inv, AlarmAhead, InStime
<1>8. ASSUME NEW p \in Proc, StimeLow(p)
      PROVE  Inv'
    <2>1. TypeOK'
        BY <1>8 DEF Inv, TypeOK, StimeLow, Times
    <2>2. pc'[p] = "stimewake" /\ p \notin waiting
        BY <1>1, <1>2, <1>8 DEF StimeLow
    <2>3. \A q \in waiting' : pc'[q] = "sslep"
        BY <1>1, <1>2, <1>8, <2>2 DEF StimeLow
    <2> QED
        BY <2>1, <2>2, <2>3 DEF Inv, AlarmAhead, InStime
<1>9. ASSUME NEW p \in Proc, StimeWakeup(p)
      PROVE  Inv'
    BY <1>9, HalfType, AlarmAssumption
    DEF Inv, TypeOK, AlarmAhead, StimeWakeup, Return, Times
<1>10. CASE UNCHANGED vars
    BY <1>10 DEF vars, Inv, TypeOK, AlarmAhead, InStime, dpcmp
<1> QED
    BY <1>3, <1>4, <1>5, <1>6, <1>7, <1>8, <1>9, <1>10 DEF Next, Kernel

\* Every reachable state has its types, and the alarm ahead of the time and
\* behind no deadline while anybody sleeps.
THEOREM Invariance == Spec => []Inv
BY InitInv, NextInv, PTL DEF Spec

\* sleep(n) never leaves a process asleep past its deadline (sys2.c:272-280).
THEOREM OnTime == Spec => []NoOversleep
<1>1. Inv => NoOversleep
    BY DEF Inv, AlarmAhead, NoOversleep
<1> QED
    BY Invariance, <1>1, PTL

\* The alarm is ahead of the time and behind no deadline (clock.c:89).
THEOREM AlarmKept == Spec => []AlarmAhead
<1>1. Inv => AlarmAhead
    BY DEF Inv
<1> QED
    BY Invariance, <1>1, PTL
=============================================================================
