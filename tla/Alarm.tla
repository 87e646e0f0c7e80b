------------------------------- MODULE Alarm --------------------------------
(***************************************************************************)
(* The time of day and the sleep system call: time, tout and lbolt of      *)
(* ken/clock.c, sslep of ken/sys2.c, stime of ken/sys4.c.                  *)
(*                                                                         *)
(* All the processes that sleep share one alarm, tout.  Times are pairs    *)
(* <<high, low>> of machine words; dpadd and dpcmp (dmr/pc.c) wrap.  sslep *)
(* runs at spl7; stime runs with interrupts enabled, so the clock may tick *)
(* between its two word stores.                                            *)
(***************************************************************************)
EXTENDS Integers, FiniteSets

CONSTANTS
    Proc,       \* processes
    Word,       \* values of a low word (2^16)
    HalfHigh,   \* half the values of a high word (2^15)
    HZ,         \* clock interrupts in a second
    MaxSleep,   \* bound: seconds asked of sslep
    MaxStime,   \* bound: calls of stime
    MaxSig      \* bound: signals

ASSUME AlarmAssumption ==
    /\ Word \in Nat \ {0} /\ HalfHigh \in Nat \ {0} /\ HZ \in Nat \ {0}
    /\ MaxSleep \in Nat /\ MaxSleep < Word
    /\ MaxStime \in Nat /\ MaxSig \in Nat

High == 2 * HalfHigh
Half == HalfHigh * Word     \* half the range of a double word

Times == (0 .. High - 1) \X (0 .. Word - 1)

VARIABLES
    time, tout,     \* the time of day, the time of the next wakeup
    lbolt,          \* interrupts since the last full second
    pc,             \* where each process is
    waiting,        \* processes in SWAIT on tout
    d,              \* sslep's deadline
    sig,            \* is a signal pending?
    reg,            \* R0 and R1 of stime
    stimes, signals \* calls of stime, signals sent (for the bounds)

vars == <<time, tout, lbolt, pc, waiting, d, sig, reg, stimes, signals>>

-----------------------------------------------------------------------------
\* A pair as a number.
Val(t) == t[1] * Word + t[2]

\* ++ on a word of n values.
Inc(w, n) == IF w = n - 1 THEN 0 ELSE w + 1

\* dpadd(x, y): y is taken as unsigned.
dpadd(x, y) ==
    IF x[2] + y < Word THEN <<x[1], x[2] + y>>
                       ELSE <<Inc(x[1], High), x[2] + y - Word>>

\* dpcmp(x, y): the signed double word x - y; only its sign is used.
dpcmp(x, y) ==
    LET diff == Val(x) - Val(y)
    IN  IF diff >= Half THEN diff - 2 * Half
        ELSE IF diff < -Half THEN diff + 2 * Half
        ELSE diff

\* The processor is in nobody's stime: another process may run.
KernelFree == \A q \in Proc : pc[q] \in {"user", "sslep"}

\* The system call returns and trap handles a pending signal.
Return(p) ==
    /\ pc' = [pc EXCEPT ![p] = "user"]
    /\ sig' = [sig EXCEPT ![p] = FALSE]

-----------------------------------------------------------------------------
\* One turn of sslep's loop: return, or set the alarm and sleep.  A pending
\* signal ends the call in place of the sleep.
SslepLoop(p, dd) ==
    \/ /\ dpcmp(dd, time) <= 0
       /\ Return(p)
       /\ d' = [d EXCEPT ![p] = <<0, 0>>]
       /\ UNCHANGED <<tout, waiting>>
    \/ /\ dpcmp(dd, time) > 0
       /\ tout' = IF dpcmp(tout, time) <= 0 \/ dpcmp(tout, dd) > 0
                  THEN dd ELSE tout
       /\ \/ /\ sig[p]
             /\ Return(p)
             /\ d' = [d EXCEPT ![p] = <<0, 0>>]
             /\ UNCHANGED waiting
          \/ /\ ~sig[p]
             /\ pc' = [pc EXCEPT ![p] = "sslep"]
             /\ d' = [d EXCEPT ![p] = dd]
             /\ waiting' = waiting \cup {p}
             /\ UNCHANGED sig

\* The call: the deadline, then the loop.
Sslep(p, y) ==
    /\ KernelFree /\ pc[p] = "user"
    /\ SslepLoop(p, dpadd(time, y))
    /\ UNCHANGED <<time, lbolt, reg, stimes, signals>>

\* swtch picks a process that was woken: sleep looks for a signal, then sslep
\* goes round its loop.
SslepResume(p) ==
    /\ KernelFree /\ pc[p] = "sslep" /\ p \notin waiting
    /\ \/ /\ sig[p]
          /\ Return(p)
          /\ d' = [d EXCEPT ![p] = <<0, 0>>]
          /\ UNCHANGED <<tout, waiting>>
       \/ ~sig[p] /\ SslepLoop(p, d[p])
    /\ UNCHANGED <<time, lbolt, reg, stimes, signals>>

\* psignal: a process in SWAIT is made runnable.
Psignal(p) ==
    /\ KernelFree /\ signals < MaxSig
    /\ signals' = signals + 1
    /\ sig' = [sig EXCEPT ![p] = TRUE]
    /\ waiting' = waiting \ {p}
    /\ UNCHANGED <<time, tout, lbolt, pc, d, reg, stimes>>

-----------------------------------------------------------------------------
\* Mutant: the carry of the low word is dropped.
TickNoCarry(t) == <<t[1], Inc(t[2], Word)>>

\* One more second on the time of day.
Tick(t) ==
    <<IF Inc(t[2], Word) = 0 THEN Inc(t[1], High) ELSE t[1], Inc(t[2], Word)>>

\* The clock interrupt: once a second the time advances, and the sleepers are
\* woken if it has become tout.
Clock ==
    /\ \/ /\ lbolt + 1 < HZ
          /\ lbolt' = lbolt + 1
          /\ UNCHANGED <<time, waiting>>
       \/ /\ lbolt + 1 >= HZ
          /\ lbolt' = lbolt + 1 - HZ
          /\ time' = Tick(time)
          /\ waiting' = IF Tick(time) = tout THEN {} ELSE waiting
    /\ UNCHANGED <<tout, pc, d, sig, reg, stimes, signals>>

-----------------------------------------------------------------------------
\* stime by the super-user: the high word, the low word, the wakeup.
StimeHigh(p, t) ==
    /\ KernelFree /\ pc[p] = "user" /\ stimes < MaxStime
    /\ stimes' = stimes + 1
    /\ reg' = [reg EXCEPT ![p][2] = t[2]]
    /\ time' = [time EXCEPT ![1] = t[1]]
    /\ pc' = [pc EXCEPT ![p] = "stimelow"]
    /\ UNCHANGED <<tout, lbolt, waiting, d, sig, signals>>

StimeLow(p) ==
    /\ pc[p] = "stimelow"
    /\ time' = [time EXCEPT ![2] = reg[p][2]]
    /\ pc' = [pc EXCEPT ![p] = "stimewake"]
    /\ UNCHANGED <<tout, lbolt, waiting, d, sig, reg, stimes, signals>>

\* Mutant: stime does not wake the sleepers.
StimeWakeupQuiet(p) ==
    /\ pc[p] = "stimewake"
    /\ reg' = [reg EXCEPT ![p] = <<0, 0>>]
    /\ Return(p)
    /\ UNCHANGED <<time, tout, lbolt, waiting, d, stimes, signals>>

StimeWakeup(p) ==
    /\ pc[p] = "stimewake"
    /\ waiting' = {}
    /\ reg' = [reg EXCEPT ![p] = <<0, 0>>]
    /\ Return(p)
    /\ UNCHANGED <<time, tout, lbolt, d, stimes, signals>>

-----------------------------------------------------------------------------
\* iinit takes the time from the super-block; tout is in the cleared data.
Init ==
    /\ time \in Times /\ tout = <<0, 0>> /\ lbolt = 0
    /\ pc = [p \in Proc |-> "user"] /\ waiting = {}
    /\ d = [p \in Proc |-> <<0, 0>>]
    /\ sig = [p \in Proc |-> FALSE]
    /\ reg = [p \in Proc |-> <<0, 0>>]
    /\ stimes = 0 /\ signals = 0

Kernel(p) ==
    \/ SslepResume(p)
    \/ StimeLow(p) \/ StimeWakeup(p)

Next ==
    \/ \E p \in Proc :
        \/ \E y \in 0 .. MaxSleep : Sslep(p, y)
        \/ \E t \in Times : StimeHigh(p, t)
        \/ Psignal(p)
        \/ Kernel(p)
    \/ Clock

Spec == Init /\ [][Next]_vars

\* A process that was woken runs before the clock has gone through half its
\* range (68 years) since its deadline.
Prompt ==
    Clock =>
        \A p \in Proc : pc[p] = "sslep" /\ p \notin waiting =>
            (dpcmp(d[p], time) <= 0 => dpcmp(d[p], time') <= 0)

\* The clock never stops, and swtch runs every runnable process in the end.
FairSpec ==
    /\ Init /\ [][Next /\ Prompt]_vars
    /\ WF_vars(Clock) /\ \A p \in Proc : WF_vars(Kernel(p))

-----------------------------------------------------------------------------
\* Every variable has its type.
TypeOK ==
    /\ time \in Times /\ tout \in Times /\ lbolt \in 0 .. HZ - 1
    /\ pc \in [Proc -> {"user", "sslep", "stimelow", "stimewake"}]
    /\ waiting \subseteq Proc
    /\ d \in [Proc -> Times] /\ sig \in [Proc -> BOOLEAN]
    /\ reg \in [Proc -> Times]
    /\ stimes \in 0 .. MaxStime /\ signals \in 0 .. MaxSig

InStime == \E p \in Proc : pc[p] \in {"stimelow", "stimewake"}

\* No process is left asleep past its deadline, although the clock compares
\* the time with the one shared alarm only, for equality only, and stime may
\* jump over any number of deadlines (sys2.c:272-280, clock.c:89).
NoOversleep ==
    \A p \in waiting : InStime \/ dpcmp(d[p], time) > 0

\* Why: while anybody sleeps the alarm is ahead of the time and behind no
\* deadline, in the wrapping order of dpcmp.
AlarmAhead ==
    \A p \in waiting :
        /\ pc[p] = "sslep"
        /\ InStime \/ (dpcmp(tout, time) > 0 /\ dpcmp(tout, d[p]) <= 0
                       /\ dpcmp(d[p], time) > 0)

\* Every call of sleep ends, whoever else resets the alarm (sys2.c:272-280).
SleepEnds == \A p \in Proc : pc[p] = "sslep" ~> pc[p] = "user"
=============================================================================
