-------------------------------- MODULE Procs -------------------------------
(***************************************************************************)
(* Processes and their images: fork (ken/slp.c newproc), exit, wait, kill, *)
(* signals (ken/sig.c), the swapper (sched, xswap, swap), raw transfers    *)
(* (physio) and psinfo, on the resource maps of ken/malloc.c.              *)
(*                                                                         *)
(* A step takes a process from one place where it may sleep to the next,   *)
(* or to user mode, where it may be preempted; an interrupt is a step.     *)
(* swtch picks any process that is ready and in core.  Buffers, files and  *)
(* directories are elsewhere: what exit, wait and psinfo do with a block   *)
(* of the swap device is one transfer.  runin and runout are set exactly   *)
(* while the scheduler sleeps on them.                                     *)
(***************************************************************************)
EXTENDS ResMap

CONSTANTS
    NPROC,      \* size of the process table
    Starts,     \* to start from: ops, what each process will call, once,
                \* but wait as often as it likes;
                \* live, the slots that are in use; out, those that are swapped
                \* out; core and swap, the units there are; mpid, the last
                \* number given; watch, the process whose fate the liveness
                \* properties follow
    ImageSwap,  \* swap units of an image, which is one unit of core
    MaxPid      \* after this, mpid starts again

Slot == 0 .. NPROC - 1
Calls == {"fork", "exit", "wait", "kill", "ssig", "raw", "psinfo"}

ASSUME ProcsAssumption ==
    /\ NPROC \in Nat /\ NPROC > 1 /\ ImageSwap \in Nat \ {0}
    /\ MaxPid \in Nat /\ MaxPid > NPROC
    /\ \A s \in Starts :
         /\ s.ops \in [Slot -> SUBSET Calls] /\ {0, 1} \subseteq s.live /\ s.live \subseteq Slot
         /\ s.out \subseteq s.live \ {0} /\ s.core \in Nat /\ s.swap \in Nat
         /\ Cardinality(s.live \ (s.out \cup {0})) <= s.core
         /\ ImageSwap * Cardinality(s.out) <= s.swap
         /\ s.watch \in Slot \ {0} /\ s.mpid \in 0 .. MaxPid

Null == "NULL"      \* p_stat of a free slot
Junk == -1          \* neither's image

VARIABLES
    proc,       \* the table: stat, pid, ppid, addr, load (SLOAD), lock (SLOCK),
                \* time, sig
    at,         \* where each process is; a sleeping one is on that channel
    job,        \* its local variables: what it swaps or waits for
    hand,       \* u_signal[SIGINT]
    coremap, swapmap,
    core, swp,  \* whose image, by pid, each unit holds
    cached,     \* swap units in the buffer cache, with what they held
    swbuf, rawbuf,      \* the buffer headers of swap and physio
    mpid, psok, \* psok: psinfo has so far shown processes with their own frames
    panic, start,
    todo        \* the calls that are still to come

maps == <<coremap, swapmap>>
memory == <<core, swp, cached>>
bufs == <<swbuf, rawbuf>>
rest == <<psok, panic, start>>
vars == <<proc, at, job, hand, maps, memory, bufs, mpid, rest, todo>>

NoJob == [kind |-> "none", who |-> 0, a |-> 0, pid |-> 0]
Idle == [busy |-> FALSE, done |-> FALSE, by |-> 0, page |-> 0]

-----------------------------------------------------------------------------
\* setrun of the processes in W; the scheduler, when it sleeps on runout, is
\* woken if one of them is not in core.
SetRun(P, W) ==
    LET out == \E q \in W : ~P[q].load
    IN  [q \in Slot |-> IF q \in W \/ (out /\ q = 0 /\ at[0] = "runout")
                        THEN [P[q] EXCEPT !.stat = "SRUN"] ELSE P[q]]

Asleep(P, places) ==
    {q \in Slot : at[q] \in places /\ P[q].stat \in {"SSLEEP", "SWAIT"}}

\* wakeup of those who sleep at these places.
Wakeup(P, places) == SetRun(P, Asleep(P, places))

\* sleep of p; a low priority sleep also wakes the scheduler from runin.
Sleep(P, p) == [P EXCEPT ![p].stat = "SSLEEP"]
SleepLow(P, p) == [Wakeup(P, {"runin"}) EXCEPT ![p].stat = "SWAIT"]

\* p may run: the kernel is not preempted, so nobody else may while the
\* scheduler goes round or a call returns with a signal pending.
Run(p) ==
    /\ proc[p].stat = "SRUN" /\ proc[p].load /\ ~panic
    /\ \A q \in Slot \ {p} : at[q] \notin {"loop", "psig"}

\* Mutant: it can be.
IssigAny(P, p) == P[p].sig # "none" /\ hand[p] # "ign"

\* issig: SIGKIL cannot be ignored.
Issig(P, p) == P[p].sig = "KIL" \/ (P[p].sig = "INT" /\ hand[p] # "ign")

\* Where a call returns to: trap looks for a signal.
Back(P, p) == IF Issig(P, p) THEN "psig" ELSE "user"

UserCall(p, c) ==
    /\ Run(p) /\ at[p] = "user" /\ c \in todo[p]
    /\ todo' = [todo EXCEPT ![p] = @ \ {c}]

-----------------------------------------------------------------------------
\* swap: the buffer is taken, or waited for.
GetSwbuf(t) ==
    /\ at' = [at EXCEPT ![t] = IF swbuf.busy THEN "swapget" ELSE "swapio"]
    /\ swbuf' = IF swbuf.busy THEN swbuf ELSE [Idle EXCEPT !.busy = TRUE, !.by = t]

SwapGet(t) ==
    /\ Run(t) /\ at[t] = "swapget"
    /\ proc' = Sleep(proc, t)
    /\ GetSwbuf(t)
    /\ UNCHANGED <<job, hand, maps, memory, rawbuf, mpid, rest, todo>>

SwapUnits(a) == a .. a + ImageSwap - 1

\* The transfer is done: iodone.  A copy that newproc makes is the child's.
SwapIntr ==
    /\ swbuf.busy /\ ~swbuf.done
    /\ swbuf' = [swbuf EXCEPT !.done = TRUE]
    /\ LET j == job[swbuf.by]
           page == proc[j.who].addr
           whole(a) == IF Cardinality({swp[u] : u \in SwapUnits(a)}) = 1 THEN swp[a] ELSE Junk
           image == IF j.kind = "copy" THEN IF core[page] = j.pid THEN proc[j.who].pid ELSE Junk
                    ELSE core[page]
       IN  IF j.kind = "in" THEN core' = [core EXCEPT ![j.a] = whole(page)] /\ UNCHANGED swp
           ELSE /\ swp' = [u \in DOMAIN swp |-> IF u \in SwapUnits(j.a) THEN image ELSE swp[u]]
                /\ UNCHANGED core
    /\ proc' = Wakeup(proc, {"swapget", "swapio"})
    /\ UNCHANGED <<at, job, hand, maps, cached, rawbuf, mpid, rest, todo>>

\* The end of swap, by t: others who want the buffer are woken.
SwapDone(t) ==
    /\ Run(t) /\ at[t] = "swapio" /\ swbuf.done
    /\ swbuf' = Idle
    /\ job' = [job EXCEPT ![t] = NoJob]

-----------------------------------------------------------------------------
\* sched, from a wakeup or the end of a swap to the next sleep.
SchedSleep(on) ==
    /\ proc' = Sleep(proc, 0) /\ at' = [at EXCEPT ![0] = on]
    /\ UNCHANGED <<job, maps, swbuf>>

\* The first of those that have been where they are longest.
Oldest(S) == Min({p \in S : \A q \in S : proc[q].time <= proc[p].time})

Ready == {p \in Slot : proc[p].stat = "SRUN" /\ ~proc[p].load}

\* Mutant: SLOCK is not looked at.
OlderUnlocked ==
    {p \in Slot \ {0} : proc[p].load /\ proc[p].stat \in {"SRUN", "SSLEEP"}}

\* Whom sched may swap out, if possible and if need be.
Easy ==
    {p \in Slot \ {0} : proc[p].load /\ ~proc[p].lock /\ proc[p].stat \in {"SWAIT", "SSTOP"}}
Older ==
    {p \in Slot \ {0} : proc[p].load /\ ~proc[p].lock /\ proc[p].stat \in {"SRUN", "SSLEEP"}}

SwapIn(p, m) ==
    /\ coremap' = m.map /\ UNCHANGED swapmap
    /\ job' = [job EXCEPT ![0] = [NoJob EXCEPT !.kind = "in", !.who = p, !.a = m.addr]]
    /\ proc' = Sleep(proc, 0) /\ GetSwbuf(0)

SwapOut(p) ==
    LET m == Malloc(swapmap, ImageSwap)
    IN  IF m.addr = 0 THEN SchedSleep("runin")
        ELSE /\ swapmap' = m.map /\ UNCHANGED coremap
             /\ job' = [job EXCEPT ![0] = [NoJob EXCEPT !.kind = "out", !.who = p, !.a = m.addr]]
             /\ proc' = Sleep([proc EXCEPT ![p].load = FALSE, ![p].lock = TRUE], 0)
             /\ GetSwbuf(0)

Sched ==
    /\ Run(0) /\ at[0] \in {"loop", "runin", "runout"}
    /\ \/ Ready = {} /\ SchedSleep("runout")
       \/ /\ Ready # {}
          /\ LET p == Oldest(Ready)
                 m == Malloc(coremap, 1)
                 deserving == proc[p].time >= 3 /\ (\E q \in Older : proc[q].time >= 2)
             IN  \/ m.addr # 0 /\ SwapIn(p, m)
                 \/ m.addr = 0 /\ Easy # {} /\ SwapOut(Min(Easy))
                 \/ m.addr = 0 /\ Easy = {} /\ ~deserving /\ SchedSleep("runin")
                 \/ m.addr = 0 /\ Easy = {} /\ deserving /\ SwapOut(Oldest(Older))
    /\ UNCHANGED <<hand, memory, rawbuf, mpid, rest, todo>>

SwapInEnd ==
    /\ SwapDone(0) /\ job[0].kind = "in"
    /\ LET p == job[0].who
           P == Wakeup(proc, {"swapget", "swapmap"})
       IN  /\ swapmap' = Mfree(swapmap, ImageSwap, proc[p].addr)
           /\ proc' = [P EXCEPT ![p].addr = job[0].a, ![p].load = TRUE, ![p].time = 0]
    /\ at' = [at EXCEPT ![0] = "loop"]
    /\ UNCHANGED <<hand, coremap, memory, rawbuf, mpid, rest, todo>>

SwapOutEnd ==
    /\ SwapDone(0) /\ job[0].kind = "out"
    /\ LET p == job[0].who
           P == Wakeup(proc, {"swapget"})
       IN  /\ coremap' = Mfree(coremap, 1, proc[p].addr)
           /\ proc' = [P EXCEPT ![p].addr = job[0].a, ![p].lock = FALSE, ![p].time = 0]
    /\ at' = [at EXCEPT ![0] = "loop"]
    /\ UNCHANGED <<hand, swapmap, memory, rawbuf, mpid, rest, todo>>

-----------------------------------------------------------------------------
\* fork and newproc.
Used == {proc[q].pid : q \in Slot}

\* The next number that no process has.
NextPid ==
    LET after(k) == ((mpid + k - 1) % MaxPid) + 1
    IN  after(Min({k \in 1 .. MaxPid : after(k) \notin Used}))

NewEntry(p, addr, load) ==
    [stat |-> "SRUN", pid |-> NextPid, ppid |-> proc[p].pid, addr |-> addr,
     load |-> load, lock |-> FALSE, time |-> 0, sig |-> "none"]

\* The child's slot c, which is the caller meanwhile, gets its space on the
\* swap device and goes to write the image there, or waits for space.
NewprocRoom(P, c, pid) ==
    LET m == Malloc(swapmap, ImageSwap)
    IN  /\ swapmap' = m.map
        /\ job' = [job EXCEPT ![c] = [kind |-> "copy", who |-> c, a |-> m.addr, pid |-> pid]]
        /\ proc' = Sleep([P EXCEPT ![c].lock = m.addr # 0], c)
        /\ IF m.addr # 0 THEN GetSwbuf(c)
           ELSE at' = [at EXCEPT ![c] = "swapmap"] /\ UNCHANGED swbuf

Fork(p) ==
    /\ UserCall(p, "fork")
    /\ LET free == {q \in Slot : proc[q].stat = Null}
           c == Min(free)
           m == Malloc(coremap, 1)
       IN  \/ /\ free = {}
              /\ at' = [at EXCEPT ![p] = Back(proc, p)]
              /\ UNCHANGED <<proc, job, hand, maps, core, swbuf, mpid>>
           \/ /\ free # {} /\ m.addr # 0
              /\ proc' = [proc EXCEPT ![c] = NewEntry(p, m.addr, TRUE)]
              /\ coremap' = m.map
              /\ core' = [core EXCEPT ![m.addr] = IF core[proc[p].addr] = proc[p].pid
                                                  THEN NextPid ELSE Junk]
              /\ at' = [at EXCEPT ![c] = "user", ![p] = Back(proc, p)]
              /\ mpid' = NextPid /\ hand' = [hand EXCEPT ![c] = hand[p]]
              /\ UNCHANGED <<job, swapmap, swbuf>>
           \/ /\ free # {} /\ m.addr = 0
              /\ NewprocRoom([proc EXCEPT ![c] = NewEntry(p, proc[p].addr, TRUE), ![p].stat = "SIDL"],
                             c, proc[p].pid)
              /\ mpid' = NextPid /\ hand' = [hand EXCEPT ![c] = hand[p]]
              /\ UNCHANGED <<coremap, core>>
    /\ UNCHANGED <<swp, cached, rawbuf, rest>>

NewprocSwap(c) ==
    /\ Run(c) /\ at[c] = "swapmap"
    /\ NewprocRoom(proc, c, job[c].pid)
    /\ UNCHANGED <<hand, coremap, memory, rawbuf, mpid, rest, todo>>

\* xswap has written the image: the child is there, and the parent returns.
NewprocEnd(c) ==
    /\ c # 0 /\ SwapDone(c)
    /\ \E p \in Slot :
         /\ proc[p].pid = job[c].pid
         /\ LET P == [Wakeup(proc, {"swapget", "runout"}) EXCEPT
                        ![c].addr = job[c].a, ![c].load = FALSE, ![c].lock = FALSE,
                        ![c].time = 0, ![p].stat = "SRUN"]
            IN  proc' = P /\ at' = [at EXCEPT ![c] = "user", ![p] = Back(P, p)]
    /\ UNCHANGED <<hand, maps, memory, rawbuf, mpid, rest, todo>>

-----------------------------------------------------------------------------
\* exit, up to the write of the block that the parent will read.
ExitStart(p) ==
    LET m == Malloc(swapmap, 1)
    IN  /\ hand' = [hand EXCEPT ![p] = "ign"]
        /\ panic' = (m.addr = 0)
        /\ swapmap' = m.map
        /\ job' = [job EXCEPT ![p] = [NoJob EXCEPT !.kind = "exit", !.a = m.addr]]
        /\ cached' = IF m.addr = 0 THEN cached ELSE [cached EXCEPT ![m.addr] = proc[p].pid]
        /\ at' = [at EXCEPT ![p] = "exitio"]
        /\ UNCHANGED <<coremap, core, swp, bufs, mpid, psok, start>>

Exit(p) == UserCall(p, "exit") /\ ExitStart(p) /\ proc' = Sleep(proc, p)

\* The interrupt of the transfer that p waits for.
BioIntr(p) ==
    /\ at[p] \in {"exitio", "waitio", "psread"} /\ proc[p].stat = "SSLEEP" /\ ~panic
    /\ LET u == job[p].a
       IN  /\ swp' = IF at[p] = "exitio" THEN [swp EXCEPT ![u] = proc[p].pid] ELSE swp
           /\ cached' = IF at[p] = "psread" /\ u \in DOMAIN swp
                        THEN [cached EXCEPT ![u] = swp[u]] ELSE cached
    /\ proc' = SetRun(proc, {p})
    /\ UNCHANGED <<at, job, hand, maps, core, bufs, mpid, rest, todo>>

\* Whom exit wakes: init, and the parent.
ExitWake(p) == {1} \cup {q \in Slot : proc[q].pid = proc[p].ppid}

\* Mutant: the children keep their parent.
Orphans(P, p) == P

\* The children of p become init's.
Adopted(P, p) ==
    [q \in Slot |-> IF P[q].ppid = P[p].pid THEN [P[q] EXCEPT !.ppid = 1] ELSE P[q]]

ExitEnd(p) ==
    /\ Run(p) /\ at[p] = "exitio"
    /\ coremap' = Mfree(coremap, 1, proc[p].addr)
    /\ LET W == {q \in ExitWake(p) : at[q] = "wait" /\ proc[q].stat = "SWAIT"}
           P == [SetRun(proc, W) EXCEPT ![p].addr = job[p].a, ![p].stat = "SZOMB", ![p].time = 0]
       IN  proc' = Adopted(P, p)
    /\ at' = [at EXCEPT ![p] = "dead"]
    /\ job' = [job EXCEPT ![p] = NoJob]
    /\ UNCHANGED <<hand, swapmap, memory, bufs, mpid, rest, todo>>

\* wait, from the call or from a wakeup.
Children(p) == {q \in Slot \ {0} : proc[q].stat # Null /\ proc[q].ppid = proc[p].pid}
Zombies(p) == {q \in Children(p) : proc[q].stat = "SZOMB"}

Wait(p) ==
    /\ Run(p)
    /\ \/ at[p] = "user" /\ "wait" \in todo[p]
       \/ at[p] = "wait" /\ ~Issig(proc, p)
    /\ \/ /\ Zombies(p) # {}
          /\ LET z == Min(Zombies(p))
             IN  job' = [job EXCEPT ![p] = [NoJob EXCEPT !.kind = "wait", !.who = z, !.a = proc[z].addr]]
          /\ proc' = Sleep(proc, p) /\ at' = [at EXCEPT ![p] = "waitio"]
       \/ /\ Children(p) # {} /\ Zombies(p) = {} /\ ~Issig(proc, p)
          /\ proc' = SleepLow(proc, p) /\ at' = [at EXCEPT ![p] = "wait"] /\ UNCHANGED job
       \/ /\ Children(p) = {} \/ (Zombies(p) = {} /\ Issig(proc, p))
          /\ at' = [at EXCEPT ![p] = Back(proc, p)] /\ UNCHANGED <<proc, job>>
    /\ UNCHANGED <<hand, maps, memory, bufs, mpid, rest, todo>>

\* A signal has ended the sleep.
WaitIntr(p) ==
    /\ Run(p) /\ at[p] = "wait" /\ Issig(proc, p)
    /\ at' = [at EXCEPT ![p] = "psig"]
    /\ UNCHANGED <<proc, job, hand, maps, memory, bufs, mpid, rest, todo>>

FreeSlot == [stat |-> Null, pid |-> 0, ppid |-> 0, addr |-> 0, load |-> FALSE,
             lock |-> FALSE, time |-> 0, sig |-> "none"]

WaitEnd(p) ==
    /\ Run(p) /\ at[p] = "waitio"
    /\ swapmap' = Mfree(swapmap, 1, job[p].a)
    /\ proc' = [proc EXCEPT ![job[p].who] = FreeSlot]
    /\ at' = [at EXCEPT ![p] = Back(proc, p), ![job[p].who] = "free"]
    /\ job' = [job EXCEPT ![p] = NoJob]
    /\ UNCHANGED <<hand, coremap, memory, bufs, mpid, rest, todo>>

-----------------------------------------------------------------------------
\* kill and psignal: one process, or those of the terminal.
Signalled(q, g) ==
    LET e == proc[q]
    IN  [e EXCEPT !.sig = IF @ = "KIL" THEN @ ELSE g,
                  !.stat = IF @ = "SWAIT" THEN "SRUN" ELSE @]

Kill(p, T, g) ==
    /\ UserCall(p, "kill")
    /\ LET P == [q \in Slot |-> IF q \in T THEN Signalled(q, g) ELSE proc[q]]
       IN  proc' = SetRun(P, {q \in T : proc[q].stat = "SWAIT"})
    /\ at' = [at EXCEPT ![p] = Back(proc', p)]
    /\ UNCHANGED <<job, hand, maps, memory, bufs, mpid, rest>>

Others(p) == {q \in Slot \ {0, 1, p} : proc[q].stat # Null}
Targets(p) == {{q} : q \in Others(p)} \cup {Others(p)}

Ssig(p, h) ==
    /\ UserCall(p, "ssig")
    /\ hand' = [hand EXCEPT ![p] = h]
    /\ proc' = IF proc[p].sig = "INT" THEN [proc EXCEPT ![p].sig = "none"] ELSE proc
    /\ at' = [at EXCEPT ![p] = Back(proc', p)]
    /\ UNCHANGED <<job, maps, memory, bufs, mpid, rest>>

\* psig, at the end of a call or at the clock's tick in user mode.
Psig(p) ==
    /\ Run(p) /\ at[p] \in {"user", "psig"} /\ Issig(proc, p)
    /\ \/ /\ proc[p].sig = "INT" /\ hand[p] = "fun"
          /\ hand' = [hand EXCEPT ![p] = "dfl"]
          /\ proc' = [proc EXCEPT ![p].sig = "none"]
          /\ at' = [at EXCEPT ![p] = "user"]
          /\ UNCHANGED <<job, maps, memory, bufs, mpid, rest>>
       \/ /\ proc[p].sig = "KIL" \/ hand[p] = "dfl"
          /\ ExitStart(p)
          /\ proc' = Sleep([proc EXCEPT ![p].sig = "none"], p)
    /\ UNCHANGED todo

\* Mutant: the scheduler is not woken.
ClockIdle ==
    /\ ~panic
    /\ proc' = [q \in Slot |-> IF q # 0 /\ proc[q].stat \notin {Null, "SZOMB"} /\ proc[q].time < 3
                                THEN [proc[q] EXCEPT !.time = @ + 1] ELSE proc[q]]
    /\ UNCHANGED <<at, job, hand, maps, memory, bufs, mpid, rest, todo>>

\* The second's tick: the times, and the scheduler's runin.  sched compares
\* p_time with 2, with 3 and with others, so past 3 a time is kept as its rank;
\* that p_time stops at 127 is left out.
Clock ==
    /\ ~panic
    /\ LET P == Wakeup(proc, {"runin"})
           T == {q \in Slot \ {0} : P[q].stat \notin {Null, "SZOMB"}}
           rank(t) == IF t < 3 THEN t + 1
                      ELSE 4 + Cardinality({P[q].time : q \in T} \cap 3 .. t - 1)
       IN  proc' = [q \in Slot |-> IF q \in T THEN [P[q] EXCEPT !.time = rank(@)] ELSE P[q]]
    /\ UNCHANGED <<at, job, hand, maps, memory, bufs, mpid, rest, todo>>

-----------------------------------------------------------------------------
\* physio: the page is computed first; then the buffer is taken or waited for.
RawTake(p, page) ==
    /\ job' = [job EXCEPT ![p] = [NoJob EXCEPT !.kind = "raw", !.a = page]]
    /\ at' = [at EXCEPT ![p] = IF rawbuf.busy THEN "rawget" ELSE "rawio"]
    /\ rawbuf' = IF rawbuf.busy THEN rawbuf
                 ELSE [busy |-> TRUE, done |-> FALSE, by |-> p, page |-> page]
    /\ proc' = Sleep(IF rawbuf.busy THEN proc ELSE [proc EXCEPT ![p].lock = TRUE], p)
    /\ UNCHANGED <<hand, maps, memory, swbuf, mpid, rest>>

Raw(p) == UserCall(p, "raw") /\ RawTake(p, proc[p].addr)
RawGet(p) == Run(p) /\ at[p] = "rawget" /\ RawTake(p, job[p].a) /\ UNCHANGED todo

\* The device writes the page: whoever is there.
RawIntr ==
    /\ rawbuf.busy /\ ~rawbuf.done /\ ~panic
    /\ rawbuf' = [rawbuf EXCEPT !.done = TRUE]
    /\ core' = [core EXCEPT ![rawbuf.page] = IF @ = proc[rawbuf.by].pid THEN @ ELSE Junk]
    /\ proc' = Wakeup(proc, {"rawget", "rawio"})
    /\ UNCHANGED <<at, job, hand, maps, swp, cached, swbuf, mpid, rest, todo>>

RawEnd(p) ==
    /\ Run(p) /\ at[p] = "rawio" /\ rawbuf.done
    /\ rawbuf' = Idle
    /\ proc' = [Wakeup(proc, {"rawget"}) EXCEPT ![p].lock = FALSE]
    /\ at' = [at EXCEPT ![p] = Back(proc', p)]
    /\ job' = [job EXCEPT ![p] = NoJob]
    /\ UNCHANGED <<hand, maps, memory, swbuf, mpid, rest, todo>>

-----------------------------------------------------------------------------
\* psinfo of slot s: the frame is the last unit of an image that is swapped
\* out.  A block that is still in the buffer cache is not read again; the
\* cache may have lost it.
Frame(a) == a + ImageSwap - 1

PsinfoOut(p, s, frame) ==
    /\ psok' = (psok /\ (s = 0 \/ proc[s].stat \in {Null, "SZOMB"} \/ frame = proc[s].pid))
    /\ at' = [at EXCEPT ![p] = Back(proc, p)]
    /\ job' = [job EXCEPT ![p] = NoJob]
    /\ UNCHANGED proc

PsinfoLoop(p, s) ==
    /\ \/ proc[s].stat = Null /\ PsinfoOut(p, s, Junk)
       \/ /\ proc[s].stat # Null /\ proc[s].load
          /\ PsinfoOut(p, s, IF proc[s].addr \in DOMAIN core THEN core[proc[s].addr] ELSE Junk)
       \/ LET u == Frame(proc[s].addr)
          IN  /\ proc[s].stat # Null /\ ~proc[s].load
              /\ \/ u \in DOMAIN swp /\ cached[u] # 0 /\ PsinfoOut(p, s, cached[u])
                 \/ /\ proc' = Sleep(proc, p) /\ at' = [at EXCEPT ![p] = "psread"]
                    /\ job' = [job EXCEPT ![p] = [kind |-> "ps", who |-> s, a |-> u, pid |-> proc[s].pid]]
                    /\ UNCHANGED psok
    /\ UNCHANGED <<hand, maps, memory, bufs, mpid, panic, start>>

Psinfo(p, s) == UserCall(p, "psinfo") /\ PsinfoLoop(p, s)

\* Mutant: the slot is not looked at again.
Unmoved(p) == TRUE

\* The process is where it was when the block was asked for.
Same(p) ==
    LET e == proc[job[p].who]
    IN  e.pid = job[p].pid /\ ~e.load /\ Frame(e.addr) = job[p].a

\* The block is there: it counts if the process has not moved meanwhile.
PsinfoRead(p) ==
    /\ Run(p) /\ at[p] = "psread"
    /\ LET s == job[p].who
           u == job[p].a
       IN  \/ ~Same(p) /\ PsinfoLoop(p, s)
           \/ /\ Same(p) /\ PsinfoOut(p, s, IF u \in DOMAIN swp THEN cached[u] ELSE Junk)
              /\ UNCHANGED <<hand, maps, memory, bufs, mpid, panic, start>>
    /\ UNCHANGED todo

-----------------------------------------------------------------------------
InCore(s) == s.live \ (s.out \cup {0})

\* proc 0 is the scheduler; the others are children of init, each in its unit
\* of core or its run of the swap device.
Entry0(s, q) ==
    IF q \notin s.live THEN FreeSlot
    ELSE [FreeSlot EXCEPT !.stat = "SRUN", !.pid = q, !.ppid = IF q > 1 THEN 1 ELSE 0,
              !.load = q \notin s.out,
              !.addr = IF q = 0 THEN 0
                       ELSE IF q \in s.out THEN 1 + ImageSwap * Cardinality({r \in s.out : r < q})
                       ELSE Cardinality({r \in InCore(s) : r <= q})]

FreeFrom(a, n) == IF a > n THEN <<>> ELSE <<Entry(a, n - a + 1)>>

Init ==
    /\ start \in Starts
    /\ proc = [q \in Slot |-> Entry0(start, q)]
    /\ at = [q \in Slot |-> IF q = 0 THEN "loop" ELSE IF q \in start.live THEN "user" ELSE "free"]
    /\ job = [q \in Slot |-> NoJob] /\ hand = [q \in Slot |-> "dfl"]
    /\ coremap = FreeFrom(Cardinality(InCore(start)) + 1, start.core)
    /\ swapmap = FreeFrom(ImageSwap * Cardinality(start.out) + 1, start.swap)
    /\ core = [a \in 1 .. start.core |->
                 IF \E q \in InCore(start) : proc[q].addr = a
                 THEN CHOOSE q \in InCore(start) : proc[q].addr = a ELSE 0]
    /\ swp = [u \in 1 .. start.swap |->
                 IF \E q \in start.out : u \in SwapUnits(proc[q].addr)
                 THEN CHOOSE q \in start.out : u \in SwapUnits(proc[q].addr) ELSE 0]
    /\ cached = [u \in 1 .. start.swap |-> 0]
    /\ swbuf = Idle /\ rawbuf = Idle /\ mpid = start.mpid /\ psok = TRUE
    /\ panic = FALSE /\ todo = start.ops

\* What is done for a process in the kernel, once it has begun.
Interrupt(p) ==
    \/ BioIntr(p)
    \/ p = swbuf.by /\ SwapIntr
    \/ p = rawbuf.by /\ RawIntr

Scheduler == Sched \/ SwapInEnd \/ SwapOutEnd

Kernel(p) ==
    \/ p = 0 /\ Scheduler
    \/ SwapGet(p) \/ NewprocSwap(p) \/ NewprocEnd(p) \/ ExitEnd(p)
    \/ WaitIntr(p) \/ WaitEnd(p) \/ RawGet(p) \/ RawEnd(p) \/ PsinfoRead(p)
    \/ Psig(p)

User(p) ==
    \/ Fork(p) \/ Exit(p) \/ Raw(p)
    \/ \E s \in Slot : Psinfo(p, s)
    \/ \E T \in Targets(p), g \in {"INT", "KIL"} : Kill(p, T, g)
    \/ \E h \in {"dfl", "ign", "fun"} : Ssig(p, h)

Next ==
    \/ Clock
    \/ \E p \in Slot : Interrupt(p) \/ Kernel(p) \/ Wait(p) \/ User(p)

Spec == Init /\ [][Next]_vars

\* The devices and the clock interrupt; swtch, by priorities that age, comes
\* to every process that stays ready and in core; init always waits.
FairSpec ==
    /\ Spec /\ WF_vars(Clock)
    /\ \A p \in Slot : SF_vars(Interrupt(p) \/ Kernel(p) \/ (p = 1 /\ Wait(p)))

-----------------------------------------------------------------------------
Places ==
    {"loop", "runin", "runout", "swapget", "swapio", "swapmap", "user", "psig", "exitio",
     "wait", "waitio", "rawget", "rawio", "psread", "dead", "free"}

\* Every variable has its type: the table's fields, where each process is, and
\* the maps as sequences of runs.
TypeOK ==
    /\ proc \in [Slot -> [stat : {Null, "SRUN", "SSLEEP", "SWAIT", "SIDL", "SZOMB"},
                          pid : 0 .. MaxPid, ppid : 0 .. MaxPid, addr : Nat, load : BOOLEAN,
                          lock : BOOLEAN, time : 0 .. 3 + NPROC, sig : {"none", "INT", "KIL"}]]
    /\ at \in [Slot -> Places] /\ hand \in [Slot -> {"dfl", "ign", "fun"}]
    /\ job \in [Slot -> [kind : {"none", "in", "out", "copy", "exit", "wait", "raw", "ps"},
                         who : Slot, a : Nat, pid : 0 .. MaxPid]]
    /\ {coremap, swapmap} \subseteq Seq([addr : Nat, size : Nat])
    /\ {swbuf, rawbuf} \subseteq [busy : BOOLEAN, done : BOOLEAN, by : Slot, page : Nat]
    /\ mpid \in 0 .. MaxPid /\ psok \in BOOLEAN /\ panic \in BOOLEAN /\ todo \in [Slot -> SUBSET Calls]

Moving(q) == {j \in {job[t] : t \in Slot} : j.kind \in {"in", "out", "copy"} /\ j.who = q /\ j.a # 0}
Copied(q) == at[q] \in {"swapmap", "swapget", "swapio"} /\ job[q].kind = "copy"
Swapping(q) == \E j \in Moving(q) : j.kind = "out"

\* The units of core and of the swap device that slot q has: those of its
\* image, those a transfer has reserved for it, those of a zombie's block.
CoreOf(q) ==
    (IF proc[q].stat \notin {Null, "SZOMB"} /\ q # 0 /\ ~Copied(q) /\ (proc[q].load \/ Swapping(q))
     THEN {proc[q].addr} ELSE {}) \cup {j.a : j \in {k \in Moving(q) : k.kind = "in"}}
SwapOf(q) ==
    (IF proc[q].stat \notin {Null, "SZOMB"} /\ ~proc[q].load /\ ~Swapping(q) THEN SwapUnits(proc[q].addr)
     ELSE IF proc[q].stat = "SZOMB" THEN {proc[q].addr} ELSE {})
    \cup (UNION {SwapUnits(j.a) : j \in {k \in Moving(q) : k.kind # "in"}})
    \cup (IF job[q].kind = "exit" /\ job[q].a # 0 THEN {job[q].a} ELSE {})

Partition(map, Of(_), n) ==
    /\ WellFormed(map)
    /\ Units(map) \cup UNION {Of(q) : q \in Slot} = 1 .. n
    /\ \A q \in Slot : Of(q) \cap Units(map) = {} /\ \A r \in Slot \ {q} : Of(q) \cap Of(r) = {}

\* Every unit of core and every block of the swap device is free, once, or
\* belongs to one process: fork, swapping, exit and wait, in whatever order
\* they sleep, neither lose space nor hand it out twice, and the maps stay
\* sorted and joined.
MapsAgree ==
    /\ Partition(coremap, CoreOf, start.core)
    /\ Partition(swapmap, SwapOf, start.swap)

\* The image of a process that runs or waits is its own, where its table entry
\* says that it is: no swap, copy of newproc or raw transfer has put another's
\* there, and none has been lost.
ImageIntact ==
    \A q \in Slot \ {0} :
      proc[q].stat \notin {Null, "SZOMB"} /\ ~Copied(q) =>
        IF proc[q].load \/ Swapping(q) THEN core[proc[q].addr] = proc[q].pid
        ELSE \A u \in SwapUnits(proc[q].addr) : swp[u] = proc[q].pid

\* The parent of a process is in the table and has not exited, so that somebody
\* can wait for it; and no two processes have the same number.
ParentLives ==
    \A q \in Slot \ {0} : proc[q].stat # Null =>
      /\ \E r \in Slot : proc[r].pid = proc[q].ppid /\ proc[r].stat \notin {Null, "SZOMB"}
      /\ \A r \in Slot \ {q} : proc[r].pid # proc[q].pid

\* Nobody sleeps in wait while a child of his is a zombie, the scheduler does
\* not sleep on runout while somebody is to be swapped in, and nobody sleeps
\* for a buffer header that is free.
NoLostWakeup ==
    /\ \A p \in Slot : at[p] = "wait" /\ proc[p].stat = "SWAIT" => Zombies(p) = {}
    /\ at[0] = "runout" /\ proc[0].stat = "SSLEEP" => Ready = {}
    /\ \A p \in Slot : proc[p].stat = "SSLEEP" =>
         /\ at[p] \in {"swapget", "swapio"} => swbuf.busy /\ (at[p] = "swapget" \/ ~swbuf.done)
         /\ at[p] \in {"rawget", "rawio"} => rawbuf.busy

\* The table of processes: every process has a parent who can wait for it and a
\* number of its own, and nobody sleeps for what has happened (fork, exit, wait
\* and sched).
TableKept == TypeOK /\ ParentLives /\ NoLostWakeup

\* Core, the swap device and the images there: no unit is lost or used twice,
\* and every process has its own image (malloc, mfree, xswap, newproc, physio).
MemoryKept == MapsAgree /\ ImageIntact

\* What ps shows of a process is that process's: "the two halves always
\* describe the same instant" (sys4.c:345).
PsinfoConsistent == psok

\* Room on the swap device for one image more than are out at the start.  With
\* less, the scheduler can exchange nobody and waits for somebody in core to
\* exit.
Roomy == start.swap >= ImageSwap * (Cardinality(start.out) + 1)

\* A process that is ready gets into core, whatever forks, exits and transfers
\* go on.
SwappedIn == Roomy /\ start.watch \in Ready ~> proc[start.watch].load

\* A child of init, by birth or because its parent exited, that SIGKIL is sent
\* to, or that has exited, is collected: however deep in the kernel it sleeps
\* and wherever its image is.
KillEnds ==
    LET p == start.watch
    IN  Roomy /\ proc[p].ppid = 1 /\ (proc[p].sig = "KIL" \/ proc[p].stat = "SZOMB")
          ~> proc[p].stat = Null
=============================================================================
