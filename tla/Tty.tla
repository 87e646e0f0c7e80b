-------------------------------- MODULE Tty ---------------------------------
(***************************************************************************)
(* A terminal (dmr/tty.c, dmr/kl.c, dmr/uart.c with KL_BACKEND_UART): the  *)
(* raw, canonical and output queues, ttread with canon, ttwrite, stty and  *)
(* close with wflushtty, and the receive, transmit and clock interrupts.   *)
(*                                                                         *)
(* Processes are not preempted in the kernel, but an interrupt may come    *)
(* between any two instructions outside spl5.  A step of a process is one  *)
(* access to a queue or to t_delct, or a section at spl5; an interrupt is  *)
(* one step.  Character blocks do not run out.                             *)
(***************************************************************************)
EXTENDS Integers, Sequences, FiniteSets, FiniteSetsExt, SequencesExt

CONSTANTS
    Proc,       \* processes, all with this controlling terminal
    Starts,     \* to start from: ops, the calls of each process; keys, the
                \* keys that are typed, and how many; echo, ECHO; delay,
                \* NLDELAY
    Texts,      \* what a write call may write
    Counts,     \* what a read call may ask for
    TTHIWAT, TTLOWAT, TTYHOG,
    CANBSIZ,    \* characters canon can hold: 254
    MaxCalls    \* bound: write, stty and close calls

Key == {"a", "nl", "#", "@", "eot", "\\", "intr"}
Calls == {"read", "write", "stty", "close"}

ASSUME TtyAssumption ==
    /\ \A s \in Starts : /\ s.ops \in [Proc -> SUBSET Calls] /\ s.keys \subseteq Key
                         /\ s.maxkeys \in Nat
                         /\ s.echo \in BOOLEAN /\ s.delay \in BOOLEAN
    /\ \A w \in Texts : w \in Seq(Key)
    /\ Counts \subseteq Nat \ {0}
    /\ TTHIWAT \in Nat \ {0} /\ TTLOWAT \in Nat /\ TTLOWAT <= TTHIWAT /\ TTYHOG \in Nat
    /\ CANBSIZ \in Nat \ {0} /\ MaxCalls \in Nat

Delim == "delim"    \* 0377
Delay == "delay"    \* a character above 0200
None == "none"

VARIABLES
    tp,         \* the tty structure and the transmitter's holding register
    log,        \* what was typed of a line, is due to readers, was put out
                \* and not yet sent
    pc, wchan, sig,     \* where each process is, what it sleeps on, p_sig
    line,       \* canonb, or what is left of it to copy
    text,       \* what is left of a write call
    expn,       \* what is left of the expansion of a character
    count,      \* u_count of a read call
    start,      \* the member of Starts; it does not change
    keys, calls \* for the bounds

vars == <<tp, log, pc, wchan, sig, line, text, expn, count, start, keys, calls>>
locals == <<line, text, expn, count>>

-----------------------------------------------------------------------------
\* Mutant: the transmitter is not looked at.
TtstartBlind(t) ==
    IF t.timeout \/ t.outq = <<>> THEN t
    ELSE IF Head(t.outq) = Delay THEN [t EXCEPT !.outq = Tail(@), !.timeout = TRUE]
    ELSE [t EXCEPT !.outq = Tail(@), !.thr = Head(t.outq)]

\* ttstart: when the transmitter is idle (DONE) and no delay is in progress,
\* send the next character, or begin the delay that is next.
Ttstart(t) ==
    IF t.thr # None \/ t.timeout \/ t.outq = <<>> THEN t
    ELSE IF Head(t.outq) = Delay THEN [t EXCEPT !.outq = Tail(@), !.timeout = TRUE]
    ELSE [t EXCEPT !.outq = Tail(@), !.thr = Head(t.outq)]

\* What ttyoutput puts on the queue for a character: CRMOD, EOT, delays.
Ttyoutput(t, c) ==
    IF c = "nl" THEN <<"cr", "nl">> \o (IF t.delay THEN <<Delay>> ELSE <<>>)
    ELSE IF c = "eot" /\ ~t.raw THEN <<>>
    ELSE <<c>>

\* Mutant: t_delct is not reset.
FlushttyKeeps(t) == [t EXCEPT !.canq = <<>>, !.outq = <<>>, !.rawq = <<>>]

\* flushtty: the queues are emptied.
Flushtty(t) ==
    [t EXCEPT !.canq = <<>>, !.outq = <<>>, !.rawq = <<>>, !.delct = 0]

\* What is flushed need not be read, or sent.
Flushed(l, t) ==
    [l EXCEPT !.typing = <<>>, !.due = <<>>,
              !.out = IF t.thr = None THEN <<>> ELSE <<t.thr>>]

\* What is left when c has come out, which should be the first of s.
Wrong == "wrong"
Taken(s, c) == IF s # <<>> /\ Head(s) = c THEN Tail(s) ELSE <<Wrong>>

Wakeup(C) == [q \in Proc |-> IF wchan[q] \in C THEN None ELSE wchan[q]]

\* The elements of s that are in K, and the characters that are sent.
Only(s, K) ==
    LET f[i \in 0 .. Len(s)] ==
            IF i = 0 THEN <<>>
            ELSE IF s[i] \in K THEN Append(f[i - 1], s[i]) ELSE f[i - 1]
    IN  f[Len(s)]
Sendable(s) == Only(s, Key \cup {"cr"})

-----------------------------------------------------------------------------
\* canon: what one character does to the line (maptab has #, @ and EOT).
CanonChar(l, c) ==
    LET esc == l # <<>> /\ Last(l) = "\\"
    IN  IF ~esc /\ c = "#" THEN (IF l = <<>> THEN l ELSE Front(l))
        ELSE IF ~esc /\ c = "@" THEN <<>>
        ELSE IF ~esc /\ c = "eot" THEN l
        ELSE IF esc /\ c \in {"#", "@", "eot"} THEN Append(Front(l), c)
        ELSE Append(l, c)

-----------------------------------------------------------------------------
\* Where a process sleeps; elsewhere in the kernel it runs.
Waits == {"canonsleep", "hiwat", "sttydrain", "closedrain"}

Runs(p, at) ==
    /\ pc[p] \in at /\ wchan[p] = None
    /\ \A q \in Proc \ {p} : pc[q] \in {"user"} \cup Waits
    /\ pc[p] \in Waits => ~sig[p]

Goto(p, at) == pc' = [pc EXCEPT ![p] = at]

\* The call returns, and trap handles a pending signal.
Return(p) ==
    /\ Goto(p, "user")
    /\ sig' = [sig EXCEPT ![p] = FALSE]
    /\ line' = [line EXCEPT ![p] = <<>>] /\ text' = [text EXCEPT ![p] = <<>>]
    /\ expn' = [expn EXCEPT ![p] = <<>>] /\ count' = [count EXCEPT ![p] = 0]

\* sleep(chan, pri), pri > 0: a pending signal ends the call.
SleepOn(p, chan, at) ==
    IF sig[p] THEN Return(p) /\ UNCHANGED wchan
    ELSE /\ Goto(p, at) /\ wchan' = [wchan EXCEPT ![p] = chan]
         /\ UNCHANGED <<sig, locals>>

\* A signal has ended the sleep.
Interrupted(p) ==
    /\ pc[p] \in Waits /\ wchan[p] = None /\ sig[p]
    /\ \A q \in Proc \ {p} : pc[q] \in {"user"} \cup Waits
    /\ Return(p)
    /\ UNCHANGED <<tp, log, wchan, start, keys, calls>>

-----------------------------------------------------------------------------
\* ttread: is there something in the canonical queue, or is canon called?
Ttread(p, n) ==
    /\ Runs(p, {"user"}) /\ "read" \in start.ops[p]
    /\ Goto(p, IF tp.canq # <<>> THEN "pass" ELSE "canon")
    /\ count' = [count EXCEPT ![p] = n]
    /\ UNCHANGED <<tp, log, wchan, sig, line, text, expn, start, keys, calls>>

\* Mutant: a reader that was woken does not look at t_delct again.
CanonWaitOnce(p) ==
    /\ Runs(p, {"canon", "canonsleep"})
    /\ IF tp.delct = 0 /\ pc[p] = "canon" THEN SleepOn(p, "rawq", "canonsleep")
       ELSE Goto(p, "get") /\ UNCHANGED <<wchan, sig, locals>>
    /\ UNCHANGED <<tp, log, start, keys, calls>>

\* canon waits for a delimiter, at spl5.
CanonWait(p) ==
    /\ Runs(p, {"canon", "canonsleep"})
    /\ IF tp.delct = 0 THEN SleepOn(p, "rawq", "canonsleep")
       ELSE Goto(p, "get") /\ UNCHANGED <<wchan, sig, locals>>
    /\ UNCHANGED <<tp, log, start, keys, calls>>

\* canon takes a character off the raw queue, until the delimiter.
CanonGet(p) ==
    /\ Runs(p, {"get"})
    /\ \/ /\ tp.rawq = <<>>
          /\ Goto(p, "put") /\ UNCHANGED <<tp, line>>
       \/ /\ tp.rawq # <<>>
          /\ tp' = [tp EXCEPT !.rawq = Tail(@)]
          /\ LET c == Head(tp.rawq)
                 l == IF tp.raw THEN Append(line[p], c) ELSE CanonChar(line[p], c)
             IN  IF c = Delim THEN Goto(p, "dec") /\ UNCHANGED line
                 ELSE /\ line' = [line EXCEPT ![p] = l]
                      /\ Goto(p, IF Len(l) >= CANBSIZ THEN "put" ELSE "get")
    /\ UNCHANGED <<log, wchan, sig, text, expn, count, start, keys, calls>>

\* t_delct-- after the delimiter was taken, with interrupts enabled.
CanonDec(p) ==
    /\ Runs(p, {"dec"})
    /\ tp' = [tp EXCEPT !.delct = @ - 1]
    /\ Goto(p, "put")
    /\ UNCHANGED <<log, wchan, sig, locals, start, keys, calls>>

\* canon copies the line to the canonical queue.
CanonPut(p) ==
    /\ Runs(p, {"put"})
    /\ IF line[p] = <<>> THEN Goto(p, "pass") /\ UNCHANGED <<tp, line>>
       ELSE /\ tp' = [tp EXCEPT !.canq = Append(@, Head(line[p]))]
            /\ line' = [line EXCEPT ![p] = Tail(@)]
            /\ UNCHANGED pc
    /\ UNCHANGED <<log, wchan, sig, text, expn, count, start, keys, calls>>

\* ttread's loop: the test of c_cc.  A read that has passed nothing is an end
\* of file.
TtreadTest(p) ==
    /\ Runs(p, {"pass", "more"})
    /\ IF tp.canq # <<>>
       THEN Goto(p, "getc") /\ UNCHANGED <<log, sig, locals>>
       ELSE /\ Return(p)
            /\ log' = IF pc[p] = "pass" THEN [log EXCEPT !.due = Taken(@, "eof")] ELSE log
    /\ UNCHANGED <<tp, wchan, start, keys, calls>>

\* passc(getc()): an empty queue gives -1.
TtreadPass(p) ==
    /\ Runs(p, {"getc"})
    /\ log' = [log EXCEPT !.due = Taken(@, IF tp.canq = <<>> THEN "ff" ELSE Head(tp.canq))]
    /\ tp' = [tp EXCEPT !.canq = IF @ = <<>> THEN @ ELSE Tail(@)]
    /\ IF count[p] = 1 THEN Return(p)
       ELSE /\ count' = [count EXCEPT ![p] = @ - 1] /\ Goto(p, "more")
            /\ UNCHANGED <<sig, line, text, expn>>
    /\ UNCHANGED <<wchan, start, keys, calls>>

-----------------------------------------------------------------------------
Ttwrite(p, w) ==
    /\ Runs(p, {"user"}) /\ "write" \in start.ops[p] /\ calls < MaxCalls
    /\ calls' = calls + 1
    /\ Goto(p, "cpass") /\ text' = [text EXCEPT ![p] = w]
    /\ UNCHANGED <<tp, log, wchan, sig, line, expn, count, start, keys>>

\* ttwrite before each character, at spl5: wait for room.
TtwriteWait(p) ==
    /\ Runs(p, {"cpass", "hiwat"}) /\ text[p] # <<>>
    /\ IF Len(tp.outq) > TTHIWAT
       THEN SleepOn(p, "outq", "hiwat") /\ tp' = Ttstart(tp)
       ELSE /\ expn' = [expn EXCEPT ![p] = Ttyoutput(tp, Head(text[p]))]
            /\ text' = [text EXCEPT ![p] = Tail(@)]
            /\ Goto(p, "out") /\ UNCHANGED <<tp, wchan, sig, line, count>>
    /\ UNCHANGED <<log, start, keys, calls>>

\* ttyoutput: one putc.
TtyoutputPut(p) ==
    /\ Runs(p, {"out"})
    /\ IF expn[p] = <<>> THEN Goto(p, "cpass") /\ UNCHANGED <<tp, log, expn>>
       ELSE /\ tp' = [tp EXCEPT !.outq = Append(@, Head(expn[p]))]
            /\ log' = [log EXCEPT !.out = @ \o Sendable(<<Head(expn[p])>>)]
            /\ expn' = [expn EXCEPT ![p] = Tail(@)]
            /\ UNCHANGED pc
    /\ UNCHANGED <<wchan, sig, line, text, count, start, keys, calls>>

\* The end of ttwrite.
TtwriteEnd(p) ==
    /\ Runs(p, {"cpass"}) /\ text[p] = <<>>
    /\ tp' = Ttstart(tp)
    /\ Return(p)
    /\ UNCHANGED <<log, wchan, start, keys, calls>>

-----------------------------------------------------------------------------
\* stty and close begin with wflushtty.
Wflushtty(p, c) ==
    /\ Runs(p, {"user"}) /\ c \in start.ops[p] /\ calls < MaxCalls
    /\ calls' = calls + 1
    /\ Goto(p, c)
    /\ UNCHANGED <<tp, log, wchan, sig, locals, start, keys>>

\* wflushtty, at spl5: wait for the output to drain, then flush the input.
WflushttyWait(p) ==
    /\ Runs(p, {"stty", "close", "sttydrain", "closedrain"})
    /\ LET stty == pc[p] \in {"stty", "sttydrain"}
       IN  IF tp.outq # <<>>
           THEN /\ SleepOn(p, "outq", IF stty THEN "sttydrain" ELSE "closedrain")
                /\ UNCHANGED <<tp, log>>
           ELSE /\ tp' = Flushtty(tp) /\ log' = Flushed(log, tp)
                /\ wchan' = Wakeup({"rawq", "outq"})
                /\ IF stty THEN Goto(p, "set") /\ UNCHANGED <<sig, locals>> ELSE Return(p)
    /\ UNCHANGED <<start, keys, calls>>

\* ttystty sets the flags; only RAW matters here.
Ttystty(p, raw) ==
    /\ Runs(p, {"set"})
    /\ tp' = [tp EXCEPT !.raw = raw]
    /\ Return(p)
    /\ UNCHANGED <<log, wchan, start, keys, calls>>

-----------------------------------------------------------------------------
\* A line as it was meant, by what was typed: \ takes the meaning of the #, @
\* or EOT after it; @ kills what is before it, # erases one character, EOT ends
\* the line.
Special == {"#", "@", "eot"}
Quoted(l, k) == k > 1 /\ l[k] \in Special /\ l[k - 1] = "\\"
Meant(l, k, c) == l[k] = c /\ ~Quoted(l, k)
Text(l, k) ==
    /\ l[k] \in Special => Quoted(l, k)
    /\ k < Len(l) => ~Quoted(l, k + 1)
Number(l, P(_, _), i, j) == Cardinality({k \in i .. j : P(l, k)})
Kept(l) ==
    {k \in DOMAIN l : /\ Text(l, k)
                      /\ \A j \in k + 1 .. Len(l) :
                           /\ ~Meant(l, j, "@")
                           /\ Number(l, LAMBDA m, n : Meant(m, n, "#"), k + 1, j)
                                <= Number(l, Text, k + 1, j)}
Edited(l) == [i \in 1 .. Cardinality(Kept(l)) |->
                l[CHOOSE k \in Kept(l) : Cardinality({j \in Kept(l) : j < k}) = i - 1]]

\* What the line that ends with this key gives its readers.
Reads(l, raw) ==
    LET e == IF raw THEN l ELSE Edited(l)
    IN  IF e = <<>> THEN <<"eof">> ELSE e

-----------------------------------------------------------------------------
Interrupt(C) == wchan' = Wakeup(C) /\ UNCHANGED <<pc, locals, start, calls>>

\* Is the raw queue too long for another key?
Hogged == Len(tp.rawq) >= TTYHOG

\* ttyinput of an interrupt key: a signal to all, and a flush.
TtyinputIntr ==
    /\ keys < start.maxkeys /\ "intr" \in start.keys /\ ~tp.raw
    /\ keys' = keys + 1
    /\ sig' = [q \in Proc |-> TRUE]
    /\ wchan' = [q \in Proc |-> None]
    /\ tp' = Flushtty(tp) /\ log' = Flushed(log, tp)
    /\ UNCHANGED <<pc, locals, start, calls>>

\* ttyinput when the raw queue is too long.
TtyinputHog(c) ==
    /\ keys < start.maxkeys /\ c \in start.keys /\ (c = "intr" => tp.raw)
    /\ Hogged
    /\ keys' = keys + 1
    /\ tp' = Flushtty(tp) /\ log' = Flushed(log, tp)
    /\ Interrupt({"rawq", "outq"}) /\ UNCHANGED sig

\* ttyinput of any other key: the raw queue, the delimiter, the echo.
Ttyinput(c) ==
    /\ keys < start.maxkeys /\ c \in start.keys /\ (c = "intr" => tp.raw)
    /\ ~Hogged
    /\ keys' = keys + 1
    /\ LET ends == tp.raw \/ c \in {"nl", "eot"}
           echo == IF tp.echo THEN Ttyoutput(tp, c) ELSE <<>>
           t == [tp EXCEPT !.rawq = @ \o (IF ends THEN <<c, Delim>> ELSE <<c>>),
                           !.delct = IF ends THEN @ + 1 ELSE @, !.outq = @ \o echo]
           l == Append(log.typing, c)
       IN  /\ tp' = IF tp.echo THEN Ttstart(t) ELSE t
           /\ log' = [log EXCEPT !.out = @ \o Sendable(echo),
                        !.typing = IF ends THEN <<>> ELSE l,
                        !.due = IF ends THEN @ \o Reads(l, tp.raw) ELSE @]
           /\ Interrupt(IF ends THEN {"rawq"} ELSE {})
    /\ UNCHANGED sig

\* Mutant: nobody is woken when the queue has become empty.
WakesLow(t) == IF Len(t.outq) = TTLOWAT THEN {"outq"} ELSE {}

\* Whom klxint wakes.
Wakes(t) == IF Len(t.outq) \in {0, TTLOWAT} THEN {"outq"} ELSE {}

\* The transmitter has sent a character: klxint, kltxintr.
Klxint ==
    /\ tp.thr # None
    /\ log' = [log EXCEPT !.out = Taken(@, tp.thr)]
    /\ LET t == Ttstart([tp EXCEPT !.thr = None])
       IN  tp' = t /\ Interrupt(Wakes(t))
    /\ UNCHANGED <<sig, keys>>

\* The delay is over: called by the clock.
Ttrstrt ==
    /\ tp.timeout
    /\ tp' = Ttstart([tp EXCEPT !.timeout = FALSE])
    /\ UNCHANGED <<log, pc, wchan, sig, locals, start, keys, calls>>

-----------------------------------------------------------------------------
Init ==
    /\ start \in Starts
    /\ tp = [rawq |-> <<>>, canq |-> <<>>, outq |-> <<>>, delct |-> 0, raw |-> FALSE,
             echo |-> start.echo, delay |-> start.delay, timeout |-> FALSE, thr |-> None]
    /\ log = [typing |-> <<>>, due |-> <<>>, out |-> <<>>]
    /\ pc = [p \in Proc |-> "user"] /\ wchan = [p \in Proc |-> None]
    /\ sig = [p \in Proc |-> FALSE]
    /\ line = [p \in Proc |-> <<>>] /\ text = [p \in Proc |-> <<>>]
    /\ expn = [p \in Proc |-> <<>>] /\ count = [p \in Proc |-> 0]
    /\ keys = 0 /\ calls = 0

Kernel(p) ==
    \/ CanonWait(p) \/ CanonGet(p) \/ CanonDec(p) \/ CanonPut(p)
    \/ TtreadTest(p) \/ TtreadPass(p)
    \/ TtwriteWait(p) \/ TtyoutputPut(p) \/ TtwriteEnd(p)
    \/ WflushttyWait(p) \/ Interrupted(p)
    \/ \E raw \in BOOLEAN : Ttystty(p, raw)

Call(p) ==
    \/ \E n \in Counts : Ttread(p, n)
    \/ \E w \in Texts : Ttwrite(p, w)
    \/ \E c \in {"stty", "close"} : Wflushtty(p, c)

Next ==
    \/ \E p \in Proc : Kernel(p) \/ Call(p)
    \/ \E c \in Key : TtyinputHog(c) \/ Ttyinput(c)
    \/ TtyinputIntr \/ Klxint \/ Ttrstrt

Spec == Init /\ [][Next]_vars

\* A process in the kernel goes on, swtch runs whoever was woken, characters
\* are sent and delays end.
FairSpec ==
    /\ Spec /\ WF_vars(Klxint) /\ WF_vars(Ttrstrt)
    /\ \A p \in Proc : SF_vars(Kernel(p))

-----------------------------------------------------------------------------
\* Every variable has its type.
TypeOK ==
    /\ tp.rawq \in Seq(Key \cup {Delim}) /\ Len(tp.rawq) <= TTYHOG + 1
    /\ tp.canq \in Seq(Key) /\ tp.outq \in Seq(Key \cup {Delay, "cr"})
    /\ tp.delct \in Nat /\ tp.raw \in BOOLEAN /\ tp.timeout \in BOOLEAN
    /\ wchan \in [Proc -> {None, "rawq", "outq"}] /\ sig \in [Proc -> BOOLEAN]
    /\ count \in [Proc -> Nat]

\* t_delct is the number of delimiters in the raw queue (tty.h:33), but for the
\* moment between canon's taking one and counting it.
DelctCounts ==
    tp.delct = Len(Only(tp.rawq, {Delim}))
               + Cardinality({p \in Proc : pc[p] = "dec"})

\* What is read is what was typed, edited line by line, and an end of file is
\* read only where one was typed (tty.c:199-254, 495-503).
ReadsWhatWasTyped == log.due # <<>> => Head(log.due) # Wrong

\* What was put out and has not been sent is being sent or queued: nothing is
\* lost, doubled or out of order between top half, echo and transmit interrupt
\* (tty.c:449-487).
OutputInOrder ==
    log.out = (IF tp.thr = None THEN <<>> ELSE <<tp.thr>>) \o Sendable(tp.outq)

\* Nobody sleeps for what has happened: a reader while there is a line, a writer
\* while no transmit interrupt will come, which is what wakes him
\* (tty.c:213-217, 520-524, kl.c:82).
NoLostWakeup ==
    \A p \in Proc :
        /\ wchan[p] = "rawq" => tp.delct = 0
        /\ wchan[p] = "outq" => \/ tp.thr # None
                                \/ tp.timeout /\ Sendable(tp.outq) # <<>>

\* The queues: their length is bounded, t_delct counts the delimiters, and nobody
\* sleeps for what is in them already (canon, ttyinput, ttwrite, klxint).
QueuesKept == TypeOK /\ DelctCounts /\ NoLostWakeup

\* Every write, stty and close ends, and every read when there is a line.
CallsEnd ==
    \A p \in Proc :
        /\ pc[p] # "user" /\ wchan[p] # "rawq" ~> pc[p] = "user" \/ wchan[p] = "rawq"
        /\ wchan[p] = "rawq" /\ tp.delct > 0 ~> wchan[p] # "rawq"
=============================================================================
