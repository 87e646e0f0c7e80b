---------------------------------- MODULE Sh --------------------------------
(***************************************************************************)
(* The shell usr/sh.c: main reads a line, a child parses it and runcmd     *)
(* walks the tree, with fork, pipe, dup, close and wait; other processes   *)
(* are the programs it starts.  A process is a record with its place in    *)
(* the code (st), the tree it runs and its descriptors; the system calls   *)
(* are what the kernel makes of them.                                      *)
(***************************************************************************)
EXTENDS ShParse, FiniteSets, FiniteSetsExt, TLC

CONSTANTS
    NPROC,      \* slots of the process table; slot 1 is the shell
    NOBJ,       \* open files and pipes
    PIPSIZ,     \* what a pipe can hold
    Starts,     \* to start from: lines (to type), max (how many of them), slots
                \* (of the process table that are not taken by others), prog (what
                \* a program does, by its name), files
    OutLimit    \* what the terminal is given at most

ASSUME ShAssumption == NPROC \in Nat \ {0} /\ NOBJ \in Nat \ {0} /\ PIPSIZ \in Nat \ {0} /\ OutLimit \in Nat

VARIABLES
    procs,      \* by slot: st, cmd, fds, parent, held (what a program has read)
    obj,        \* open files (f, off and the f_flag of their mode) and pipes (buf)
    files,      \* by name: the contents
    tty,        \* what has been written to the terminal
    line,       \* the line that runs (toks), what parsecmd makes of it (tree), and
                \* history: files, tty and whether the shell was alone (quiet) before it
    failed,     \* history: a fork has failed in this line
    start, n

vars == <<procs, obj, files, tty, line, failed, start, n>>

Slots == 1 .. NPROC
FD == 0 .. 4
Tty == [k |-> "tty"]
None == [k |-> "none"]
Nil == [type |-> "NIL"]
NoFds == [d \in FD |-> None]
Free == [st |-> "free", cmd |-> Nil, fds |-> NoFds, parent |-> 0, held |-> <<>>]
NoObj == [f |-> "", off |-> 0, flag |-> 0, buf |-> <<>>]
FREAD == 1
FWRITE == 2

-----------------------------------------------------------------------------
\* System calls, on the table of processes P.
Holds(P, x) == \E q \in Slots, d \in FD : P[q].fds[d] = x
PipeEnd(i, e) == [k |-> "pipe", id |-> i, e |-> e]
File(i) == [k |-> "file", id |-> i]

\* An open file or a pipe goes with its last descriptor.
Clean(P, o) ==
    [i \in DOMAIN o |-> IF \E x \in {PipeEnd(i, "r"), PipeEnd(i, "w"), File(i)} : Holds(P, x)
                        THEN o[i] ELSE NoObj]
NewObj == CHOOSE i \in 1 .. NOBJ : \A x \in {PipeEnd(i, "r"), PipeEnd(i, "w"), File(i)} : ~Holds(procs, x)

Close(fds, d) == [fds EXCEPT ![d] = None]

\* dup, open and pipe give the lowest descriptor that is free.
Dup(fds, x) == [fds EXCEPT ![Min({d \in FD : fds[d] = None})] = x]

Slot == {q \in 2 .. start.slots : procs[q].st = "free"}

\* fork: the child, in the lowest slot, is at st with tree c.
Forked(q, st, c) ==
    [procs EXCEPT ![Min(Slot)] = [procs[q] EXCEPT !.st = st, !.cmd = c, !.parent = q]]

\* exit: the descriptors are closed, the children go to init, which waits.
Exited(P, q) ==
    [r \in Slots |->
       IF r = q THEN IF P[q].parent = 0 THEN Free ELSE [Free EXCEPT !.st = "zombie", !.parent = P[q].parent]
       ELSE IF P[r].parent # q THEN P[r]
       ELSE IF P[r].st = "zombie" THEN Free ELSE [P[r] EXCEPT !.parent = 0]]

\* wait, to go on at st: a child that has ended, or none there is.
Waited(q, st) ==
    LET C == {r \in Slots : procs[r].parent = q /\ procs[r].st # "free"}
        Z == {r \in C : procs[r].st = "zombie"}
    IN  IF C = {} THEN {[procs EXCEPT ![q].st = st]}
        ELSE {[procs EXCEPT ![r] = Free, ![q].st = st] : r \in Z}

Become(P) == procs' = P /\ obj' = Clean(P, obj)

\* open adds one to the mode it is given: f_flag of a file that is opened for
\* mode m of REDIR, FREAD for "<" and FWRITE for "+"; creat has FWRITE itself.
OpenFlag(m) == CASE m = "<" -> FREAD + 1 [] m = "+" -> FWRITE + 1 [] m = ">" -> FWRITE

\* fork1, with what the parent does next.  Without a slot fork returns -EAGAIN;
\* fork1 looks for -1, and its caller goes on as the parent of no child.
Fork1(q, st, c, P) ==
    LET F == IF Slot = {} THEN procs ELSE Forked(q, st, c)
    IN  Become([F EXCEPT ![q] = P]) /\ failed' = (failed \/ Slot = {})

-----------------------------------------------------------------------------
\* No process but the shell.
Quiet == \A q \in 2 .. NPROC : procs[q].st = "free"

\* main: a line is read; exit ends the shell.
GetCmd ==
    /\ procs[1].st = "prompt" /\ n < start.max /\ n' = n + 1
    /\ \E t \in start.lines :
         /\ line' = [toks |-> t, tree |-> ParseCmd(t), files |-> files, tty |-> tty, quiet |-> Quiet]
         /\ Become(IF t = <<"exit">> THEN Exited(procs, 1) ELSE [procs EXCEPT ![1].st = "main"])
    /\ failed' = FALSE /\ UNCHANGED <<files, tty, start>>

MainFork ==
    /\ procs[1].st = "main"
    /\ Fork1(1, "parse", Nil, [procs[1] EXCEPT !.st = "mainwait"])
    /\ UNCHANGED <<files, tty, line, start, n>>

MainWait ==
    /\ procs[1].st = "mainwait"
    /\ \E P \in Waited(1, "prompt") : Become(P)
    /\ UNCHANGED <<files, tty, line, failed, start, n>>

\* The child: parsecmd, and runcmd.
Parse(q) ==
    /\ procs[q].st = "parse"
    /\ Become(IF line.tree.ok THEN [procs EXCEPT ![q].st = "run", ![q].cmd = line.tree.cmd]
              ELSE Exited(procs, q))
    /\ UNCHANGED <<files, tty, line, failed, start, n>>

Runs(q, type) == procs[q].st = "run" /\ procs[q].cmd.type = type

\* EXEC: nothing, a program, or one that is not there.
Exec(q) ==
    /\ Runs(q, "EXEC")
    /\ LET argv == procs[q].cmd.argv
       IN  Become(IF argv = <<>> THEN Exited(procs, q)
                  ELSE IF Head(argv) \notin DOMAIN start.prog THEN Exited(procs, q)
                  ELSE [procs EXCEPT ![q].st = "prog", ![q].cmd = [type |-> start.prog[Head(argv)], name |-> Head(argv)]])
    /\ UNCHANGED <<files, tty, line, failed, start, n>>

\* REDIR: the descriptor is closed, and the file opened in its place.
Redir(q) ==
    /\ Runs(q, "REDIR")
    /\ LET c == procs[q].cmd
           there == c.file \in DOMAIN files
           fds == Dup(Close(procs[q].fds, c.fd), File(NewObj))
           P == [procs EXCEPT ![q].fds = fds, ![q].cmd = c.cmd]
           off == IF c.mode = "+" THEN Len(files[c.file]) ELSE 0
       IN  IF c.mode # ">" /\ ~there
           THEN Become(Exited(procs, q)) /\ UNCHANGED files
           ELSE /\ procs' = P
                /\ obj' = Clean(P, [obj EXCEPT ![NewObj] = [NoObj EXCEPT !.f = c.file, !.off = off,
                                                                         !.flag = OpenFlag(c.mode)]])
                /\ files' = IF c.mode = ">" THEN (c.file :> <<>>) @@ files ELSE files
    /\ UNCHANGED <<tty, line, failed, start, n>>

\* LIST: the left in a child, then the right.
List(q) ==
    /\ Runs(q, "LIST")
    /\ Fork1(q, "run", procs[q].cmd.left, [procs[q] EXCEPT !.st = "list"])
    /\ UNCHANGED <<files, tty, line, start, n>>

\* Mutant: the right does not wait for the left.
ListNoWait(q) ==
    /\ procs[q].st = "list"
    /\ Become([procs EXCEPT ![q].st = "run", ![q].cmd = procs[q].cmd.right])
    /\ UNCHANGED <<files, tty, line, failed, start, n>>

ListWait(q) ==
    /\ procs[q].st = "list"
    /\ \E P \in Waited(q, "run") : Become([P EXCEPT ![q].cmd = procs[q].cmd.right])
    /\ UNCHANGED <<files, tty, line, failed, start, n>>

\* PIPE: the pipe and the left child, the right child, and the two waits.  The
\* process goes on to the right child if the left could not be forked.
Pipe(q) ==
    /\ Runs(q, "PIPE")
    /\ LET i == NewObj
           fds == Dup(Dup(procs[q].fds, PipeEnd(i, "r")), PipeEnd(i, "w"))
           parent == [procs[q] EXCEPT !.st = "pipe2", !.fds = fds]
           left == [parent EXCEPT !.st = "left", !.parent = q, !.cmd = @.left]
       IN  /\ procs' = [p \in Slots |-> IF p = q THEN parent
                                        ELSE IF Slot # {} /\ p = Min(Slot) THEN left ELSE procs[p]]
           /\ failed' = (failed \/ Slot = {})
    /\ UNCHANGED <<obj, files, tty, line, start, n>>

Pipe2(q) ==
    /\ procs[q].st = "pipe2"
    /\ Fork1(q, "right", procs[q].cmd.right, [procs[q] EXCEPT !.st = "close"])
    /\ UNCHANGED <<files, tty, line, start, n>>

\* The descriptors of the pipe: the last two.
P0(fds) == Min({d \in FD : \E i \in 1 .. NOBJ : d > 2 /\ fds[d] = PipeEnd(i, "r")})
P1(fds) == Min({d \in FD : \E i \in 1 .. NOBJ : d > 2 /\ fds[d] = PipeEnd(i, "w")})
CloseBoth(fds) == Close(Close(fds, P0(fds)), P1(fds))

\* Mutant: the right child keeps the end it does not use.
RightEndKept(fds) == Close(Dup(Close(fds, 0), fds[P0(fds)]), P0(fds))

LeftEnd(fds) == CloseBoth(Dup(Close(fds, 1), fds[P1(fds)]))
RightEnd(fds) == CloseBoth(Dup(Close(fds, 0), fds[P0(fds)]))

PipeChild(q) ==
    /\ procs[q].st \in {"left", "right"}
    /\ Become([procs EXCEPT ![q].st = "run",
                            ![q].fds = IF procs[q].st = "left" THEN LeftEnd(@) ELSE RightEnd(@)])
    /\ UNCHANGED <<files, tty, line, failed, start, n>>

\* Mutant: the parent keeps the pipe open.
PipeKept(q) ==
    /\ procs[q].st = "close"
    /\ Become([procs EXCEPT ![q].st = "wait2"])
    /\ UNCHANGED <<files, tty, line, failed, start, n>>

PipeClose(q) ==
    /\ procs[q].st = "close"
    /\ Become([procs EXCEPT ![q].st = "wait2", ![q].fds = CloseBoth(@)])
    /\ UNCHANGED <<files, tty, line, failed, start, n>>

PipeWait(q) ==
    /\ \/ procs[q].st = "wait2" /\ \E P \in Waited(q, "wait1") : Become(P)
       \/ procs[q].st = "wait1" /\ \E P \in Waited(q, "exit") : Become(P)
    /\ UNCHANGED <<files, tty, line, failed, start, n>>

\* BACK: a child that nobody waits for.
Back(q) ==
    /\ Runs(q, "BACK")
    /\ Fork1(q, "run", procs[q].cmd.cmd, [procs[q] EXCEPT !.st = "exit"])
    /\ UNCHANGED <<files, tty, line, start, n>>

Exit(q) ==
    /\ procs[q].st = "exit" /\ Become(Exited(procs, q))
    /\ UNCHANGED <<files, tty, line, failed, start, n>>

-----------------------------------------------------------------------------
\* Programs: say writes its name, yes does so for ever, copy copies all it
\* reads, head one item, and true does nothing.
PutAt(s, off, x) == IF off < Len(s) THEN [s EXCEPT ![off + 1] = x] ELSE Append(s, x)

\* write of item x: a pipe without a reader ends the program.  Every f_flag that
\* OpenFlag gives has FWRITE.
Write(q, x, P) ==
    LET t == procs[q].fds[1]
    IN  CASE t.k = "tty" ->
               /\ tty' = IF Len(tty) < OutLimit THEN Append(tty, x) ELSE tty
               /\ Become(P) /\ UNCHANGED files
          [] t.k = "file" ->
               /\ files' = [files EXCEPT ![obj[t.id].f] = PutAt(@, obj[t.id].off, x)]
               /\ procs' = P /\ obj' = Clean(P, [obj EXCEPT ![t.id].off = @ + 1]) /\ UNCHANGED tty
          [] t.k = "pipe" ->
               /\ IF ~Holds(procs, PipeEnd(t.id, "r")) THEN Become(Exited(procs, q))
                  ELSE /\ Len(obj[t.id].buf) < PIPSIZ /\ procs' = P
                       /\ obj' = Clean(P, [obj EXCEPT ![t.id].buf = Append(@, x)])
               /\ UNCHANGED <<files, tty>>

\* read of a file: rdwr fails when f_flag has no FREAD, which ends a program's
\* input as the end of the file does.
ReadFile(o) ==
    IF o.flag \notin {FREAD, FREAD + FWRITE} THEN <<>>
    ELSE SubSeq(files[o.f], o.off + 1, Min({o.off + 1, Len(files[o.f])}))

\* read: what comes next, as a set; {<<>>} is the end, {} to wait.
Read(q) ==
    LET t == procs[q].fds[0]
        o == obj[t.id]
    IN  CASE t.k = "tty" -> {<<>>}
          [] t.k = "file" -> {ReadFile(o)}
          [] t.k = "pipe" -> IF o.buf # <<>> THEN {<<Head(o.buf)>>}
                             ELSE IF Holds(procs, PipeEnd(t.id, "w")) THEN {} ELSE {<<>>}

Taken(q) ==
    LET t == procs[q].fds[0]
    IN  IF t.k = "file" THEN [obj EXCEPT ![t.id].off = @ + 1] ELSE [obj EXCEPT ![t.id].buf = Tail(@)]

ProgRead(q) ==
    /\ procs[q].st = "prog" /\ procs[q].cmd.type \in {"copy", "head"} /\ procs[q].held = <<>>
    /\ \E x \in Read(q) :
         IF x = <<>> THEN Become([procs EXCEPT ![q].st = "exit"])
         ELSE procs' = [procs EXCEPT ![q].held = x] /\ obj' = Taken(q)
    /\ UNCHANGED <<files, tty, line, failed, start, n>>

ProgWrite(q) ==
    /\ procs[q].st = "prog"
    /\ LET c == procs[q].cmd
           next == [procs EXCEPT ![q].st = IF c.type \in {"yes", "copy"} THEN "prog" ELSE "exit", ![q].held = <<>>]
       IN  \/ c.type \in {"say", "yes"} /\ Write(q, c.name, next)
           \/ c.type \in {"copy", "head"} /\ procs[q].held # <<>> /\ Write(q, procs[q].held[1], next)
           \/ c.type = "true" /\ Become([procs EXCEPT ![q].st = "exit"]) /\ UNCHANGED <<files, tty>>
    /\ UNCHANGED <<line, failed, start, n>>

-----------------------------------------------------------------------------
Init ==
    /\ start \in Starts
    /\ procs = [q \in Slots |-> IF q = 1 THEN [Free EXCEPT !.st = "prompt", !.fds = [d \in FD |-> IF d <= 2 THEN Tty ELSE None]]
                                ELSE Free]
    /\ obj = [i \in 1 .. NOBJ |-> NoObj]
    /\ files = start.files /\ tty = <<>> /\ failed = FALSE /\ n = 0
    /\ line = [toks |-> <<>>, tree |-> Panic, files |-> start.files, tty |-> <<>>, quiet |-> FALSE]

Step(q) ==
    \/ Parse(q) \/ Exec(q) \/ Redir(q) \/ List(q) \/ ListWait(q) \/ Pipe(q) \/ Pipe2(q) \/ PipeChild(q)
    \/ PipeClose(q) \/ PipeWait(q) \/ Back(q) \/ Exit(q) \/ ProgRead(q) \/ ProgWrite(q)

Main == MainFork \/ MainWait

Next == GetCmd \/ Main \/ \E q \in 2 .. NPROC : Step(q)

Spec == Init /\ [][Next]_vars

\* Can q take a step?  It waits in wait for a child to end, in read for an
\* item or the end of the pipe, and in write for room.
Can(q) ==
    LET p == procs[q]
        waits == {r \in Slots : procs[r].parent = q /\ procs[r].st # "free"}
        t == p.fds[1]
    IN  CASE p.st \in {"free", "zombie"} -> FALSE
          [] p.st \in {"list", "wait2", "wait1", "mainwait"} ->
               waits = {} \/ \E r \in waits : procs[r].st = "zombie"
          [] p.st = "prog" ->
               IF p.cmd.type \in {"copy", "head"} /\ p.held = <<>> THEN Read(q) # {}
               ELSE p.cmd.type = "true" \/ t.k # "pipe" \/ ~Holds(procs, PipeEnd(t.id, "r")) \/ Len(obj[t.id].buf) < PIPSIZ
          [] OTHER -> p.st # "prompt"

\* Every process that can go on does, in its turn: weak fairness of Main and of
\* every Step(q).  Can(q) is ENABLED of these steps, which is slow to evaluate.
FairSpec ==
    /\ Spec
    /\ []<>~Can(1) \/ []<><<Main>>_vars
    /\ \A q \in 2 .. NPROC : []<>~Can(q) \/ []<><<Step(q)>>_vars

-----------------------------------------------------------------------------
\* Processes and descriptors are what the actions above take them for.
TypeOK ==
    /\ \A q \in Slots : /\ procs[q].st \in {"free", "zombie", "prompt", "main", "mainwait", "parse", "run", "list", "pipe2",
                                           "left", "right", "close", "wait2", "wait1", "exit", "prog"}
                        /\ procs[q].parent \in 0 .. NPROC /\ (procs[q].parent # 0 => procs[procs[q].parent].st \notin {"free", "zombie"})
    /\ n \in 0 .. start.max /\ failed \in BOOLEAN

\* A program starts with descriptors 0, 1 and 2, and no other: every end of
\* every pipe that runcmd has made on the way is closed, in the process and in
\* its ancestors' copies of it.
NoStrayDescriptor ==
    \A q \in Slots : procs[q].st = "prog" => {d \in FD : procs[q].fds[d] # None} = {0, 1, 2}

\* A program has its three descriptors and a parent who is there to wait for it
\* (runcmd, main).
ProcessesKept == TypeOK /\ NoStrayDescriptor

\* The parser takes the lines of its grammar and no others, and keeps every
\* word of a line, in its order but for those behind a redirection.
ParseIsGrammar ==
    LET t == line.toks
        r == line.tree
        words == SelectSeq(t, LAMBDA x : x \notin Symbols)
    IN  procs[1].st = "main" =>
        /\ r.ok <=> InLine(t)
        /\ r.ok => IF \E i \in DOMAIN t : t[i] \in {"<", ">", "+"}
                   THEN ToSet(WordsOf(r.cmd)) = ToSet(words) /\ Len(WordsOf(r.cmd)) = Len(words)
                   ELSE WordsOf(r.cmd) = words

\* What a line means, for the programs in it taken one by one: w has the files,
\* the terminal, what there is to read, where the output goes, and what has gone
\* into the pipe.  Of a yes the first item is what a head behind it takes.
Emit(w, x) ==
    CASE w.out = <<"tty">> -> [w EXCEPT !.tty = @ \o x]
      [] w.out = <<"pipe">> -> [w EXCEPT !.pout = @ \o x]
      [] OTHER -> [w EXCEPT !.files[w.out[2]] = @ \o x]

Ran(argv, w) ==
    LET does == IF argv # <<>> /\ Head(argv) \in DOMAIN start.prog THEN start.prog[Head(argv)] ELSE ""
    IN  CASE does \in {"say", "yes"} -> Emit(w, <<Head(argv)>>)
          [] does = "copy" -> Emit([w EXCEPT !.in = <<>>], w.in)
          [] does = "head" /\ w.in # <<>> -> Emit([w EXCEPT !.in = Tail(@)], <<Head(w.in)>>)
          [] OTHER -> w

\* What the line may come to, as a set: with F, each part for which a process is
\* forked may be left out, for lack of one.
RECURSIVE Meant(_, _, _)
Meant(c, w, F) ==
    LET Forks(p, v) == Meant(p, v, F) \cup (IF F THEN {v} ELSE {})
    IN  CASE c.type = "EXEC" -> {Ran(c.argv, w)}
          [] c.type = "REDIR" ->
               IF c.mode # ">" /\ c.file \notin DOMAIN w.files THEN {w}
               ELSE IF c.mode = "<"
               THEN {[v EXCEPT !.in = w.in] : v \in Meant(c.cmd, [w EXCEPT !.in = w.files[c.file]], F)}
               ELSE LET o == [w EXCEPT !.out = <<"file", c.file>>,
                                       !.files = IF c.mode = ">" THEN (c.file :> <<>>) @@ @ ELSE @]
                    IN  {[v EXCEPT !.out = w.out] : v \in Meant(c.cmd, o, F)}
          [] c.type = "LIST" -> UNION {Meant(c.right, l, F) : l \in Forks(c.left, w)}
          [] c.type = "PIPE" ->
               UNION { {[v EXCEPT !.in = l.in] :
                          v \in Forks(c.right, [l EXCEPT !.in = l.pout, !.out = w.out, !.pout = w.pout])} :
                       l \in Forks(c.left, [w EXCEPT !.out = <<"pipe">>, !.pout = <<>>]) }
          [] OTHER -> {w}

\* Back at the prompt after a line with nothing in the background, nothing of
\* it runs any more, also when a fork failed on the way.  The files and the
\* terminal are what the line means: the right of a list began after all of the
\* left had ended, every pipe led from its left to its right, and every file was
\* open as the output it was for.  If a fork failed they are what the line means
\* without a part, or parts, for which there was no process (runcmd).
LineDone ==
    LET r == line.tree
        w == [files |-> line.files, tty |-> line.tty, in |-> <<>>, out |-> <<"tty">>, pout |-> <<>>]
        M == (IF r.ok THEN Meant(r.cmd, w, failed) ELSE {w}) \cup (IF failed THEN {w} ELSE {})
    IN  procs[1].st = "prompt" /\ line.quiet /\ "&" \notin ToSet(line.toks) =>
          Quiet /\ \E m \in M : files = m.files /\ tty = m.tty

\* The shell comes back from its wait: the readers of a pipe find its end when its
\* writers are gone, and the writers are ended when its readers are, as nobody else
\* has it open.  Also when a fork fails and the process goes on, with its end of
\* the pipe and its two waits, as the parent of one child or of none.
PromptReturns == procs[1].st = "mainwait" ~> procs[1].st # "mainwait"
=============================================================================
