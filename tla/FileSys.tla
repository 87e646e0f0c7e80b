------------------------------ MODULE FileSys -------------------------------
(***************************************************************************)
(* In-core inodes and the names of files: iget, iput, iupdat, maknode and  *)
(* wdir (ken/iget.c), ialloc, ifree and update (ken/alloc.c), namei        *)
(* (ken/nami.c), and the calls creat, open, close, chmod, link, unlink,    *)
(* exit and sync that use them (ken/sys1.c, sys2.c, sys4.c, fio.c).        *)
(*                                                                         *)
(* One device with one directory.  The kernel is not preempted, so a step  *)
(* is the code between two places where the process may sleep: a locked    *)
(* inode, s_ilock, and the block reads and writes of the inode list, of    *)
(* the directory and of itrunc.  Because much code runs in one step, the   *)
(* operators below map a state record to the next one; the actions at the  *)
(* end apply them.                                                         *)
(***************************************************************************)
EXTENDS Integers, Sequences, FiniteSets, FiniteSetsExt

CONSTANTS
    Proc,       \* processes
    Starts,     \* to start from: ops, the system calls that each process
                \* makes, and cache, the contents of s_inode
    Name,       \* names a call may give
    NIno,       \* i-numbers: 1 .. NIno; 1 is the directory
    PerBlock,   \* i-nodes in a block of the inode list (16)
    NINODE,     \* slots of the in-core table
    NICINOD,    \* i-numbers the super-block has room for (100)
    MaxLink,    \* the limit of i_nlink and of a char (127)
    InitDir,    \* the directory at the start: a sequence of [ino, name]
    MaxCalls    \* bound: system calls made in all

Calls == {"creat", "open", "chmod", "link", "unlink", "pipe", "close",
          "sync", "exit"}
Ino == 1 .. NIno
Slot == 1 .. NINODE
BlockOf(i) == (i - 1) \div PerBlock
IBlock == BlockOf(0) .. BlockOf(NIno)
Root == 1       \* ROOTINO, and the slot it stays in (rootdir)
None == "none"

\* Channels: the slots, and &s_ilock.
Awake == 0
IlockChan == NINODE + 1

ASSUME FileSysAssumption ==
    /\ IsFiniteSet(Proc)
    /\ \A w \in Starts : /\ w.ops \in [Proc -> SUBSET Calls]
                        /\ \A k \in DOMAIN w.cache : w.cache[k] \in 2 .. NIno
    /\ NIno \in Nat \ {0} /\ PerBlock \in Nat \ {0} /\ NINODE \in Nat \ {0}
    /\ NICINOD \in Nat \ {0} /\ MaxLink \in Nat \ {0} /\ MaxCalls \in Nat
    /\ \A k \in DOMAIN InitDir : InitDir[k].ino \in 2 .. NIno

VARIABLES
    inode,      \* the in-core table
    disk,       \* the inode list, as the buffer cache shows it
    buf,        \* who holds the buffer of each block of the inode list
    dir,        \* the entries of the directory
    cache,      \* s_inode[0 .. s_ninode - 1]
    ilock,      \* s_ilock
    flock,      \* s_flock, the word behind s_inode; nobody sets it here
    updlock,
    proc,       \* the state of each process, in the kernel and in user mode
    ops,        \* the workload; it does not change
    gens,       \* files made so far: every file has a number of its own
    calls       \* system calls made so far

vars == <<inode, disk, buf, dir, cache, ilock, flock, updlock, proc, ops, gens,
          calls>>

\* What the inode list keeps of a file; gen tells files with one i-number apart.
Free == [mode |-> 0, nlink |-> 0, gen |-> 0]

NoFile == [slot |-> 0, ino |-> 0, gen |-> 0, refs |-> 0]

\* A process in user mode, with its open file and its reference to u_cdir.
Idle(file, cdir) ==
    [pc |-> "user", chan |-> Awake, call |-> "none", name |-> None,
     to |-> None, flag |-> 0, ip |-> 0, target |-> 0, off |-> 0, s |-> 0,
     ret |-> "user", blk |-> 0, k |-> 0, file |-> file, cdir |-> cdir]

State == [inode |-> inode, disk |-> disk, dir |-> dir, cache |-> cache,
          ilock |-> ilock, flock |-> flock, proc |-> proc, gens |-> gens]

-----------------------------------------------------------------------------
\* The step functions.  st is a state, p the running process, s a slot.

At(st, p, pc) == [st EXCEPT !.proc[p].pc = pc]

Wakeup(st, chan) ==
    [st EXCEPT !.proc = [q \in Proc |->
        IF st.proc[q].chan = chan THEN [st.proc[q] EXCEPT !.chan = Awake]
                                  ELSE st.proc[q]]]

Sleep(st, p, chan) == [st EXCEPT !.proc[p].chan = chan]

\* Mutant: those who want the inode are not woken.
PreleQuiet(st, s) ==
    [st EXCEPT !.inode[s].lock = FALSE, !.inode[s].want = FALSE]

\* prele: clears ILOCK, whoever set it, and wakes those who want the inode.
Prele(st, s) ==
    LET un == [st EXCEPT !.inode[s].lock = FALSE, !.inode[s].want = FALSE]
    IN  IF st.inode[s].want THEN Wakeup(un, s) ELSE un

\* The system call returns.
Return(st, p) == [st EXCEPT !.proc[p] = Idle(st.proc[p].file, st.proc[p].cdir)]

\* The end of iput.
IputEnd(st, s) == Prele([st EXCEPT !.inode[s].count = @ - 1], s)

\* The end of iput of what was the last reference: the slot is given up.
IputLast(st, s) ==
    IputEnd([Prele(st, s) EXCEPT !.inode[s].upd = FALSE, !.inode[s].number = 0], s)

\* What the caller of iput does next.
AfterIput(st, p) ==
    IF st.proc[p].ret = "user" THEN Return(st, p) ELSE At(st, p, st.proc[p].ret)

\* iupdat begins: it remembers the i-number it writes to.
IupdatStart(st, p, s) ==
    [st EXCEPT !.proc[p].pc = "updat", !.proc[p].s = s,
               !.proc[p].blk = st.inode[s].number]

\* Mutants: the slot is given up without a look at the other references; the
\* i-node is not written.
IputAny(st, p, s, ret) ==
    LET n == [st EXCEPT !.proc[p].s = s, !.proc[p].ret = ret]
        last == [n EXCEPT !.inode[s].lock = TRUE]
    IN  IF s = Root THEN AfterIput(IputEnd(n, s), p)
        ELSE IF st.inode[s].nlink <= 0 THEN At(last, p, "itrunc")
        ELSE IF st.inode[s].upd THEN IupdatStart(last, p, s)
        ELSE AfterIput(IputLast(last, s), p)

IputUnwritten(st, p, s, ret) ==
    LET n == [st EXCEPT !.proc[p].s = s, !.proc[p].ret = ret]
        last == [n EXCEPT !.inode[s].lock = TRUE]
    IN  IF st.inode[s].count # 1 THEN AfterIput(IputEnd(n, s), p)
        ELSE IF st.inode[s].nlink <= 0 THEN At(last, p, "itrunc")
        ELSE AfterIput(IputLast(last, s), p)

\* iput, up to where it may sleep; afterwards the process goes on at ret.
Iput(st, p, s, ret) ==
    LET n == [st EXCEPT !.proc[p].s = s, !.proc[p].ret = ret]
        last == [n EXCEPT !.inode[s].lock = TRUE]
    IN  IF st.inode[s].count # 1 THEN AfterIput(IputEnd(n, s), p)
        ELSE IF st.inode[s].nlink <= 0 THEN At(last, p, "itrunc")
        ELSE IF st.inode[s].upd THEN IupdatStart(last, p, s)
        ELSE AfterIput(IputLast(last, s), p)

\* getfs: counts out of range are set to zero.
Getfs(st) == IF Len(st.cache) > NICINOD THEN [st EXCEPT !.cache = <<>>] ELSE st

\* ifree: the i-number is thrown away while the list is searched or is full.
Ifree(st, i) ==
    LET n == Getfs(st)
    IN  IF n.ilock # 0 \/ Len(n.cache) >= NICINOD THEN n
        ELSE [n EXCEPT !.cache = Append(@, i)]

-----------------------------------------------------------------------------
\* iget of the directory: it is always in core.  The search that follows
\* reads a block, so it is another step.
IgetRoot(st, p, flag) ==
    LET n == [st EXCEPT !.proc[p].flag = flag]
    IN  IF st.inode[Root].lock
        THEN Sleep(At([n EXCEPT !.inode[Root].want = TRUE], p, "igetroot"), p, Root)
        ELSE At([n EXCEPT !.inode[Root].lock = TRUE, !.inode[Root].count = @ + 1],
                p, "search")

\* Mutant: the open file stays locked.
Open1Locked(st, p, s) ==
    Return([st EXCEPT !.proc[p].file =
            [slot |-> s, ino |-> st.inode[s].number, gen |-> st.inode[s].gen,
             refs |-> 1]], p)

\* open1 after access: the file is unlocked and opened.
Open1(st, p, s) ==
    LET un == Prele(st, s)
    IN  Return([un EXCEPT !.proc[p].file =
            [slot |-> s, ino |-> un.inode[s].number, gen |-> un.inode[s].gen,
             refs |-> 1]], p)

\* pipe after ialloc: i_flag is assigned, which drops ILOCK and IWANT.
MakePipe(st, p, s) ==
    Return([st EXCEPT
        !.inode[s].mode = 1, !.inode[s].nlink = 0, !.inode[s].gen = st.gens + 1,
        !.inode[s].count = 2, !.inode[s].upd = TRUE,
        !.inode[s].lock = FALSE, !.inode[s].want = FALSE, !.gens = @ + 1,
        !.proc[p].file = [slot |-> s, ino |-> st.inode[s].number,
                          gen |-> st.gens + 1, refs |-> 2]], p)

\* writei of a directory entry, up to the read of the block.
WriteDir(st) == [st EXCEPT !.inode[Root].upd = TRUE]

\* maknode: ialloc has found a free i-node; wdir is about to write.
Maknode(st, p, s) ==
    At([WriteDir(st) EXCEPT
            !.inode[s].mode = 1, !.inode[s].nlink = 1, !.inode[s].upd = TRUE,
            !.inode[s].gen = st.gens + 1, !.gens = @ + 1,
            !.proc[p].ip = s, !.proc[p].blk = st.inode[s].number], p, "wdir")

\* iget has returned the locked inode s: the caller goes on.
Got(st, p, s) ==
    LET c == st.proc[p].call
        g == st.inode[s]
    IN  IF st.proc[p].ret = "ialloc"
        THEN CASE g.mode # 0 -> Iput(st, p, s, "ialloc")
               [] g.mode = 0 /\ c = "pipe" -> MakePipe(st, p, s)
               [] g.mode = 0 /\ c = "creat" -> Maknode(st, p, s)
        ELSE CASE c \in {"open", "creat"} /\ g.mode = 0 -> Iput(st, p, s, "user")
               [] c = "open" /\ g.mode # 0 -> Open1(st, p, s)
               [] c = "creat" /\ g.mode # 0 ->
                    At([st EXCEPT !.proc[p].ip = s], p, "trunc")
               [] c = "chmod" ->
                    Iput([st EXCEPT !.inode[s].upd = TRUE], p, s, "user")
               [] c = "link" /\ st.proc[p].flag = 0 ->
                    IF g.nlink >= MaxLink THEN Iput(st, p, s, "user")
                    ELSE IgetRoot([st EXCEPT !.inode[s].lock = FALSE,
                                             !.proc[p].ip = s,
                                             !.proc[p].name = st.proc[p].to], p, 1)
               [] c = "link" /\ st.proc[p].flag = 1 -> Iput(st, p, s, "linkout")
               [] c = "unlink" -> At([WriteDir(st) EXCEPT !.proc[p].ip = s], p, "unwrite")

\* iget returns NULL (the table is full).  ialloc and maknode then return NULL
\* as well, and so does creat: u_pdir stays as it is.  unlink panics.
GotNone(st, p) ==
    CASE st.proc[p].call = "unlink" -> At(st, p, "panic")
      [] st.proc[p].call = "link" /\ st.proc[p].flag = 1 -> At(st, p, "linkout")
      [] OTHER -> Return(st, p)

\* iget of target: wait for a locked inode, take one that is in core, or read
\* it into the first slot without references.
IgetTry(st, p) ==
    LET i == st.proc[p].target
        here == {s \in Slot : st.inode[s].number = i}
        empty == {s \in Slot : st.inode[s].count = 0}
    IN  IF here # {}
        THEN LET s == Min(here)
             IN  IF st.inode[s].lock
                 THEN Sleep(At([st EXCEPT !.inode[s].want = TRUE], p, "iget"), p, s)
                 ELSE Got([st EXCEPT !.inode[s].lock = TRUE,
                                     !.inode[s].count = @ + 1], p, s)
        ELSE IF empty = {} THEN GotNone(st, p)
        ELSE LET s == Min(empty)
             IN  At([st EXCEPT !.inode[s] = [@ EXCEPT !.number = i, !.lock = TRUE,
                                !.want = FALSE, !.upd = FALSE, !.count = @ + 1],
                               !.proc[p].s = s], p, "iread")

Iget(st, p, i, ret) ==
    IgetTry([st EXCEPT !.proc[p].target = i, !.proc[p].ret = ret], p)

\* The loop of ialloc: an i-number from the super-block, or the search.
IallocLoop(st, p) ==
    IF st.cache # <<>>
    THEN Iget([st EXCEPT !.cache = SubSeq(@, 1, Len(@) - 1)], p,
              st.cache[Len(st.cache)], "ialloc")
    ELSE At([st EXCEPT !.ilock = @ + 1, !.proc[p].k = 0], p, "scan")

IallocStart(st, p) ==
    IF st.ilock # 0 THEN Sleep(At(st, p, "iallocwait"), p, IlockChan)
    ELSE IallocLoop(Getfs(st), p)

\* One block of the search: the free i-nodes that are not in core.  The limit
\* is tested after each one is stored.
ScanBlock(st, p) ==
    LET k == st.proc[p].k
        free == {i \in Ino : /\ BlockOf(i) = k /\ st.disk[i].mode = 0
                             /\ \A s \in Slot : st.inode[s].number # i}
        room == Max({1, NICINOD - Len(st.cache)})
        found == {i \in free : Cardinality({j \in free : j < i}) < room}
        sorted == [n \in 1 .. Cardinality(found) |->
                    CHOOSE i \in found : Cardinality({j \in found : j < i}) = n - 1]
        full == [st EXCEPT !.cache = @ \o sorted, !.proc[p].k = k + 1,
                           !.flock = @ \/ Len(st.cache \o sorted) > NICINOD]
    IN  IF k + 1 \in IBlock /\ Len(full.cache) < NICINOD THEN full
        ELSE LET end == Wakeup([full EXCEPT !.ilock = 0], IlockChan)
             IN  IF end.cache # <<>> THEN IallocLoop(end, p)
                 ELSE Return(end, p)

-----------------------------------------------------------------------------
\* namei's search for the name of the call in the directory.
Found(st, p) == {k \in DOMAIN st.dir :
                    st.dir[k].ino # 0 /\ st.dir[k].name = st.proc[p].name}
Empty(st) == {k \in DOMAIN st.dir : st.dir[k].ino = 0}

\* iput of a reference to the directory is never the last.
PutDir(st) == IputEnd(st, Root)

NameiEnd(st, p) ==
    LET f == st.proc[p].flag
        hit == Found(st, p)
        i == st.dir[Min(hit)].ino
        slot == IF Empty(st) # {} THEN Min(Empty(st)) ELSE Len(st.dir) + 1
        grown == IF Empty(st) # {} THEN st
                 ELSE [st EXCEPT !.inode[Root].upd = TRUE]
        at == [grown EXCEPT !.proc[p].off = slot]
        wdir == IF st.proc[p].call # "link" THEN at
                ELSE [WriteDir(at) EXCEPT !.proc[p].blk = st.inode[st.proc[p].ip].number]
    IN  CASE hit # {} /\ f \in {0, 1} -> Iget(PutDir(st), p, i, "got")
          [] hit # {} /\ f = 2 ->
                Iget(Prele([st EXCEPT !.proc[p].off = Min(hit)], Root), p, i, "got")
          [] hit = {} /\ f = 1 ->
                IF st.proc[p].call = "link" THEN At(wdir, p, "wdir")
                ELSE IallocStart(at, p)
          [] hit = {} /\ f \in {0, 2} -> Return(PutDir(st), p)

\* Mutant: link does not count the new name.
WdirEndUncounted(st, p) ==
    LET s == st.proc[p].ip
        e == [ino |-> st.proc[p].blk, gen |-> st.inode[s].gen,
              name |-> st.proc[p].name]
        k == st.proc[p].off
        put == PutDir([st EXCEPT !.dir = IF k > Len(@) THEN Append(@, e)
                                         ELSE [@ EXCEPT ![k] = e]])
    IN  IF st.proc[p].call = "creat" THEN Open1(put, p, s)
        ELSE Iput(put, p, s, "user")

\* i_nlink is a char: after MaxLink comes the smallest number.
Nlink(n) == IF n > MaxLink THEN n - 2 * (MaxLink + 1) ELSE n

\* The entry that wdir writes at the offset namei left.
WdirEnd(st, p) ==
    LET s == st.proc[p].ip
        e == [ino |-> st.proc[p].blk, gen |-> st.inode[s].gen,
              name |-> st.proc[p].name]
        k == st.proc[p].off
        put == PutDir([st EXCEPT !.dir = IF k > Len(@) THEN Append(@, e)
                                         ELSE [@ EXCEPT ![k] = e]])
    IN  IF st.proc[p].call = "creat" THEN Open1(put, p, s)
        ELSE Iput([put EXCEPT !.inode[s].nlink = Nlink(@ + 1),
                              !.inode[s].upd = TRUE], p, s, "user")

\* unlink clears the entry, takes the link away and puts both inodes.
UnwriteEnd(st, p) ==
    LET s == st.proc[p].ip
        k == st.proc[p].off
        cut == [st EXCEPT !.dir[k].ino = 0, !.dir[k].gen = 0,
                          !.inode[s].nlink = @ - 1, !.inode[s].upd = TRUE]
    IN  Iput(PutDir(cut), p, s, "user")

-----------------------------------------------------------------------------
\* update's loop from slot k on: the first unlocked inode with something to
\* write is locked; the others are locked and released at once.
SyncLoop(st, p, k) ==
    LET dirty == {s \in Slot : s >= k /\ ~st.inode[s].lock /\ st.inode[s].upd}
        next == IF dirty = {} THEN NINODE + 1 ELSE Min(dirty)
        passed == {s \in Slot : s >= k /\ s < next /\ ~st.inode[s].lock}
        clean == [st EXCEPT
            !.inode = [s \in Slot |-> IF s \in passed
                         THEN [st.inode[s] EXCEPT !.want = FALSE] ELSE st.inode[s]],
            !.proc = [q \in Proc |-> IF \E s \in passed :
                            st.proc[q].chan = s /\ st.inode[s].want
                         THEN [st.proc[q] EXCEPT !.chan = Awake] ELSE st.proc[q]]]
    IN  IF dirty = {} THEN Return(clean, p)
        ELSE [IupdatStart([clean EXCEPT !.inode[next].lock = TRUE], p, next)
                EXCEPT !.proc[p].k = next + 1, !.proc[p].ret = "sync"]

-----------------------------------------------------------------------------
\* The actions: a step of process p at pc, which is not asleep.

Becomes(st) ==
    /\ inode' = st.inode /\ disk' = st.disk /\ dir' = st.dir
    /\ cache' = st.cache /\ ilock' = st.ilock /\ flock' = st.flock
    /\ proc' = st.proc /\ gens' = st.gens

\* At these places a process goes on without having slept.
Continuing == {"ialloc", "linkout", "exit", "exitcdir"}

Runs(p, pc) ==
    /\ proc[p].pc = pc /\ proc[p].chan = Awake
    /\ \A q \in Proc \ {p} : proc[q].pc \notin Continuing

Others == UNCHANGED <<buf, updlock, ops, calls>>

\* A system call with a name begins: namei locks the directory.
Call(p, c, n, m, flag) ==
    /\ Runs(p, "user") /\ c \in ops[p] /\ calls < MaxCalls
    /\ c \in {"open", "creat"} => proc[p].file = NoFile
    /\ calls' = calls + 1
    /\ Becomes(IgetRoot([State EXCEPT !.proc[p].call = c, !.proc[p].name = n,
                                      !.proc[p].to = m], p, flag))
    /\ UNCHANGED <<buf, updlock, ops>>

Creat(p) == \E n \in Name : Call(p, "creat", n, None, 1)
Open(p) == \E n \in Name : Call(p, "open", n, None, 0)
Chmod(p) == \E n \in Name : Call(p, "chmod", n, None, 0)
Link(p) == \E n, m \in Name : Call(p, "link", n, m, 0)
Unlink(p) == \E n \in Name : Call(p, "unlink", n, None, 2)

Pipe(p) ==
    /\ Runs(p, "user") /\ "pipe" \in ops[p] /\ calls < MaxCalls
    /\ proc[p].file = NoFile
    /\ calls' = calls + 1
    /\ Becomes(IallocStart([State EXCEPT !.proc[p].call = "pipe"], p))
    /\ UNCHANGED <<buf, updlock, ops>>

\* A process without one reference of its open file.
Closed(p) ==
    [State EXCEPT !.proc[p].call = "close", !.proc[p].file =
        IF @.refs = 1 THEN NoFile ELSE [@ EXCEPT !.refs = @ - 1]]

\* close: a reference of the open file goes, without the inode's lock.
Close(p) ==
    /\ Runs(p, "user") /\ "close" \in ops[p] /\ proc[p].file # NoFile
    /\ Becomes(Iput(Closed(p), p, proc[p].file.slot, "user"))
    /\ Others

\* exit: the open files, then the current directory.
Exit(p) ==
    /\ Runs(p, "user") /\ "exit" \in ops[p]
    /\ Becomes(At(State, p, "exit"))
    /\ Others

ExitClose(p) ==
    /\ Runs(p, "exit")
    /\ IF proc[p].file = NoFile THEN Becomes(At(State, p, "exitcdir"))
       ELSE Becomes(Iput(Closed(p), p, proc[p].file.slot, "exit"))
    /\ Others

ExitCdir(p) ==
    /\ Runs(p, "exitcdir")
    /\ Becomes(PutDir([State EXCEPT
            !.proc[p] = [Idle(NoFile, FALSE) EXCEPT !.pc = "dead"]]))
    /\ Others

\* sync: only one process at a time goes through the table.
Sync(p) ==
    /\ Runs(p, "user") /\ "sync" \in ops[p] /\ ~updlock /\ calls < MaxCalls
    /\ calls' = calls + 1
    /\ LET st == SyncLoop([State EXCEPT !.proc[p].call = "sync"], p, 1)
       IN  Becomes(st) /\ updlock' = (st.proc[p].pc # "user")
    /\ UNCHANGED <<buf, ops>>

\* iget of the directory, again after a sleep.
NameiIget(p) == Runs(p, "igetroot") /\ Becomes(IgetRoot(State, p, proc[p].flag)) /\ Others

Namei(p) == Runs(p, "search") /\ Becomes(NameiEnd(State, p)) /\ Others

IgetAgain(p) == Runs(p, "iget") /\ Becomes(IgetTry(State, p)) /\ Others

\* The block with the i-node has been read.
Iread(p) ==
    /\ Runs(p, "iread") /\ buf[BlockOf(proc[p].target)] = None
    /\ LET s == proc[p].s
           i == disk[proc[p].target]
       IN  Becomes(Got([State EXCEPT !.inode[s].mode = i.mode,
                            !.inode[s].nlink = i.nlink, !.inode[s].gen = i.gen], p, s))
    /\ Others

IallocWait(p) == Runs(p, "iallocwait") /\ Becomes(IallocStart(State, p)) /\ Others

Ialloc(p) == Runs(p, "ialloc") /\ Becomes(IallocLoop(State, p)) /\ Others

Scan(p) ==
    /\ Runs(p, "scan") /\ buf[proc[p].k] = None
    /\ Becomes(ScanBlock(State, p))
    /\ Others

Trunc(p) ==
    /\ Runs(p, "trunc")
    /\ Becomes(Open1([State EXCEPT !.inode[proc[p].ip].upd = TRUE], p, proc[p].ip))
    /\ Others

Wdir(p) == Runs(p, "wdir") /\ Becomes(WdirEnd(State, p)) /\ Others

Unwrite(p) == Runs(p, "unwrite") /\ Becomes(UnwriteEnd(State, p)) /\ Others

LinkOut(p) == Runs(p, "linkout") /\ Becomes(Iput(State, p, proc[p].ip, "user")) /\ Others

\* iput of a file without links: its blocks are free.
Itrunc(p) ==
    /\ Runs(p, "itrunc")
    /\ LET s == proc[p].s
           cut == [State EXCEPT !.inode[s].mode = 0, !.inode[s].upd = TRUE]
       IN  Becomes(IupdatStart(Ifree(cut, inode[s].number), p, s))
    /\ Others

\* iupdat: the buffer, the copy, the end of the write.
IupdatRead(p) ==
    /\ Runs(p, "updat") /\ buf[BlockOf(proc[p].blk)] = None
    /\ buf' = [buf EXCEPT ![BlockOf(proc[p].blk)] = p]
    /\ Becomes(At(State, p, "copy"))
    /\ UNCHANGED <<updlock, ops, calls>>

IupdatCopy(p) ==
    /\ Runs(p, "copy")
    /\ LET i == inode[proc[p].s]
       IN  Becomes(At([State EXCEPT !.disk = [@ EXCEPT ![proc[p].blk] =
                [mode |-> i.mode, nlink |-> i.nlink, gen |-> i.gen]]], p, "wrote"))
    /\ Others

IupdatEnd(p) ==
    /\ Runs(p, "wrote")
    /\ buf' = [buf EXCEPT ![BlockOf(proc[p].blk)] = None]
    /\ LET s == proc[p].s
           st == IF proc[p].ret = "sync"
                 THEN SyncLoop(Prele(State, s), p, proc[p].k)
                 ELSE AfterIput(IputLast(State, s), p)
       IN  /\ Becomes(st)
           /\ updlock' = (updlock /\ ~(proc[p].ret = "sync" /\ st.proc[p].pc = "user"))
    /\ UNCHANGED <<ops, calls>>

-----------------------------------------------------------------------------
\* Files made before: the entries of InitDir, all on disk; the directory is in
\* core, with the references of rootdir and of every u_cdir.
InitLinks(i) == Cardinality({k \in DOMAIN InitDir : InitDir[k].ino = i})

Init ==
    /\ disk = [i \in Ino |->
                IF i = Root THEN [mode |-> 1, nlink |-> 2, gen |-> 0]
                ELSE IF InitLinks(i) = 0 THEN Free
                ELSE [mode |-> 1, nlink |-> InitLinks(i), gen |-> i]]
    /\ dir = [k \in DOMAIN InitDir |->
                [ino |-> InitDir[k].ino, gen |-> InitDir[k].ino, name |-> InitDir[k].name]]
    /\ inode = [s \in Slot |->
                [number |-> IF s = Root THEN Root ELSE 0,
                 count |-> IF s = Root THEN 1 + Cardinality(Proc) ELSE 0,
                 mode |-> IF s = Root THEN 1 ELSE 0,
                 nlink |-> IF s = Root THEN 2 ELSE 0,
                 gen |-> 0, lock |-> FALSE, want |-> FALSE, upd |-> FALSE]]
    /\ buf = [b \in IBlock |-> None]
    /\ ilock = 0 /\ flock = FALSE /\ updlock = FALSE /\ gens = NIno /\ calls = 0
    /\ proc = [p \in Proc |-> Idle(NoFile, TRUE)]
    /\ \E w \in Starts : ops = w.ops /\ cache = w.cache

Kernel(p) ==
    \/ NameiIget(p) \/ Namei(p) \/ IgetAgain(p) \/ Iread(p)
    \/ IallocWait(p) \/ Ialloc(p) \/ Scan(p) \/ Trunc(p)
    \/ Wdir(p) \/ Unwrite(p) \/ LinkOut(p) \/ Itrunc(p)
    \/ IupdatRead(p) \/ IupdatCopy(p) \/ IupdatEnd(p) \/ ExitClose(p) \/ ExitCdir(p)

User(p) ==
    \/ Creat(p) \/ Open(p) \/ Chmod(p) \/ Link(p) \/ Unlink(p)
    \/ Pipe(p) \/ Close(p) \/ Exit(p) \/ Sync(p)

Next == \E p \in Proc : Kernel(p) \/ User(p)

Spec == Init /\ [][Next]_vars

\* Kernel(p) is enabled: p is in the kernel, awake, and the block that it is
\* about to read or write is nobody's.
Ready(p) ==
    /\ proc[p].pc \notin {"user", "dead", "panic"} /\ Runs(p, proc[p].pc)
    /\ proc[p].pc = "iread" => buf[BlockOf(proc[p].target)] = None
    /\ proc[p].pc = "scan" => buf[proc[p].k] = None
    /\ proc[p].pc = "updat" => buf[BlockOf(proc[p].blk)] = None

\* swtch runs every runnable process in the end, and transfers end: weak
\* fairness of Kernel(p).
FairSpec ==
    Spec /\ \A p \in Proc : []<>~Ready(p) \/ []<><<proc'[p] # proc[p]>>_vars

-----------------------------------------------------------------------------
InCore(i) == {s \in Slot : inode[s].number = i}

\* The i-node as the kernel sees it: the in-core copy, if there is one.
Current(i) ==
    IF InCore(i) = {} \/ \E p \in Proc : proc[p].pc = "iread" /\ proc[p].target = i
    THEN disk[i]
    ELSE LET n == inode[Min(InCore(i))]
         IN  [mode |-> n.mode, nlink |-> n.nlink, gen |-> n.gen]

\* Every variable has its type.
TypeOK ==
    /\ \A s \in Slot : inode[s].number \in 0 .. NIno /\ inode[s].count \in Nat
    /\ \A i \in Ino : disk[i].mode \in {0, 1}
    /\ buf \in [IBlock -> Proc \cup {None}]
    /\ \A k \in DOMAIN dir : dir[k].ino \in 0 .. NIno
    /\ cache \in Seq(Ino) /\ ilock \in Nat /\ flock \in BOOLEAN /\ updlock \in BOOLEAN

\* There is a unique in-core inode for each active file (inode.h:3).
UniqueInode == \A i \in Ino : Cardinality(InCore(i)) <= 1

\* An open file stays the file that was opened: its slot is not given to, nor
\* its i-number allocated for, another file (iget.c:86-105).
OpenFileStays ==
    \A p \in Proc : LET f == proc[p].file
        IN  f # NoFile => /\ inode[f.slot].number = f.ino
                          /\ inode[f.slot].gen = f.gen /\ inode[f.slot].mode = 1

\* A name is a name of the file it was made for: the i-node is not free and
\* has not been allocated again (sys4.c:86-110, alloc.c:174-190).
EntryNamesFile ==
    \A k \in DOMAIN dir : dir[k].ino # 0 =>
        /\ Current(dir[k].ino).mode = 1
        /\ Current(dir[k].ino).gen = dir[k].gen

Quiet == \A p \in Proc : proc[p].pc \in {"user", "dead"}

\* Between calls the link count of a file is the number of its names, and a
\* file without names is open (iget.c:92, sys2.c:223, sys4.c:103).
LinksAgree ==
    Quiet => \A i \in Ino \ {Root} : Current(i).mode = 1 =>
        /\ Current(i).nlink = Cardinality({k \in DOMAIN dir : dir[k].ino = i})
        /\ Current(i).nlink = 0 => \E p \in Proc : proc[p].file.ino = i

\* The reference counts are those of the open files and directories between
\* calls, and no inode stays locked (iget.c:103, pipe.c:204).
CountsAgree ==
    Quiet => \A s \in Slot :
        /\ ~inode[s].lock
        /\ inode[s].count =
             MapThenSumSet(LAMBDA p : proc[p].file.refs,
                           {p \in Proc : proc[p].file.slot = s})
             + IF s = Root THEN 1 + Cardinality({p \in Proc : proc[p].cdir}) ELSE 0

\* The super-block holds at most NICINOD free i-numbers, and the search never
\* stores one behind them, over s_flock (alloc.c:145-147).
CacheBound == Len(cache) <= NICINOD /\ ~flock

\* Who sleeps for an inode will be told: the inode has IWANT set, so the next
\* prele wakes him (iget.c:31-33).
WantIsSet ==
    \A p \in Proc : proc[p].chan \in Slot => inode[proc[p].chan].want

\* The in-core table: one inode for a file, which stays while the file is open,
\* sleepers who will be told, and a cache of i-numbers within its bound (iget.c,
\* alloc.c).
InodesKept == TypeOK /\ UniqueInode /\ OpenFileStays /\ CacheBound /\ WantIsSet

\* Every system call returns.
CallsReturn == \A p \in Proc : proc[p].pc \notin {"user", "dead"}
                                ~> proc[p].pc \in {"user", "dead"}
=============================================================================
