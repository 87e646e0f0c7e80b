# RealXV6: a TLA+ development of the kernel, its editor and its shell

RealXV6 is Sixth Edition UNIX ported to the 8086 in real mode.  This directory
holds TLA+ models of the kernel (`ken/`, `dmr/`) and of the two large user
programs (`usr/ed.c`, `usr/sh.c`), the TLC configurations that check them on
small instances, and TLAPS proofs for all instances.

## 1. The system

One processor.  A process that runs in the kernel is never preempted: another
process runs only when it calls `sleep` or `swtch`, or on the way back to user
mode (`check_runrun`).  Interrupts (clock, IDE disk, keyboard, UART) may arrive
at any instruction while `spl` allows them.  `sleep(chan, pri)` with `pri < 0`
cannot be ended by a signal; with `pri >= 0` a signal makes it return through
the `u_qsav` long jump, so the system call ends with `EINTR` wherever it was.
`wakeup(chan)` makes every process that sleeps on `chan` runnable; it remembers
nothing.  All the kernel's hard behaviour comes from this: what a process knew
before a `sleep` may be false after it, and an interrupt may come between a
test and the sleep it decides on.

| component | source | state | operations | what makes it correct |
|---|---|---|---|---|
| buffer cache | `dmr/bio.c` | headers, available list, `B_*` flags | `getblk bread breada bwrite bdwrite bawrite brelse bflush iowait iodone` | one buffer per block, one owner per buffer, no lost wakeup, a block's newest contents are what a reader gets |
| disk driver | `dmr/rk.c`, `dmr/ide.c` | request queue, transfer | `rkstrategy rkstart rkintr ideio ideintr` | requests end once, in order |
| scheduler | `ken/slp.c` | `p_stat p_wchan p_pri runrun runin runout` | `sleep wakeup setrun swtch setpri` | a runnable process runs, a wakeup is not lost |
| swapper | `ken/slp.c`, `ken/text.c`, `dmr/bio.c` | `p_addr`, `SLOAD SSWAP SLOCK`, core and swap maps | `sched xswap newproc swap physio` | an image is in one place, nobody uses a stale address |
| resource maps | `ken/malloc.c` | `coremap`, `swapmap` | `malloc mfree` | sorted, coalesced, nothing lost or given twice |
| clock, callouts | `ken/clock.c` | `time`, `tout`, `callout` | `clock timeout sslep` | sleeps end in time, callouts run once and in order |
| signals | `ken/sig.c` | `p_sig`, `u_signal` | `psignal issig psig` | a signal ends an interruptible sleep |
| processes | `ken/sys1.c` | process table | `fork exit wait kill` | every zombie is collected once |
| inodes | `ken/iget.c` | `inode[]`, `ILOCK IWANT`, `i_count` | `iget iput iupdat itrunc` | one in-core inode per file, no use after free |
| free lists | `ken/alloc.c` | superblock caches and locks | `alloc free ialloc ifree update` | a block or i-node has one owner; the copy on disk is consistent |
| block map | `ken/subr.c` | `i_addr`, `ILARG` | `bmap` | no block in two files, none lost |
| directories | `ken/nami.c`, `ken/sys2.c`, `ken/sys4.c` | directory entries, `i_nlink` | `namei link unlink mknod` | link counts agree with the entries |
| files | `ken/fio.c`, `ken/sys2.c`, `ken/sys3.c` | `file[]`, `u_ofile` | `falloc getf closef dup open close` | counts agree with the references |
| mounts | `ken/sys3.c` | `mount[]` | `smount sumount getfs` | a busy file system is not unmounted |
| pipes | `ken/pipe.c` | size, read offset, `IREAD IWRITE`, lock | `pipe readp writep plock prele` | bytes arrive in order, nobody waits for ever |
| terminals | `dmr/tty.c`, `dmr/kl.c`, `dmr/kbd.c`, `dmr/uart.c` | character lists, `t_delct`, `t_state` | `ttyinput canon ttyoutput ttstart ttread ttwrite` | a line read is a line typed; writers wake |

| editor | `usr/ed.c` | line table, temporary file with two buffers, marks, last expression | the commands, `append getline putline getblock compile execute global` | each command is the edit it is meant to be, also when something is full or it is interrupted |
| shell | `usr/sh.c` | tree of a line, descriptors | `parsecmd runcmd`, the loop of `main` | the prompt comes back, output goes where the line says |

The other user programs, the host `mkfs` (`tools/`), the boot sector, the
far-pointer and port primitives (`dmr/pc.c`, `dmr/m86.asm`), kernel printing
and the system call table are not modelled: they keep no shared state with a
protocol of its own.

The hard behaviours, by kind:

* *state read before a sleep and used after it*: `getblk` (search, then sleep),
  `unlink` and `link` (inode looked up after the directory is unlocked),
  `physio` (a physical address kept across a sleep);
* *interrupts against the process they interrupt*: `iodone` releasing a buffer,
  `clock` between the two words of `stime`, `flushtty` from a receive interrupt
  in the middle of `canon`;
* *locks that are not owned*: `prele` clears `ILOCK` whoever set it, and `iput`
  calls it for inodes its caller never locked (`close`, `exit`);
* *waiting for what somebody else has*: buffers held while another is asked
  for, inodes, pipes, the output queue;
* *images that move*: `sched` swaps a process out while others fork, exit, wait
  for it or look at it; an address of an image is good until the next sleep;
* *limits*: buffers, in-core inodes, cached i-numbers, the list of free blocks,
  core and swap space, the char `i_nlink`, wrapping double-word times, the
  editor's table and temporary file, the process table under the shell;
* *one step of several failing*: the third allocation of a large file's block,
  a `fork` in the middle of a pipeline, `append` in the middle of a substitution.

`PROJECT.json` lists each one at its line under `hazards`, with the properties
that would catch it.

## 2. Plan

Most important first; done in this version unless marked *next*.

1. `BufCache`: everything that touches a disk goes through it.  Abstract
   specification `BlockStore`.  Proofs in `BufCacheProofs` and, on top of them,
   `BufStoreProofs`.
2. `Pipe`: abstract specification `Fifo`.  Proofs in `PipeProofs`.
3. `Alarm`: `sslep`, `stime`, the clock.  Proofs in `AlarmProofs`.
4. `FileSys`: in-core inodes, the cache of free i-numbers, directory entries
   and link counts, with the system calls that race on them.
5. `Tty`: `canon`, `ttyinput`, `ttyoutput`, `ttstart`, `stty`, with the receive
   and transmit interrupts and the delay callout.  Proofs in `TtyProofs`.
6. `ResMap` (`malloc`, `mfree`) and `Procs` on top of it (`sched`, `xswap`,
   `newproc`, `fork`, `exit`, `wait`, `kill`, signals, `physio`, `psinfo`).
   Proofs in `ResMapProofs` and, each on top of the one before, `ProcsProofs` and
   `MemoryProofs`.
7. `Blocks`: `alloc`, `free`, `bmap`, `itrunc`, `readi`, `writei` and the copy of
   the super-block in `update`.  Abstract specification `Files`.
8. `EdMatch` and `Ed`; `ShParse` and `Sh`.
9. *next* `Callout` (the delta list of `timeout`, an abstract set of absolute
   times as its specification), the file table (`falloc`, `getf`, `dup`, `fork`)
   and mounts.
10. *next* proofs: the part `OnePlace` of `Blocks`.

`FileSys` abstracts what `BufCache` provides: a block of the inode list is held
by one process at a time (`buf`), which is `OneOwner`, and reading gives what
was last written, which is `BlockStore`; `Blocks` does the same for all blocks.
`Pipe` takes its lock from the inode.  What `Sh` takes the system calls to do is
what `Procs` (`fork`, `exit`, `wait`) and `Pipe` (a bounded queue that ends when
its writers are gone) show of the kernel.
The modules otherwise share only `sleep`/`wakeup`, which each states for its own
channels.

## 3. The modules

**Steps.**  Since the kernel is not preempted, the unit of interleaving is the
code between two places where the process may sleep, or where an interrupt can
make a difference.  Each module's header says which places these are.  `sleep`
sets the process's channel; `wakeup` clears it for all who have it; the process
goes on at the next turn of its loop when it is dispatched.

**`BufCache`** (`dmr/bio.c`, `dmr/rk.c`, `dmr/ide.c`, and the holding patterns
of `ken/sys1.c` `exec`, `ken/subr.c` `bmap`).  `flags`, `assoc`, `data` are the
fields of the headers, `freelist` the available list in its order, `queue` the
driver's list and `io` the transfer in the controller, whose write data is taken
when the transfer starts, as `ideio` does.  `cur` is the process in the kernel.
`getblk` is split into its outcomes (`GetblkBusy`, `GetblkHit`, `GetblkEmpty`,
`GetblkDelwri`, `GetblkReassign`), `breada` into its two requests and its wait.
`DiskIntr` is `rkintr` with `iodone` and, for the next request, `rkstart`.
Transfers succeed, except those that `rkstrategy` refuses because the block lies
beyond the device; `Workload` is the set of kernel operations that processes
perform.  Hash chains are searched by content only; `swap` and `physio` use
headers of their own and come with the swapper.

**`BlockStore`** is what callers of the cache rely on: take a block, change it,
give it back.  The mapping is `Contents`, `Holder` and `Writing` of `BufCache`:
a block's contents are those of its valid buffer, else those on disk.

**`Pipe`** (`ken/pipe.c`, `closef`, `closei`, `iput`, `readi`, `writei`).  The
inode's lock, the `IREAD`/`IWRITE` bits of `i_mode` that mark waiting ends, the
size, the shared offset of each end, signals that end a sleep through `u_qsav`,
and `writei` failing for lack of a block.  A unit is a block of the file.
**`Fifo`** is a bounded queue; the mapping takes the units between the read
offset and the size.

**`Alarm`** (`ken/clock.c`, `sslep`, `stime`, and `dpadd`, `dpcmp` of
`dmr/pc.c`).  Times are pairs of words that wrap.  `stime` is three steps, as the
clock may interrupt it between its stores.

**`FileSys`** (`ken/iget.c`, `ken/nami.c`, `ialloc`, `ifree`, `update` of
`ken/alloc.c`, and `creat open close chmod link unlink pipe exit sync`).
Operators map a state record to the next, since one step runs through several
functions; the actions apply them at the places where a process may have slept.
At the places in `Continuing` the process has *not* slept (an `iput` returned
into the middle of a function), so no other process may run before it goes on.
`gen` numbers files, so that an i-number allocated again is seen to be another
file.  Abstractions: one directory, of one block, that is always in core; a path
has one component; callers own the files and are not the super-user; the file
table has room; no I/O errors, no mounts; a file's blocks are left out (its
`itrunc` is one step that may be interleaved); a process has at most one open
file (two references to it for a pipe).

**`Tty`** (`dmr/tty.c`, `dmr/kl.c`, `dmr/uart.c`, the build with
`KL_BACKEND_UART`).  `tp` is the `tty` structure with the transmitter's holding
register (`thr`; `DONE` is `thr = None`).  Here an interrupt matters between any
two instructions outside `spl5`, so a step of a process is a single `getc`,
`putc` or `t_delct--`, or a section at `spl5`, and an interrupt handler is one
step: `Ttyinput`, `TtyinputHog`, `TtyinputIntr` for a key, `Klxint` for a
character sent, `Ttrstrt` for the end of a delay.  `canon` is `CanonWait`,
`CanonGet`, `CanonDec`, `CanonPut`.  `log` records what the user is entitled to:
the line being typed, what is still due to readers, what was put out and not yet
sent; `Taken` marks it `Wrong` when something else comes out.  What is due is
computed by `Edited`, which says what a line means by counting, over what was
typed, the erases, kills and quotes that apply to each character; `canon` gets
there by editing a buffer from left to right.  A class of characters is one key
(`a`), and `CRMOD` is set, as `klopen` does.  Left out: tabs and columns,
upper-case terminals, `gtty`, speeds, the keyboard backend (which sends at once
and has no transmit interrupt), and a shortage of character blocks.

**`ResMap`** (`ken/malloc.c`).  A map is the sequence of its entries; `Malloc`
and `Mfree` are functions of the map, by first fit and by where the address sorts
in, where the code shifts the array in place.

**`Procs`** (`ken/slp.c`, `ken/text.c`, `ken/sig.c`, `fork exit wait` of
`ken/sys1.c`, `kill ssig psinfo` of `ken/sys4.c`, `swap` and `physio` of
`dmr/bio.c`).  `proc` is the table; `at` is the place of each process and, when
it sleeps, its channel; `core` and `swp` say whose image, by process number, each
unit of memory and of the swap device holds, so that a lost or mixed image is
seen.  Slot 0 is the scheduler: `Sched` is one turn of its loop, `SwapIn` and
`SwapOut` its two outcomes, `SwapInEnd` and `SwapOutEnd` what it does when the
transfer is over.  `Fork`, `NewprocSwap`, `NewprocEnd` are `newproc` with and
without room in core; `ExitStart`, `ExitEnd`, `Wait`, `WaitEnd` are `exit` and
`wait` with the block of swap space that carries the dead process's `u`;
`Clock` is the once-a-second part of the clock interrupt.  Abstractions:
`swtch` picks any process that is ready and in core; an image is one unit of core
and `ImageSwap` of swap space; a process makes each of its calls at most once;
`expand` and `exec` are left out; two signals (`SIGINT`, `SIGKIL`) stand for those
that can be caught and the one that cannot.

**`Blocks`** (`alloc free badblock update` of `ken/alloc.c`, `bmap` of
`ken/subr.c`, `itrunc` of `ken/iget.c`, `readi writei` of `ken/rdwri.c`).  A block
is a row of `NWORD` words whatever it is used for: a block of data, of addresses,
or of the next part of the free list, so that one used for two purposes is seen
as such.  `cur` is the process that has the processor and has not come to a place
where it may sleep: an action that ends in `Goes` keeps it, one that ends in
`Sleeps` gives it up.  Data is moved in whole blocks; the inode is in core; a call
is a read, a write, a truncation (`creat` of an existing file) or `sync`.  I/O
errors are left out.  **`Files`** is what callers rely on: a file is a sequence of
blocks, zero where nothing was written; a request moves one block after another
and may end early; a file is empty as soon as its truncation begins.  The mapping
reads a file through its addresses (`ImplementsFiles`).

**`EdMatch`**, **`Ed`** (`usr/ed.c`).  `EdMatch` has `compile`, `execute`,
`advance`, `cclass` and `dosub`: a compiled expression is a sequence of nodes, of
which the bytes are counted against `ESIZE`.  `Ed` has the table of lines, the
temporary file with `ibuff`, `obuff`, `iblock`, `oblock`, `ichngd`, addresses,
marks and the commands.  A command is one step; an `append` from the terminal is
one step per line typed (`TypeLine`, ended by `TypeDot`), and a global command one
per line it visits (`GlobalNext`); `Interrupt` is a SIGINT at one of these places,
with what `onintr` does.  `did` records what the last step was meant to be, as an
edit of a plain sequence of lines; `Edited`, `Broken` and `Current` say what that
makes of the text, of the text when it fails half-way, and of the current line.
A character is one cell of a block.

**`ShParse`**, **`Sh`** (`usr/sh.c`).  `ShParse` is `parsecmd` and what it calls,
over tokens.  `Sh` has a record per process: its place in `main` or `runcmd`, its
tree and its descriptors; the programs it starts are four kinds that write, copy,
read a part of their input, or do nothing.  A step ends at a system call that
others can see: `fork`, `wait`, a read or write of a pipe, a program's `exec`.
`dup` takes the lowest free descriptor, as in `ken/fio.c` `ufalloc`.  What the
system calls return is taken from the kernel and the user library (`ken/trap.c`,
`usr/startup.asm`, `usr/syscall.c`): a failing call gives minus its error, so a
failing `fork` gives -11, at which `fork1` does not panic (`Fork1`), and `open` adds
one to its mode, so that `<` opens for writing (`OpenFlag`, `ReadFile`).  Files may
be written by everyone.  A program whose read fails ends as at the end of its
input; messages are left out.  `Meant` says what a line does when each part runs
to its end before the next begins; if a fork failed, it is the set of what the
line does without some of the parts that are forked for.

`MC*` modules hold the model values and the instances; a definition with
"Mutant" in its comment is a deliberately wrong variant of the definition after
it, used to confirm that a property can fail.

## 4. The runs

| run | instance | shows |
|---|---|---|
| `buf_cache` | 2 processes, 2 buffers, 2 blocks and 1 beyond the device | ownership, availability, no lost wakeup, reads complete, no deadly embrace, every sleep ends |
| `buf_map` | 2 processes, 3 buffers, 2 blocks, 2 contents | operations that hold two buffers: no embrace, and they implement `BlockStore` |
| `buf_store` | 2 processes, 2 buffers, 3 blocks, 2 contents | eviction of delayed writes implements `BlockStore` |
| `pipe` | 1 reader, 2 writers, capacity 2, writes of up to 3, 3 units, 1 signal | implements `Fifo`, one process inside, no lost wakeup, every sleep ends |
| `alarm` | 2 sleepers, words of 4 and 2 values, 1 `stime`, 1 signal | nobody oversleeps, every sleep ends |
| `fs` | 2 processes, 4 i-numbers, 2 names, 4 calls, 4 starts | table, names, link counts, reference counts, free cache, all calls return |
| `tty` | 2 processes, up to 5 keys, 8 starts, `TTHIWAT` 4, `TTLOWAT` 2, `TTYHOG` 7 | what is read is what was typed, what is sent is what was written, `t_delct` counts, no lost wakeup, calls end |
| `procs` | 5 slots, 8 starts: core for 1 to 4 images, swap space for 1 to 3 | memory and swap space are neither lost nor given twice, an image stays whole and its own, no child without a parent, no lost wakeup, a ready process comes in, a killed one ends and is collected |
| `blocks` | 3 processes, 2 files, 6 starts; 2 addresses in an inode, 3 words in a block, lists of 2, at most 9 blocks | every block has one place, `s_fmod` tells of changes, "no space" is true, `update` copies a list that names all free blocks, implements `Files`, all calls return |
| `ed` | 6 sessions of up to 4 commands; blocks of 8 cells, 5 blocks, 7 lines; 1168 expressions | every step is the edit it is meant to be, marks name their lines, a global does each line once and ends, a match is the leftmost and longest the expression allows |
| `sh` | 7 starts: 17 lines, pairs of lines with 1, 2, 3 or 5 slots for children, and all lines of up to 4 of 7 tokens | the tree is what the grammar says, no descriptor of a pipe is left, files and terminal get what the line means, or a part of it where a fork fails, the prompt comes back |
| `psinfo_swap` | 4 processes, core for 2 | violation: section 6 |

A run's invariants are conjunctions of named parts where the parts speak of the
same state: `WaitsAreRight` (`BufCache`), `BlocksKept`, `LinesKept` (`Ed`),
`InodesKept` (`FileSys`), `PipeIsSafe`, `TableKept` and `MemoryKept` (`Procs`),
`ProcessesKept` (`Sh`), `QueuesKept` (`Tty`); the type invariant of a module is one
of the parts.  In `BufCache` and `Alarm` it is only proved (section 5).  In `buf_cache`
an embrace would break `SleepersWake`.

**Bounds.**  Two processes are enough for every race between a holder and a
waiter, and `wakeup` wakes everybody, so a third waiter adds no new wake order;
where two who wait compete with one who holds (`pipe`), there are three.  In
`buf_cache` there are fewer buffers than blocks (with the one beyond the device),
so the list runs empty and dirty buffers are evicted.  `buf_map` needs three
buffers: two processes that hold one and ask for another would otherwise meet
the embrace of section 6; that is the instance of the code's implicit rule that
there are more buffers (`NBUF`) than such processes.  `PIPSIZ = 2` with
writes of 3 makes a write block in its middle.  `Word = 4`, `HalfHigh = 1` make
low words carry and times wrap within a run.  `NICINOD = 2` and `PerBlock = 2`
make the cache of i-numbers full and empty and give the search two blocks.
`MaxCalls`, `MaxUnits`, `MaxSig`, `MaxStime` bound how much is asked, not the
order in which it happens; deadlock is not checked where they end the behaviour.

The four starts of `fs` are the workloads on which the code does what its
comments say: files that nobody unlinks, one process that unlinks, one that
syncs while others open and create, and a super-block that, after a crash, still
has the i-number of a file (the case "Inode was allocated after all").
Combinations left out of it are those of section 6.

The starts of `tty` combine two callers with the keys that matter to them: all
editing and quoting for one reader, two readers, echo with and without delays
against a writer and a reader, writers with delays, `stty` and interrupt keys
against a writer, `stty` against a reader.  A write is longer than `TTHIWAT`
after expansion, so writers sleep; 5 keys with their delimiters pass `TTYHOG`.
`CANBSIZ` is larger than any line.  Readers are kept apart
from interrupt keys and a full raw queue, and writers with delays from echo, for
the reasons given in section 6.

The starts of `procs` give each question the smallest memory in which it arises:
one image in core, so that `fork`, `exit` and `wait` all swap; two, so that
`newproc`'s swap meets the scheduler's; swap space for one image more, so that
`newproc` waits for it; raw transfers against the scheduler; signals to a process
that handles, forks and waits, and to one that is swapped out.  `MaxPid = 7` makes
process numbers start again.  `SwappedIn` is asked where there is swap space for
what is out and one more (`Roomy`): without it nothing can be moved, section 6.

In `blocks`, `NADDR = 2`, `NWORD = 3` give a file of one direct step its large form
at block 2 and the double indirect one at block 3, so that a write of a few blocks
passes both borders, and truncation runs through all levels; lists of 2 pass
through their blocks at every other call.  The starts keep to one writer per file
and to devices where what is asked for fits or fails at its first allocation, and
`update` waits for a buffer only where the list does not move meanwhile, for the
reasons in section 6.

In `ed`, lines of up to 6 cells in blocks of 8 end on, before and behind the
border of a block, and 5 blocks and 7 lines are filled by the second session.
The expressions are all those of up to three of eight parts (a character, `.`,
classes, closures, brackets, `$`), with and without `^`, against four lines, and
eight that are wrong.  In `sh`, with one slot (the shell's) every line of up to
four tokens is parsed and its tree compared with the grammar's, and `main`'s own
`fork` fails.  With one slot for children the `fork` of a list or of both sides of a
pipe fails; with two, that of the right side, or of a list on its left; with three, that
of a list or pipe inside another, where the left fork may fail and the right one,
after a child has been collected, not.  No line of this run lets a program in the
foreground read a file by `<`, which fails (section 6).

**Fairness.**  Weak fairness of the disk interrupt and the clock: the devices
do not stop.  Weak fairness of a process's kernel steps: it is not preempted and
no loop in these paths waits by spinning.  In `Tty`, where other processes may
be in the kernel in between, this is strong fairness of a process's steps, and
transmit interrupts and the ends of delays are weakly fair.  Strong fairness of
`Dispatch` in `BufCache`: `swtch` scans the table from the last process on and picks by
priority, which `setpri` lowers with use, so a ready process is not passed over
for ever, though others run in between.  `exec`'s file is finite (`ExecEnd`).
`SleepEnds` also assumes `Prompt`: a woken process runs before the clock has
passed half its range (68 years) since its deadline.  In `Procs` the
clock is weakly fair and, for each process, its kernel steps, the interrupts it waits for, and the `wait` of `init`, whose loop does nothing else,
are strongly fair: they are interrupted by others' steps in the kernel, and
`swtch` comes to everyone in core.  In `Blocks` a process's kernel steps are weakly
fair.  In `Ed` the steps of a global command, and in `Sh` those of every process
that is not stopped in `wait`, `read` or `write`, are weakly fair; this is written
out, `[]<>~Can \/ []<><<A>>_vars`, since `ENABLED` of these steps is slow to
evaluate.  `FileSys` is as `Blocks`.  Users are under no
fairness: nobody has to make a call.  The exception is `pipe`, where a wait ends
by what the other end does: a process that has an end goes on calling or closes
it, and every writer closes in the end, as `exit` does for it at the latest.

## 5. The proofs

`BufCacheProofs`, for any sets of processes, buffers and blocks under
`BufAssumption`: `TypeCorrect`, `Availability`, `UniqueBuffer`, `Ownership`.
None of these is inductive.  `Inv` is the conjunction of

* `TypeOK`, and that neither list has an element twice, the available list holds
  exactly the buffers that are not busy, a queued one is busy and not done, and
  the controller works if and only if the queue is not empty (`ListInv`);
* that asynchronous buffers are queued, delayed writes are for blocks of the
  device and errors for others (`FlagInv`): the interrupt decides by `B_ASYNC`
  whether it has to release the buffer;
* that what a process has in hand is busy, not asynchronous and nobody else's,
  and every busy buffer is somebody's or asynchronous (`OwnInv`);
* `OneBufferPerBlock`, which `GetblkReassign` keeps because its guard repeats
  the search after every sleep;
* for each place in the code, which of `bp`, `rbp`, `arg` a process has there
  (`ProcInv`): without it a release could be of a buffer that is not held.

There is one lemma per action; those that release a buffer share `Release`,
those that start a transfer share the `...Start` lemmas, and a process that only
moves its program counter is covered by the frame lemmas.

`AlarmProofs`, for any word size, sets of processes and bounds under
`AlarmAssumption`: `OnTime` and `AlarmKept`, from `TypeOK /\ AlarmAhead`.
`NoOversleep` alone is not inductive: the clock only compares the time with
`tout`, so it must be known that `tout` lies between the time and every
deadline, in the wrapping order.  The arithmetic is reduced to numbers by
`ValInjective`, `TickVal` and `DpcmpIsCmp`; `CmpSucc` is the heart: a difference
that is positive and not yet met stays positive after one tick.

`BufStoreProofs`, on top of `BufCacheProofs`, first: `WaitsRight`, which is all of
`WaitsAreRight` (`NoLostWakeup` and `ReadIsComplete`).  `Waits` adds to `Inv` and
`NoLostWakeup` what each process waits for and which block its buffer is of, by
its place (`WaitInv`).  Who waits for a transfer is woken by its end only if the
transfer is still to come: that his buffer is settled, done or in the queue,
depends on how he came to wait.  And `iowait` goes on at `B_DONE` alone: that
the buffer is still of the block he asked for follows from who held it since.

Then, from these, `ImplementsBlockStore`.  `StoreInv`
adds to `Inv` that a transfer under way is of the head of the queue and carries
its data (`IoInv`), that a buffer which is done, not a delayed write and not being
changed by its holder equals the disk (`DataOK`), and what a process that is about to write has in hand
(`HandInv`).  A block's abstract contents are its buffer's when that is newer
than the disk, and the disk's otherwise, so most steps must be shown to move
data between the two without changing it: the `Contents...` and `Holder...`
lemmas do this for one buffer, `TouchStore` is the frame for all others, and the
actions are grouped by what they are to the store: nothing, `Take`, `Put`,
`Release`, or the start of a transfer.  The end of one is `DiskIntrStore`.

`PipeProofs`, for any numbers of readers and writers, any capacity and sizes:
`Safe` (`PipeIsSafe`) and `Implements` (`ImplementsFifo`).  `Inv` says who is
where with which end open (`Roles`, `Counts`), that `ILOCK` is set exactly while
somebody is inside, as long as both ends are open (`Locked`), what a writer or
reader inside knows of the offsets (`WriterInside`, `ReaderInside`), that the pipe
holds units that were sent, and what is still to be sent was asked for
(`Written`), and `NoLostWakeup`.  Both theorems
assume `OneReader`, as the run has it: the last close of the write end unlocks
the pipe whoever has the lock (`iget.c:104`), and with a second reader two are
then inside.  With one it is harmless, since the writers are gone.  What needs no
such hypothesis is stated without it: `Invariance`, and `SafeWhileOpen`, by which
no wakeup is lost, and one process is inside as long as both ends are open.

`ResMapProofs`, for every map, size and address: `MallocTakes` and
`MfreeReturns`.  The argument is by order: a map is `Ordered` when each entry ends
before the next begins, with a gap; `NeighboursSuffice` derives this for all pairs
from neighbours; `Before` is the place where an address sorts in, and divides the
map; each of the four cases of `mfree` is a lemma about what it does to the
entries, of which order and units follow.  That `malloc` fails only when no run
is free rests on entries being joined: a free run lies in one entry (`OneEntry`).

`ProcsProofs`: `TableStays` (`TableKept`), for any number of slots, core, swap
space and calls.  `Table` has, besides the types, the parts

* `ParentLives`, and `Founders`: processes 0 and 1 are always there, and process
  1 neither exits nor is signalled;
* `PlaceInv`: what `p_stat` says of where a process is, and conversely;
* `CollectInv`: the zombie whose block `wait` reads stays its child and a zombie
  while the read sleeps;
* `CopyInv`: a child that `newproc` writes to the swap device has a parent that
  is `SIDL`, and no other child has the same;
* `Headers`: who is at a transfer has the buffer header; with it `BufWake`,
  `WaitWake` and `SchedWake`, which are `NoLostWakeup` sleeper by sleeper.

It assumes `InitStays`: among the calls of process 1 there is no `exit`.  `exit`
gives orphans to process 1 and looks for their parent until it finds it
(`sys1.c:212`), and `usr/init.c` never returns.  Most actions move one process
and at most wake others: `OneMoves` proves `Table` for all of these from
what the one that moves satisfies afterwards; `fork` and the ends of `newproc`,
`exit` and `wait`, where two processes change, have lemmas of their own.

`MemoryProofs`, on top of `ProcsProofs` and `ResMapProofs`: `MemoryStays`
(`MemoryKept`), for any number of slots, core, swap space and calls.  The
invariant is `Table` with `Memory`:

* `CoreHas` and `SwapHas` say what each process has, from its entry and the jobs
  under way: the page or the swap blocks of its image, both while it is being
  written out, the block that `exit` took, a zombie's one block.  `Shared` says
  that these and what the map has free are all units, each once;
* `Jobs`: what the scheduler, `newproc`, `exit`, `wait` and a raw transfer
  remember while they sleep is still so.  A child being copied has the page of
  its parent, which is in core and alive;
* `HasImage`: the units of a process hold its image; `Transferred`: a transfer
  whose interrupt has come has put the image where it is to be;
* `Apart`: the block that `exit` writes is not one of its own image.

A step moves one or two processes and leaves the others what they have: `Rests`
and `Stays` say so, and `CalmStep` proves `Memory` for all steps that move
nothing.  `MallocShares` and `MfreeShares` turn the theorems about maps into steps
of `Shared`; `DataStep` is the frame for interrupts that write units;
`TransferPlace` says that they write units of the process whose transfer it is.

The theorem assumes `InitStays`, as `TableStays` does, and `[]Untaken`: `sched`
never takes out of core a process that sleeps in `newproc` for swap space or in
`physio` for the header.  The code does not see to that, and both are cases of
section 6 in which images are lost, so that without the hypothesis the theorem is
false.  With it everything else is covered: whoever else is swapped out or in, and
whenever.  TLC has found `Untaken` and `Memory` in all states of the run `procs`.
`ProcsAssumption` says of the starts that the images that are there fit.

`TtyProofs`, for any processes, texts, keys, callers and limits under
`TtyAssumption`.  `OutputKept` (`OutputInOrder`) has no further hypothesis:
`ttwrite`, the echo, `ttstart`, the delays and the interrupts each change the
queue, the holding register and what is due together, so that the property is
inductive with the types.  `Only` is a fold over a sequence, for which the
lemmas `Only...` say how it goes with `Append`, `Tail` and `\o`.

`QueuesStay` (`QueuesKept`) needs more.  `QueuesInv` has, besides the types,

* `Input`: the bound of the raw queue (`TTYHOG` and the delimiter of one), one
  process outside its sleeps (`OneRuns`), `t_delct` as the number of delimiters
  queued and of those in the hand of a process between `getc` and `t_delct--`
  (`DelctCounts`), nobody asleep for input with a delimiter there (`RawSleep`), and
  `u_count` positive while a `read` goes on;
* `Output`: no two delays of the output queue side by side, the one under way
  included (`Spaced`), what is left of an expansion and whether a delay may follow
  (`Shapes`, `Room`), the transmitter or a delay at work when nobody is
  between a `putc` and its `ttstart` (`Started`), and for every process asleep for
  output an interrupt to come that wakes it (`Awake`): a character is being
  sent, or a delay ends behind which there is one to send.

`Spaced` is what `NoLostWakeup` rests on, since the end of a delay wakes nobody.
It is not kept by every step, and neither is `DelctCounts`: an interrupt key in
`canon` between `getc` and `t_delct--`, and an echoed newline between a newline of
`ttwrite` and its delay, break them (section 6).  The theorem assumes that no step
is one of these, `[][KeysApart]_vars`; a flush between a newline and its delay
is excluded too, though what it leaves (a delay at the head of an empty queue)
has not been seen to lose a wakeup.  All starts of the run `tty` keep
`KeysApart`, as they leave out those combinations of keys and calls, so the
hypothesis is one that states satisfy; and with `ECHO`, `NLDELAY`, a writer, a
process in `stty` and a typed newline TLC does find a sleeper that nobody wakes.

Only model-checked:

* all liveness: fairness and `ENABLED` are out of the prover's reach;
* `NoDeadlyEmbrace`, which holds only where there are enough buffers;
* `PsinfoConsistent`, which holds for the starts of the run and not for all
  (section 6);
* the inodes, and the blocks with the refinement `ImplementsFiles`, whose invariants
  hold for workloads that keep out the cases of section 6, so that theorems about
  them need those as hypotheses;
* `ReadsWhatWasTyped`: what a line means is computed by `Edited` for whole texts, and
  that `canon` computes the same from left to right is induction over data;
* the editor and the shell: `EdMatch`, `Ed` and `ShParse` follow the code's own
  recursion with `RECURSIVE` operators, and what a recursive definition computes
  would need induction over data.

## 6. Where the code and its comments disagree

The run `psinfo_swap` ends in a counterexample (`ken/sys4.c:316`): `psinfo` takes a
clear `SLOAD` to mean that `p_addr` is a swap block.  `sched` clears it before the
image is written, while `p_addr` is still the page; a `psinfo` in between reads the
swap block that has the page's number, and its checks afterwards find nothing
changed.

These end in counterexamples too, under the configurations named (they are not
among the project's runs, which are about what holds):

* `BufEmbrace.cfg`, `NoDeadlyEmbrace` (`dmr/bio.c:84`): as many processes in
  `breada` as buffers.
* `FsUnlinks.cfg`, `EntryNamesFile` (`ken/sys4.c:93`): two `unlink`s of one name
  both count a link down; the file's other name is left without a file.
* `FsSyncClose.cfg`, `EntryNamesFile` (`ken/alloc.c:305`): `update` writes the
  inode of a slot that was given to another file while it waited.
* `FsFull.cfg`, `CountsAgree` (`ken/iget.c:197`): `creat` without a free i-node
  leaves the directory locked.
* `TtyLine.cfg`, `ReadsWhatWasTyped` (`dmr/tty.c:245`): a line that just fills
  `canonb` is followed by an end of file that nobody typed.
* `Blocks.cfg` with `Starts <- Shared`, `BlocksKept` (its part `OnePlace`) and `ImplementsFiles`
  (`ken/subr.c:35`, `:48`): `read` and `write` do not lock the inode, and two in
  one hole of a file both allocate, so that one block is lost with what was
  written to it; two that both change a small file to a large one make the first
  one's block of addresses a block of the file's data.
* with `Starts <- Full`, the same (`ken/subr.c:85`): a new block of addresses is
  released unwritten when the next allocation fails, while the inode already
  names it; its old contents become addresses.
* with `Starts <- Waiting`, `SyncCopiesAll` (`ken/alloc.c:293`): `update` tests
  `s_flock`, waits in `getblk`, and copies a list that is by then being read from
  its block: the copy on disk names no free block.
* `ShRead.cfg`, `LineDone` (`usr/sh.c:93`): `<` passes `FREAD` (1) to `open`, which
  adds one (`ken/sys2.c:65`), so the descriptor is open for writing only, and every
  read through it fails with `EBADF` (`ken/sys2.c:33`).  Programs that read what
  they open pass 0 (`usr/cat.c:33`); with the flags of 0 in `OpenFlag` the same
  lines do what they mean.  The file must also be writable to be opened.
* `Procs.cfg` with `NPROC = 6` and `Starts <- CopyStarts`, `MemoryKept` (its part
  `MapsAgree`) (`ken/slp.c:419`): `newproc` sleeps for swap space with the child's
  slot standing for the parent's image: `SLOAD` set, `SLOCK` clear, `p_addr` the
  parent's page.  When swap space comes free and `sched` goes on first, it
  may take that child as the oldest process in core (`slp.c:186-196`), write it to
  the swap device and free the page under the parent.

Others met while modelling, which the passing instances keep out of:

* `sys1.c:196`: `exit` puts the current directory without having locked it, and
  so unlocks it under a `creat` that waits for its block; a second `creat` then
  writes its entry at the same offset.
* `tty.c:223`: an interrupt key between `canon`'s `getc` of a delimiter and its
  `t_delct--` resets the count, which then becomes -1; from then on `canon` does
  not wait when there is no line.  A flush between `ttread`'s test of `c_cc` and
  its `getc` passes -1 to the user.
* `kl.c:82`: a writer is woken at a length of exactly 0 or `TTLOWAT` *in the
  transmit interrupt*.  When a delay of the writer and one of the echo stand side
  by side, the second is taken by `ttrstrt`, which does not wake; if it was the
  last thing queued, nobody wakes the writer (`tty.h:84`, "Wakeup when output
  done").
* `tty.c:227`: erasing what follows a `\` makes it quote the next `#`, `@` or
  EOT, which was not "typed preceded by" it (`tty.c:11-14`).
* `tty.c:502`: two readers.  One reads part of a line and leaves the rest in
  `t_canq`; the other, asleep in `canon` since before, is woken by an end of file,
  adds nothing to `t_canq` and returns that rest: the end of file is lost.
* `alloc.c:179`: a second process that finds the cache of i-numbers empty
  searches too, and stores over the end of `s_inode` since the limit is tested
  after the store.
* `sys2.c:212`: `link` clears `ILOCK` without `wakeup`.  A `creat` that has the
  directory locked and waits for that inode, because the super-block has its
  stale i-number, is not woken, and `link` then waits for the directory.
* `sys2.c:203`: the limit of `i_nlink` is tested before the inode is unlocked;
  concurrent `link`s pass it and the char wraps.
* `nami.c:164`: the i-number is read, the directory unlocked, and the inode
  looked up after that: a `link` may name a file that an `unlink` has freed.
* `sys4.c:96`: `unlink` panics when the in-core table is full.
* `pipe.c:48`: `pipe` assigns `i_flag`, which drops the `IWANT` of a process
  that waits for that inode.
* `iget.c:104`: the last close of a pipe's write end unlocks it under a reader
  when two readers share the other end.
* `sys4.c:14`: `gtime` reads the two words of the time with interrupts enabled; a
  carry between the two reads gives a time that is 65536 seconds off.
* `tty.c:608`: when the character blocks run out, `putc` drops a character of a
  line, or its delimiter while `t_delct` counts it.
* `iget.c:152`: `creat` truncates a file under a `write` that sleeps in `bmap`: the
  block it then fills in belongs to an inode that is empty.
* `slp.c:419`: only the end of a swap-in frees swap space with a `wakeup`, so
  `newproc` may go on sleeping for it though others exit.
* `bio.c:487`: `physio` computes the physical address before it waits for the
  header and before it sets `SLOCK`; if the process is moved while it waits, the
  transfer goes to somebody else's page.
* `sys1.c`: `exit` needs a block of swap space and panics when there is none; with
  the swap device full and everyone in core waiting, `sched` can move nobody.
* `sys1.c:212`: `exit` looks for its parent until it finds it: if the super-user
  has killed `init`, it never does.
* `sys4.c:327`: the block that `psinfo` reads through the buffer cache was written
  by `swap`, around the cache, and an old copy may be found there; for a zombie
  `p_addr` is the swap block of its saved `u`, not of an image.

In the editor:

* `ed.c:971`: after a substitution `loc2` points into `genbuf`, not `linebuf`, so
  what `s///g` looks at after the first match is whatever `genbuf` has there.
* `ed.c:1129`: `*` after a bracket ends in `error` without the `expbuf[0] = 0` of
  `cerror`; the next empty expression runs an expression without an end.  An
  unclosed `\(` is accepted, and `\1` then uses the bracket of an earlier match.
* `ed.c:1290`: closures stop backing up at `locs`, so with `g` a match that begins
  where the last one ended is missed.
* `ed.c:405`: `e` does not clear the marks, which then name lines of the new text
  by their places; a mark of the line at place 0 names line zero, whose entry is 0
  too; an unset mark is one behind the last line, and minus one it is that line.
* a SIGINT inside `getblock` leaves a buffer under the number of another block;
  a full temporary file in a substitution that splits a line loses the rest of
  it; a failing `t` leaves the copies made so far at the end of the table.
* `getfile` drops a last line without a newline; `putfile` does not look at what
  `write` returns.

In the shell: of `> a > b` the first file gets the output; `a & b` is a syntax
error.  `fork1` "panics on failure" (`sh.c:52`, a comment), but of a `fork` that
returns -1 only (`sh.c:202`), and a failing one returns -11, as `forktest.c:20`
expects.  The shell or its child then goes on as if it had a child: the line, the
left of a list, or a side of a pipe is silently left out, and the rest is done
(with three slots for children, `(a ; b) | c` may write only what `b` does).

## 7. Not modelled

In the plan: mounts, callouts other than a terminal's delay, the kernel's file
table.  Left out because TLC could not reach what is interesting in them:
priorities (`setpri`, `nice`; the models choose freely among ready processes, which
allows more), the contents of an image (`exec`, `expand`, core dumps).  Left out
because they have no protocol of their own: traps and the system call table,
accounting, the memory device, the machine layer, kernel printing, the boot
sector, the host tools, and the user programs other than the editor and the shell,
which are sequential and short.  In the editor, `=`, `!`, what `l` prints, `s///g`
and failing I/O on the temporary file; in the shell, `cd` and the reading of a
line from the terminal.
