------------------------------- MODULE MCProcs ------------------------------
(* Small process tables for the model checker. *)
EXTENDS Procs, TLC

ops(f) == [q \in Slot |-> IF q = 1 THEN {"wait"} ELSE IF q \in DOMAIN f THEN f[q] ELSE {}]

Start(f, live, out, c, s, w) ==
    [ops |-> ops(f), live |-> live, out |-> out, core |-> c, swap |-> s, watch |-> w,
     mpid |-> IF 4 \in live THEN 4 ELSE MaxPid]

MCStarts ==
    { \* core for one: fork, exit and wait all swap
      Start(2 :> {"fork", "exit", "wait"} @@ 3 :> {"exit"}, 0 .. 2, {1}, 1, 6, 3),
      \* core for two: newproc's swap and the scheduler's meet
      Start(2 :> {"fork"}, 0 .. 2, {1}, 2, 4, 2),
      \* newproc waits for the swap device
      Start(2 :> {"fork"} @@ 3 :> {"exit"}, 0 .. 3, {1}, 2, 3, 1),
      \* a raw transfer while the scheduler wants the core
      Start(2 :> {"raw", "exit"}, 0 .. 2, {1}, 1, 5, 2),
      \* two raw transfers
      Start(2 :> {"raw"} @@ 3 :> {"raw", "exit"}, 0 .. 3, {}, 3, 4, 3),
      \* signals, to a process that handles, forks and waits
      Start(2 :> {"kill"} @@ 3 :> {"ssig", "fork", "wait"}, 0 .. 3, {}, 4, 6, 3),
      \* a process that is swapped out is killed
      Start(2 :> {"kill"}, 0 .. 3, {3}, 3, 4, 3),
      \* psinfo of a process that is swapped in and exits, and of its slot's next
      Start(2 :> {"psinfo"} @@ 3 :> {"exit"} @@ 4 :> {"fork"}, 0 .. 4, {3}, 4, 4, 3) }

\* psinfo of a process that is swapped out meanwhile.
PsinfoStarts == {Start(2 :> {"psinfo"}, 0 .. 3, {3}, 2, 4, 3)}

\* newproc's child waits for swap space and is itself swapped out.
CopyStarts == {Start(2 :> {"fork"} @@ 3 :> {"exit"}, 0 .. 4, {1, 4}, 2, 5, 2)}
=============================================================================
