------------------------------ MODULE MCFileSys -----------------------------
EXTENDS FileSys, TLC

CONSTANTS p1, p2, p3, a, b

\* Directories to start from.
NoFiles == <<>>
OneFile == <<[ino |-> 2, name |-> a]>>
TwoNames == <<[ino |-> 2, name |-> a], [ino |-> 2, name |-> b]>>

\* p1 makes the calls in C, the others those in D; the super-block has the
\* i-numbers in free.
Start(C, D, free) ==
    [ops |-> [p \in Proc |-> IF p = p1 THEN C ELSE D], cache |-> free]

\* Users of files that nobody unlinks; one process that unlinks, one that
\* creates; one that syncs while files are opened; and, after a crash, a
\* super-block that has the i-number of a file.
Safe == {Start({"creat", "open", "link", "close"},
               {"creat", "open", "chmod", "pipe", "close", "exit"}, <<3>>),
         Start({"unlink"}, {"creat", "open", "close"}, <<3>>),
         Start({"sync"}, {"creat", "open", "pipe"}, <<3>>),
         Start({"creat", "open"}, {"creat", "chmod", "pipe", "close"}, <<3, 2>>)}

Unlinking == {Start({"unlink"}, {"unlink"}, <<>>)}
Creating == {Start({"creat"}, {"creat"}, <<>>)}
Syncing == {Start({"sync"}, {"creat", "close"}, <<3>>)}
=============================================================================
