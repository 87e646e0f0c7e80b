------------------------------ MODULE MCBlocks ------------------------------
EXTENDS Blocks, TLC

CONSTANTS p1, p2, p3

Write(f, bn, n, v) == [op |-> "write", f |-> f, bn |-> bn, n |-> n, v |-> v]
Read(f, bn, n) == [op |-> "read", f |-> f, bn |-> bn, n |-> n, v |-> 0]
Truncate(f) == [op |-> "trunc", f |-> f]
Synchronise == [op |-> "sync"]

Start(C, D, E, nblk, wait, bad) ==
    [ops |-> [p \in Proc |-> IF p = p1 THEN C ELSE IF p = p2 THEN D ELSE E],
     nblk |-> nblk, wait |-> wait, bad |-> bad]

\* Two small files on a device that has blocks for one and a half; a file that
\* becomes large, with holes that are read, beside a small one; one that grows
\* under a reader; update while the list moves from and to a block; update
\* that waits, with a list that does not; and a file system with numbers that
\* are too large.
Safe == {Start({Write(1, 0, 2, 1), Truncate(1)}, {Write(2, 0, 2, 2), Truncate(2)}, {}, 3, FALSE, FALSE),
         Start({Write(1, 2, 2, 1), Read(1, 1, 2), Truncate(1), Write(1, 9, 1, 1)},
               {Write(2, 0, 1, 2), Truncate(2)}, {}, 9, FALSE, FALSE),
         Start({Write(1, 0, 4, 1), Write(1, 0, 1, 2)},
               {Read(1, 0, 2), Read(1, 2, 2)}, {}, 8, FALSE, FALSE),
         Start({Write(1, 0, 2, 1), Truncate(1)}, {Write(2, 0, 2, 2)}, {Synchronise}, 4, FALSE, FALSE),
         Start({Write(1, 0, 1, 1), Truncate(1)}, {Synchronise}, {}, 1, TRUE, FALSE),
         Start({Write(1, 1, 1, 1), Truncate(1)}, {}, {}, 2, FALSE, TRUE)}

\* Two processes in one hole of a file, or in its change from small to large;
\* a file that becomes large on a device without room; update that waits for a
\* buffer while the list moves.
Shared == {Start({Write(1, 0, 1, 1)}, {Write(1, 0, 1, 2)}, {}, 3, FALSE, FALSE),
           Start({Write(1, 2, 1, 1)}, {Write(1, 2, 1, 2)}, {}, 6, FALSE, FALSE)}
Full == {Start({Write(1, 0, 2, 1), Truncate(1), Write(1, 3, 1, 2)}, {}, {}, 3, FALSE, FALSE)}
Waiting == {Start({Write(1, 0, 2, 1), Truncate(1)}, {Synchronise}, {}, 4, TRUE, FALSE)}
=============================================================================
