------------------------------- MODULE Files --------------------------------
(***************************************************************************)
(* What the block map and the free list promise to the callers of read,    *)
(* write and creat: a file is a sequence of blocks, zero where nothing was *)
(* written.  A request moves one block after the other, each as a whole,   *)
(* and may end early; the number of blocks moved is what the call returns. *)
(* A file is empty as soon as its truncation begins.                       *)
(***************************************************************************)
EXTENDS Naturals, Sequences

CONSTANTS Proc, File, Zero,
          Filled(_)     \* the block that a write of a value makes

VARIABLES
    content,    \* the blocks of each file
    req,        \* the request of each process: op, f, and the blocks it still
                \* has to move, n from bn on, with the value v
    done,       \* the blocks it has moved
    got         \* what it has read last

vars == <<content, req, done, got>>

NoReq == [op |-> "none", f |-> 0, bn |-> 0, n |-> 0, v |-> 0]

Init == /\ content = [f \in File |-> <<>>]
        /\ req = [p \in Proc |-> NoReq]
        /\ done = [p \in Proc |-> 0]
        /\ got = [p \in Proc |-> Zero]

Begin(p) ==
    LET r == req'[p]
    IN  /\ req[p] = NoReq /\ r.op \in {"read", "write", "trunc"}
        /\ req' = [req EXCEPT ![p] = r]
        /\ done' = [done EXCEPT ![p] = 0]
        /\ content' = IF r.op = "trunc" THEN [content EXCEPT ![r.f] = <<>>] ELSE content
        /\ UNCHANGED got

\* One block is moved; a read ends with the file.
Move(p) ==
    LET r == req[p]
        more == r.n > 1 /\ (r.op = "read" => r.bn + 1 < Len(content[r.f]))
    IN  /\ done' = [done EXCEPT ![p] = @ + 1]
        /\ req' = [req EXCEPT ![p] =
                      IF more THEN [r EXCEPT !.bn = @ + 1, !.n = @ - 1] ELSE NoReq]

Written(s, bn, v) ==
    [k \in 1 .. (IF bn < Len(s) THEN Len(s) ELSE bn + 1) |->
        IF k = bn + 1 THEN Filled(v) ELSE IF k <= Len(s) THEN s[k] ELSE Zero]

Write(p) ==
    LET r == req[p]
    IN  /\ r.op = "write" /\ Move(p)
        /\ content' = [content EXCEPT ![r.f] = Written(@, r.bn, r.v)]
        /\ UNCHANGED got

Read(p) ==
    LET r == req[p]
    IN  /\ r.op = "read" /\ Move(p)
        /\ got' = [got EXCEPT ![p] = content[r.f][r.bn + 1]]
        /\ UNCHANGED content

\* A request ends: a truncation, or a transfer that fails.
End(p) ==
    /\ req[p] # NoReq
    /\ req' = [req EXCEPT ![p] = NoReq]
    /\ UNCHANGED <<content, done, got>>

Next == \E p \in Proc : Begin(p) \/ Write(p) \/ Read(p) \/ End(p)

Spec == Init /\ [][Next]_vars
=============================================================================
