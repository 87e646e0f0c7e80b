----------------------------- MODULE BlockStore -----------------------------
(***************************************************************************)
(* What the buffer cache promises its callers: each block has one          *)
(* contents; a process takes a block, alone, may change it, and gives it   *)
(* back.  No delayed write, read-ahead, eviction or interrupt ever shows.  *)
(***************************************************************************)
CONSTANTS Proc, Blk, Val, NoProc

VARIABLES
    store,      \* the contents of each block
    holder,     \* the process that has the block in hand
    writing     \* has the process changed a block it has in hand?

Init ==
    /\ store \in [Blk -> Val]
    /\ holder = [k \in Blk |-> NoProc]
    /\ writing = [p \in Proc |-> FALSE]

\* getblk returns.
Take(p, k) ==
    /\ holder[k] = NoProc
    /\ holder' = [holder EXCEPT ![k] = p]
    /\ UNCHANGED <<store, writing>>

\* The caller writes into the buffer.
Put(p, k, v) ==
    /\ holder[k] = p
    /\ store' = [store EXCEPT ![k] = v]
    /\ writing' = [writing EXCEPT ![p] = TRUE]
    /\ UNCHANGED holder

\* brelse, bwrite, bdwrite, bawrite.
Give(p, k) ==
    /\ holder[k] = p
    /\ holder' = [holder EXCEPT ![k] = NoProc]
    /\ writing' = [writing EXCEPT ![p] = @ /\ \E j \in Blk \ {k} : holder[j] = p]
    /\ UNCHANGED store

Next == \E p \in Proc, k \in Blk :
           Take(p, k) \/ Give(p, k) \/ \E v \in Val : Put(p, k, v)

Spec == Init /\ [][Next]_<<store, holder, writing>>
=============================================================================
