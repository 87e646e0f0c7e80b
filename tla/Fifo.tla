-------------------------------- MODULE Fifo --------------------------------
(***************************************************************************)
(* What a pipe promises: a bounded queue between those who write and those *)
(* who read.  Units leave it in the order they entered, once.              *)
(***************************************************************************)
EXTENDS Naturals, Sequences

CONSTANTS Unit, Size

VARIABLES queue, received

Init == queue = <<>> /\ received = <<>>

Send(v) ==
    /\ Len(queue) < Size
    /\ queue' = Append(queue, v)
    /\ UNCHANGED received

Receive ==
    /\ queue # <<>>
    /\ received' = Append(received, Head(queue))
    /\ queue' = Tail(queue)

\* Nobody has the pipe open any more.
Discard == queue' = <<>> /\ UNCHANGED received

Next == (\E v \in Unit : Send(v)) \/ Receive \/ Discard

Spec == Init /\ [][Next]_<<queue, received>>
=============================================================================
