---------------------------- MODULE BoundedFifo ----------------------------
(***************************************************************************)
(* What a tick queue between two threads promises its users: a value that  *)
(* is accepted is handed over exactly once, in the order of acceptance,    *)
(* and never more than Capacity accepted values wait.  A refused value     *)
(* leaves no trace, so refusing is a stuttering step here.                 *)
(***************************************************************************)
EXTENDS Naturals, Sequences

CONSTANTS Values,    \* what may be queued
          Capacity,  \* how many values may wait
          NoValue    \* nothing has been handed over yet

VARIABLES queue,     \* accepted and not yet handed over, oldest first
          handed     \* the value handed over last

vars == <<queue, handed>>

Init ==
    /\ queue = <<>>
    /\ handed = NoValue

Accept(v) ==
    /\ Len(queue) < Capacity
    /\ queue' = Append(queue, v)
    /\ UNCHANGED handed

HandOver ==
    /\ queue # <<>>
    /\ handed' = Head(queue)
    /\ queue' = Tail(queue)

Next == HandOver \/ \E v \in Values : Accept(v)

Spec == Init /\ [][Next]_vars
=============================================================================
