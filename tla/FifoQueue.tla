------------------------------- MODULE FifoQueue -------------------------------
(***************************************************************************)
(* What a ring of the command/completion channel promises: a bounded FIFO  *)
(* queue between one producer and one consumer.  `out` is the slot content *)
(* the consumer was handed last.                                           *)
(***************************************************************************)
EXTENDS Naturals, Sequences

CONSTANTS Capacity, Data, NoData

VARIABLES queue, out

Init == /\ queue = << >>
        /\ out = NoData

Put(d) == /\ Len(queue) < Capacity
          /\ queue' = Append(queue, d)
          /\ UNCHANGED out

Get == /\ queue # << >>
       /\ out' = Head(queue)
       /\ queue' = Tail(queue)

Next == Get \/ \E d \in Data : Put(d)

Spec == Init /\ [][Next]_<<queue, out>>
================================================================================
