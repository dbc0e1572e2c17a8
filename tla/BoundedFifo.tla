----------------------------- MODULE BoundedFifo -----------------------------
(***************************************************************************)
(* What a bounded queue promises: values leave in the order they entered,  *)
(* each once, and there are never more than Capacity of them.              *)
(***************************************************************************)
EXTENDS Naturals, Sequences

CONSTANTS Value, Capacity
VARIABLE queue

Init == queue = <<>>

Push(v) == Len(queue) < Capacity /\ queue' = Append(queue, v)
Pop == queue # <<>> /\ queue' = Tail(queue)

Next == Pop \/ \E v \in Value : Push(v)
Spec == Init /\ [][Next]_queue
=============================================================================
