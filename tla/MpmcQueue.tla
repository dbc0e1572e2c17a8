------------------------------ MODULE MpmcQueue ------------------------------
(***************************************************************************)
(* MpmcBoundedQueue (myring/include/NoMtxQueue): a ring of cells with a    *)
(* sequence number each, and two counters that threads advance by          *)
(* compare-and-swap.  A step is one atomic access; the item itself is      *)
(* written and read between two of them.  Producers push_wait a number of  *)
(* items, consumers call try_pop until it succeeds (pop_wait).             *)
(*                                                                         *)
(* The counters have 64 bits and do not wrap: they are naturals.           *)
(***************************************************************************)
EXTENDS Integers, Sequences, FiniteSets

CONSTANTS
  Producer, Consumer,
  Items,      \* how many items a producer pushes
  Capacity

ASSUME MpmcQueueAssumption ==
  /\ Producer \cap Consumer = {}
  /\ Items \in Nat
  /\ Capacity \in Nat \ {0, 1}

Thread == Producer \cup Consumer
Value == Producer \X (1..Items)
Cell == 0..Capacity - 1
Nothing == <<>>   \* storage without a constructed object

VARIABLES
  enqueue_pos, dequeue_pos,
  sequence,   \* of each cell
  storage,    \* of each cell
  pc, pos,    \* of each thread
  sent,       \* items each producer has pushed
  held,       \* what each consumer has moved out last
  log,        \* history: the values in the order of their positions
  received    \* history: the values consumers returned

vars == <<enqueue_pos, dequeue_pos, sequence, storage, pc, pos, sent, held, log, received>>

Init ==
  /\ enqueue_pos = 0
  /\ dequeue_pos = 0
  /\ sequence = [c \in Cell |-> c]
  /\ storage = [c \in Cell |-> Nothing]
  /\ pc = [t \in Thread |-> "load"]
  /\ pos = [t \in Thread |-> 0]
  /\ sent = [p \in Producer |-> 0]
  /\ held = [c \in Consumer |-> Nothing]
  /\ log = <<>>
  /\ received = {}

index_of(n) == n % Capacity
CellOf(t) == index_of(pos[t])
Go(t, step) == pc' = [pc EXCEPT ![t] = step]

-----------------------------------------------------------------------------
(* try_emplace_impl *)

PushLoad(p) ==
  /\ pc[p] = "load"
  /\ sent[p] < Items
  /\ pos' = [pos EXCEPT ![p] = enqueue_pos]
  /\ Go(p, "sequence")
  /\ UNCHANGED <<enqueue_pos, dequeue_pos, sequence, storage, sent, held, log, received>>

(* Mutant: a cell of the last round that is still in use is taken. *)
PushSequence_Busy(p) ==
  /\ pc[p] = "sequence"
  /\ Go(p, IF sequence[CellOf(p)] <= pos[p] THEN "cas" ELSE "load")
  /\ UNCHANGED <<enqueue_pos, dequeue_pos, sequence, storage, pos, sent, held, log, received>>

(* A cell that is behind means full, and push_wait tries again; one that   *)
(* is ahead means that the position is stale.  Both start again.           *)
PushSequence(p) ==
  /\ pc[p] = "sequence"
  /\ Go(p, IF sequence[CellOf(p)] = pos[p] THEN "cas" ELSE "load")
  /\ UNCHANGED <<enqueue_pos, dequeue_pos, sequence, storage, pos, sent, held, log, received>>

(* Mutant: the counter is stored without a comparison. *)
PushCas_Store(p) ==
  /\ pc[p] = "cas"
  /\ enqueue_pos' = pos[p] + 1
  /\ log' = Append(log, <<p, sent[p] + 1>>)
  /\ Go(p, "construct")
  /\ UNCHANGED <<dequeue_pos, sequence, storage, pos, sent, held, received>>

PushCas(p) ==
  /\ pc[p] = "cas"
  /\ IF enqueue_pos = pos[p]
     THEN /\ enqueue_pos' = pos[p] + 1
          /\ log' = Append(log, <<p, sent[p] + 1>>)
          /\ Go(p, "construct")
          /\ UNCHANGED pos
     ELSE /\ pos' = [pos EXCEPT ![p] = enqueue_pos]
          /\ Go(p, "sequence")
          /\ UNCHANGED <<enqueue_pos, log>>
  /\ UNCHANGED <<dequeue_pos, sequence, storage, sent, held, received>>

Construct(p) ==
  /\ pc[p] = "construct"
  /\ storage' = [storage EXCEPT ![CellOf(p)] = <<p, sent[p] + 1>>]
  /\ Go(p, "publish")
  /\ UNCHANGED <<enqueue_pos, dequeue_pos, sequence, pos, sent, held, log, received>>

Publish(p) ==
  /\ pc[p] = "publish"
  /\ sequence' = [sequence EXCEPT ![CellOf(p)] = pos[p] + 1]
  /\ sent' = [sent EXCEPT ![p] = @ + 1]
  /\ Go(p, "load")
  /\ UNCHANGED <<enqueue_pos, dequeue_pos, storage, pos, held, log, received>>

-----------------------------------------------------------------------------
(* try_pop *)

PopLoad(c) ==
  /\ pc[c] = "load"
  /\ pos' = [pos EXCEPT ![c] = dequeue_pos]
  /\ Go(c, "sequence")
  /\ UNCHANGED <<enqueue_pos, dequeue_pos, sequence, storage, sent, held, log, received>>

(* A cell that is behind means empty, and pop_wait tries again. *)
PopSequence(c) ==
  /\ pc[c] = "sequence"
  /\ Go(c, IF sequence[CellOf(c)] = pos[c] + 1 THEN "cas" ELSE "load")
  /\ UNCHANGED <<enqueue_pos, dequeue_pos, sequence, storage, pos, sent, held, log, received>>

PopCas(c) ==
  /\ pc[c] = "cas"
  /\ IF dequeue_pos = pos[c]
     THEN dequeue_pos' = pos[c] + 1 /\ Go(c, "take") /\ UNCHANGED pos
     ELSE /\ pos' = [pos EXCEPT ![c] = dequeue_pos]
          /\ Go(c, "sequence")
          /\ UNCHANGED dequeue_pos
  /\ UNCHANGED <<enqueue_pos, sequence, storage, sent, held, log, received>>

Take(c) ==
  /\ pc[c] = "take"
  /\ held' = [held EXCEPT ![c] = storage[CellOf(c)]]
  /\ storage' = [storage EXCEPT ![CellOf(c)] = Nothing]
  /\ Go(c, "release")
  /\ UNCHANGED <<enqueue_pos, dequeue_pos, sequence, pos, sent, log, received>>

Release(c) ==
  /\ pc[c] = "release"
  /\ sequence' = [sequence EXCEPT ![CellOf(c)] = pos[c] + Capacity]
  /\ received' = received \cup {held[c]}
  /\ Go(c, "load")
  /\ UNCHANGED <<enqueue_pos, dequeue_pos, storage, pos, sent, held, log>>

try_emplace_impl(p) ==
  PushLoad(p) \/ PushSequence(p) \/ PushCas(p) \/ Construct(p) \/ Publish(p)
try_pop(c) == PopLoad(c) \/ PopSequence(c) \/ PopCas(c) \/ Take(c) \/ Release(c)

Next ==
  \/ \E p \in Producer : try_emplace_impl(p)
  \/ \E c \in Consumer : try_pop(c)

Spec == Init /\ [][Next]_vars

-----------------------------------------------------------------------------
(* Properties *)

(* Types; what a consumer returns is an item. *)
TypeOK ==
  /\ enqueue_pos \in Nat /\ dequeue_pos \in Nat
  /\ sequence \in [Cell -> Nat]
  /\ storage \in [Cell -> Value \cup {Nothing}]
  /\ pc \in [Thread -> {"load", "sequence", "cas", "construct", "publish", "take", "release"}]
  /\ pos \in [Thread -> Nat]
  /\ sent \in [Producer -> 0..Items]
  /\ held \in [Consumer -> Value \cup {Nothing}]
  /\ log \in Seq(Value)
  /\ received \subseteq Value

(* No two threads are inside the same cell: the item of a cell is written, *)
(* moved and destroyed by one thread at a time.                            *)
CellExclusive ==
  \A s, t \in Thread :
    /\ pc[s] \in {"construct", "publish", "take", "release"}
    /\ pc[t] \in {"construct", "publish", "take", "release"}
    /\ s # t
    => CellOf(s) # CellOf(t)

(* A consumer gets the item that was pushed at its position: never an      *)
(* empty cell, never an item of an earlier or later round.                 *)
TakesItsItem ==
  \A c \in Consumer : pc[c] = "release" => pos[c] < Len(log) /\ held[c] = log[pos[c] + 1]

(* The queue implements the bounded FIFO; an item enters and leaves it     *)
(* with the compare-and-swap of its position.                              *)
Fifo == INSTANCE BoundedFifo WITH queue <- SubSeq(log, dequeue_pos + 1, enqueue_pos)
IsFifo == Fifo!Spec
=============================================================================
