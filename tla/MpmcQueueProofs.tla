--------------------------- MODULE MpmcQueueProofs ---------------------------
(***************************************************************************)
(* Proofs about MpmcBoundedQueue for any number of threads, any number of  *)
(* items and any capacity of two or more.                                  *)
(*                                                                         *)
(* The positions from dequeue_pos on, Capacity of them, have each a cell   *)
(* of its own.  Below enqueue_pos a position is filled, or its producer is *)
(* still inside; from there on it is free, or the consumer of the round    *)
(* before is still inside.  The sequence of the cell tells which.          *)
(***************************************************************************)
EXTENDS MpmcQueue, SequenceTheorems, TLAPS

PushSteps == {"load", "sequence", "cas", "construct", "publish"}
PopSteps == {"load", "sequence", "cas", "take", "release"}

Types ==
  /\ enqueue_pos \in Nat /\ dequeue_pos \in Nat
  /\ sequence \in [Cell -> Nat]
  /\ storage \in [Cell -> Value \cup {Nothing}]
  /\ pc \in [Thread -> PushSteps \cup PopSteps]
  /\ pos \in [Thread -> Nat]
  /\ sent \in [Producer -> 0..Items]
  /\ held \in [Consumer -> Value \cup {Nothing}]
  /\ log \in Seq(Value)
  /\ received \subseteq Value
  /\ \A p \in Producer : pc[p] \in PushSteps
  /\ \A c \in Consumer : pc[c] \in PopSteps
  /\ \A p \in Producer : pc[p] # "load" => sent[p] < Items

Counters ==
  /\ dequeue_pos <= enqueue_pos
  /\ enqueue_pos <= dequeue_pos + Capacity
  /\ Len(log) = enqueue_pos

(* A producer: a position it has read is not ahead of the counter, one it  *)
(* may still win has a free cell, and one it has won is its own.           *)
Producing ==
  \A p \in Producer :
    /\ pos[p] <= enqueue_pos
    /\ pc[p] = "cas" /\ pos[p] = enqueue_pos => sequence[index_of(pos[p])] = pos[p]
    /\ pc[p] \in {"construct", "publish"} =>
         /\ dequeue_pos <= pos[p] /\ pos[p] < enqueue_pos
         /\ sequence[index_of(pos[p])] = pos[p]
         /\ log[pos[p] + 1] = <<p, sent[p] + 1>>
    /\ pc[p] = "publish" => storage[index_of(pos[p])] = <<p, sent[p] + 1>>

(* A consumer, in the same way; the producers cannot come round to the     *)
(* cell it is in.                                                          *)
Consuming ==
  \A c \in Consumer :
    /\ pos[c] <= dequeue_pos
    /\ pc[c] = "cas" /\ pos[c] = dequeue_pos => sequence[index_of(pos[c])] = pos[c] + 1
    /\ pc[c] \in {"take", "release"} =>
         /\ pos[c] < dequeue_pos /\ enqueue_pos <= pos[c] + Capacity
         /\ sequence[index_of(pos[c])] = pos[c] + 1
    /\ pc[c] = "take" => storage[index_of(pos[c])] = log[pos[c] + 1]
    /\ pc[c] = "release" => held[c] = log[pos[c] + 1]

Inside(t) == pc[t] \in {"construct", "publish", "take", "release"}

(* No two threads have won the same position. *)
Distinct == \A s, t \in Thread : Inside(s) /\ Inside(t) /\ s # t => pos[s] # pos[t]

Filled ==
  \A q \in Nat : dequeue_pos <= q /\ q < enqueue_pos =>
    \/ sequence[index_of(q)] = q
    \/ sequence[index_of(q)] = q + 1 /\ storage[index_of(q)] = log[q + 1]

Free ==
  \A q \in Nat : enqueue_pos <= q /\ q < dequeue_pos + Capacity =>
    sequence[index_of(q)] \in {q, q + 1 - Capacity}

IInv == Types /\ Counters /\ Producing /\ Consuming /\ Distinct /\ Filled /\ Free

-----------------------------------------------------------------------------
(* Cells *)

(* Division with remainder by the capacity. *)
LEMMA DivMod ==
  ASSUME NEW n \in Nat
  PROVE  n = Capacity * (n \div Capacity) + (n % Capacity)
         /\ n % Capacity \in 0..Capacity - 1 /\ n \div Capacity \in Nat
  BY MpmcQueueAssumption, SMT

(* index_of maps positions to cells. *)
LEMMA IndexCell == \A n \in Nat : index_of(n) \in Cell
  BY DivMod DEF index_of, Cell

(* Positions that share a cell are at least the capacity apart. *)
LEMMA IndexFar ==
  \A m, n \in Nat : m < n /\ index_of(m) = index_of(n) => n - m >= Capacity
<1> SUFFICES ASSUME NEW m \in Nat, NEW n \in Nat, m < n, m % Capacity = n % Capacity
             PROVE  n - m >= Capacity
  BY DEF index_of
<1> DEFINE a == m \div Capacity
           b == n \div Capacity
           r == m % Capacity
<1>1. m = Capacity * a + r /\ n = Capacity * b + r /\ a \in Nat /\ b \in Nat /\ r \in Nat
  BY DivMod
<1> HIDE DEF a, b, r
<1>2. n - m = Capacity * (b - a)
  BY <1>1, MpmcQueueAssumption, SMT
<1>3. b - a >= 1
  <2> SUFFICES ASSUME b - a <= 0 PROVE FALSE
    BY <1>1
  <2>1. Capacity * (b - a) <= 0
    BY <1>1, MpmcQueueAssumption, SMT
  <2> QED
    BY <2>1, <1>2
<1>4. \A k \in Int : k >= 1 => Capacity * k >= Capacity
  BY MpmcQueueAssumption, SMT
<1> QED
  BY <1>1, <1>2, <1>3, <1>4

(* The first positions are in the cells of the same number. *)
LEMMA IndexFirst == \A q \in Nat : q < Capacity => index_of(q) = q /\ q \in Cell
<1> SUFFICES ASSUME NEW q \in Nat, q < Capacity PROVE index_of(q) = q /\ q \in Cell
  OBVIOUS
<1> DEFINE d == q \div Capacity
           r == q % Capacity
<1>1. q = Capacity * d + r /\ d \in Nat /\ r \in Nat
  BY DivMod
<1> HIDE DEF d, r
<1>2. d >= 1 => Capacity * d >= Capacity
  BY <1>1, MpmcQueueAssumption, SMT
<1>3. d = 0
  BY <1>1, <1>2, MpmcQueueAssumption, SMT
<1>4. q = r
  BY <1>1, <1>3, MpmcQueueAssumption, SMT
<1> QED
  BY <1>4, MpmcQueueAssumption DEF Cell, index_of, r

(* A position of the next round has the same cell. *)
LEMMA IndexNext == \A n \in Nat : index_of(n + Capacity) = index_of(n)
<1> SUFFICES ASSUME NEW n \in Nat PROVE (n + Capacity) % Capacity = n % Capacity
  BY DEF index_of
<1> DEFINE a == n \div Capacity
           r == n % Capacity
           b == (n + Capacity) \div Capacity
           s == (n + Capacity) % Capacity
<1>1. n = Capacity * a + r /\ r \in 0..Capacity - 1 /\ a \in Nat
  BY DivMod
<1>2. n + Capacity = Capacity * b + s /\ s \in 0..Capacity - 1 /\ b \in Nat
  BY DivMod, MpmcQueueAssumption
<1> SUFFICES r = s
  OBVIOUS
<1> HIDE DEF a, b, r, s
<1>3. r - s = Capacity * (b - a - 1)
  BY <1>1, <1>2, MpmcQueueAssumption, SMT
<1>4. \A k \in Int : k >= 1 => Capacity * k >= Capacity
  BY MpmcQueueAssumption, SMT
<1>5. \A k \in Int : k <= -1 => Capacity * k <= -Capacity
  BY MpmcQueueAssumption, SMT
<1>6. b - a - 1 = 0
  BY <1>1, <1>2, <1>3, <1>4, <1>5, MpmcQueueAssumption
<1>7. Capacity * 0 = 0
  BY MpmcQueueAssumption
<1> QED
  BY <1>1, <1>2, <1>3, <1>6, <1>7

-----------------------------------------------------------------------------
(* Consequences of the invariant *)

(* A thread that has won a position is within a round below enqueue_pos. *)
LEMMA InsideWindow ==
  ASSUME IInv, NEW t \in Thread, Inside(t)
  PROVE  pos[t] \in Nat /\ pos[t] < enqueue_pos /\ enqueue_pos <= pos[t] + Capacity
<1>1. CASE t \in Producer
  BY <1>1, MpmcQueueAssumption DEF IInv, Types, Counters, Inside, PushSteps, PopSteps, Producing
<1>2. CASE t \in Consumer
  <2>1. pc[t] \in {"take", "release"}
    BY <1>2 DEF IInv, Types, Inside, PopSteps
  <2>2. pos[t] < dequeue_pos /\ enqueue_pos <= pos[t] + Capacity
    BY <1>2, <2>1 DEF IInv, Consuming
  <2> QED
    BY <2>2 DEF IInv, Types, Counters
<1> QED
  BY <1>1, <1>2 DEF Thread

(* Two threads that have each won a position are in different cells. *)
LEMMA InsideApart ==
  ASSUME IInv, NEW s \in Thread, NEW t \in Thread, Inside(s), Inside(t), s # t
  PROVE  index_of(pos[s]) # index_of(pos[t])
<1>1. pos[s] # pos[t]
  BY DEF IInv, Distinct
<1>2. enqueue_pos \in Nat
  BY DEF IInv, Types
<1> QED
  BY <1>1, <1>2, InsideWindow, IndexFar, MpmcQueueAssumption

(* A position other than its own that is filled has a different cell. *)
LEMMA FilledApart ==
  ASSUME IInv, NEW t \in Thread, Inside(t),
         NEW q \in Nat, dequeue_pos <= q, q < enqueue_pos, q # pos[t]
  PROVE  index_of(q) # index_of(pos[t])
<1>1. enqueue_pos \in Nat /\ dequeue_pos \in Nat /\ enqueue_pos <= dequeue_pos + Capacity
  BY DEF IInv, Types, Counters
<1> QED
  BY <1>1, InsideWindow, IndexFar, MpmcQueueAssumption

(* A free position shares the cell of a thread inside only if that thread  *)
(* is a consumer of the round before.                                      *)
LEMMA FreeApart ==
  ASSUME IInv, NEW t \in Thread, Inside(t),
         NEW q \in Nat, enqueue_pos <= q, q < dequeue_pos + Capacity,
         index_of(q) = index_of(pos[t])
  PROVE  q = pos[t] + Capacity /\ pos[t] < dequeue_pos
<1>1. enqueue_pos \in Nat /\ dequeue_pos \in Nat /\ dequeue_pos <= enqueue_pos
  BY DEF IInv, Types, Counters
<1>2. pos[t] \in Nat /\ pos[t] < enqueue_pos /\ enqueue_pos <= pos[t] + Capacity
  BY InsideWindow
<1>3. pos[t] + Capacity \in Nat /\ index_of(pos[t] + Capacity) = index_of(q)
  BY <1>2, IndexNext, MpmcQueueAssumption
<1>4. q - pos[t] >= Capacity
  BY <1>1, <1>2, IndexFar
<1> QED
  BY <1>1, <1>2, <1>3, <1>4, IndexFar, MpmcQueueAssumption

(* A thread that may still win its position is not in the cell of a thread *)
(* that has won one.                                                       *)
LEMMA CasApart ==
  ASSUME IInv, NEW t \in Thread, Inside(t), NEW s \in Thread, pc[s] = "cas",
         s \in Producer => pos[s] = enqueue_pos,
         s \in Consumer => pos[s] = dequeue_pos
  PROVE  index_of(pos[s]) # index_of(pos[t])
<1> USE MpmcQueueAssumption DEF IInv, Types
<1>1. pos[t] \in Nat /\ pos[t] < enqueue_pos /\ enqueue_pos <= pos[t] + Capacity
  BY InsideWindow
<1>2. sequence[index_of(pos[t])] \in {pos[t], pos[t] + 1}
  BY DEF Inside, Thread, PushSteps, PopSteps, Producing, Consuming
<1>3. t \in Consumer => sequence[index_of(pos[t])] = pos[t] + 1 /\ pos[t] < dequeue_pos
  BY DEF Inside, PushSteps, PopSteps, Consuming
<1>4. t \in Producer => sequence[index_of(pos[t])] = pos[t]
  BY DEF Inside, PushSteps, PopSteps, Producing
<1> SUFFICES ASSUME index_of(pos[s]) = index_of(pos[t]) PROVE FALSE
  OBVIOUS
<1>5. CASE s \in Producer
  <2>1. sequence[index_of(pos[t])] = enqueue_pos /\ pos[s] = enqueue_pos
    BY <1>5 DEF Producing
  <2>2. enqueue_pos - pos[t] >= Capacity
    BY <1>1, <2>1, IndexFar
  <2> QED
    BY <1>1, <1>2, <2>1, <2>2
<1>6. CASE s \in Consumer
  <2>1. sequence[index_of(pos[t])] = dequeue_pos + 1 /\ pos[s] = dequeue_pos
    BY <1>6 DEF Consuming
  <2>2. t \in Producer /\ pos[t] = dequeue_pos + 1
    BY <1>1, <1>3, <1>4, <2>1 DEF Thread
  <2> QED
    BY <1>1, <2>1, <2>2, IndexFar
<1> QED
  BY <1>5, <1>6 DEF Thread

-----------------------------------------------------------------------------
(* Steps *)

(* Reading enqueue_pos keeps the invariant. *)
LEMMA PushLoadIInv ==
  ASSUME IInv, NEW p \in Producer, PushLoad(p)
  PROVE  IInv'
<1> USE MpmcQueueAssumption DEF IInv, PushLoad, Go, CellOf, Types, PushSteps, PopSteps, Thread
<1>1. Types'
  BY DEF Types, Value
<1>2. Counters'
  BY DEF Counters
<1>3. Producing'
  BY DEF Producing, Counters
<1>4. Consuming'
  BY DEF Consuming, Counters
<1>5. Distinct'
  BY DEF Distinct, Inside
<1>6. Filled'
  BY DEF Filled
<1>7. Free'
  BY DEF Free
<1> QED
  BY <1>1, <1>2, <1>3, <1>4, <1>5, <1>6, <1>7

(* Reading the sequence of the cell keeps the invariant: it is what the    *)
(* compare-and-swap relies on.                                              *)
LEMMA PushSequenceIInv ==
  ASSUME IInv, NEW p \in Producer, PushSequence(p)
  PROVE  IInv'
<1> USE MpmcQueueAssumption DEF IInv, PushSequence, Go, CellOf, Types, PushSteps, PopSteps, Thread
<1>1. Types'
  BY DEF Types, Value
<1>2. Counters'
  BY DEF Counters
<1>3. Producing'
  BY DEF Producing, Counters
<1>4. Consuming'
  BY DEF Consuming, Counters
<1>5. Distinct'
  BY DEF Distinct, Inside
<1>6. Filled'
  BY DEF Filled
<1>7. Free'
  BY DEF Free
<1> QED
  BY <1>1, <1>2, <1>3, <1>4, <1>5, <1>6, <1>7

(* Reading dequeue_pos keeps the invariant. *)
LEMMA PopLoadIInv ==
  ASSUME IInv, NEW c \in Consumer, PopLoad(c)
  PROVE  IInv'
<1> USE MpmcQueueAssumption DEF IInv, PopLoad, Go, CellOf, Types, PushSteps, PopSteps, Thread
<1>1. Types'
  BY DEF Types, Value
<1>2. Counters'
  BY DEF Counters
<1>3. Producing'
  BY DEF Producing, Counters
<1>4. Consuming'
  BY DEF Consuming, Counters
<1>5. Distinct'
  BY DEF Distinct, Inside
<1>6. Filled'
  BY DEF Filled
<1>7. Free'
  BY DEF Free
<1> QED
  BY <1>1, <1>2, <1>3, <1>4, <1>5, <1>6, <1>7

(* Reading the sequence keeps the invariant for a consumer, too. *)
LEMMA PopSequenceIInv ==
  ASSUME IInv, NEW c \in Consumer, PopSequence(c)
  PROVE  IInv'
<1> USE MpmcQueueAssumption DEF IInv, PopSequence, Go, CellOf, Types, PushSteps, PopSteps, Thread
<1>1. Types'
  BY DEF Types, Value
<1>2. Counters'
  BY DEF Counters
<1>3. Producing'
  BY DEF Producing, Counters
<1>4. Consuming'
  BY DEF Consuming, Counters
<1>5. Distinct'
  BY DEF Distinct, Inside
<1>6. Filled'
  BY DEF Filled
<1>7. Free'
  BY DEF Free
<1> QED
  BY <1>1, <1>2, <1>3, <1>4, <1>5, <1>6, <1>7

(* Writing the item touches no cell another thread is in. *)
LEMMA ConstructIInv ==
  ASSUME IInv, NEW p \in Producer, Construct(p)
  PROVE  IInv'
<1> DEFINE k == index_of(pos[p])
<1>1. Inside(p) /\ p \in Thread /\ pc[p] = "construct"
  BY DEF Construct, Inside, Thread
<1>2. k \in Cell /\ p \notin Consumer
  BY IndexCell, MpmcQueueAssumption DEF IInv, Types, Thread
<1>3. \A t \in Thread : Inside(t) /\ t # p => index_of(pos[t]) # k
  BY <1>1, InsideApart
<1>4. \A q \in Nat : dequeue_pos <= q /\ q < enqueue_pos /\ q # pos[p] => index_of(q) # k
  BY <1>1, FilledApart
<1>5. sequence[k] = pos[p]
  BY <1>1 DEF IInv, Producing
<1> HIDE DEF k
<1>s. /\ storage' = [storage EXCEPT ![k] = <<p, sent[p] + 1>>]
      /\ pc' = [pc EXCEPT ![p] = "publish"]
      /\ UNCHANGED <<enqueue_pos, dequeue_pos, sequence, pos, sent, held, log, received>>
  BY DEF Construct, Go, CellOf, k
<1>v. <<p, sent[p] + 1>> \in Value
  <2>1. sent[p] \in 0..Items /\ sent[p] < Items
    BY <1>1 DEF IInv, Types
  <2> QED
    BY <2>1, MpmcQueueAssumption DEF Value
<1>t. Types'
  BY <1>1, <1>2, <1>s, <1>v DEF IInv, Types, PushSteps, PopSteps
<1>c. Counters'
  BY <1>s DEF IInv, Counters
<1>p. Producing'
  BY <1>1, <1>2, <1>3, <1>s DEF IInv, Types, Producing, Inside, Thread, k
<1>o. Consuming'
  BY <1>1, <1>2, <1>3, <1>s DEF IInv, Types, Consuming, Inside, Thread
<1>d. Distinct'
  BY <1>1, <1>s DEF IInv, Types, Distinct, Inside
<1>f. Filled'
  BY <1>2, <1>4, <1>5, <1>s DEF IInv, Types, Filled, k
<1>e. Free'
  BY <1>s DEF IInv, Free
<1> QED
  BY <1>t, <1>c, <1>p, <1>o, <1>d, <1>f, <1>e DEF IInv

(* Storing the sequence hands the filled cell to the consumers. *)
LEMMA PublishIInv ==
  ASSUME IInv, NEW p \in Producer, Publish(p)
  PROVE  IInv'
<1> DEFINE k == index_of(pos[p])
<1>1. Inside(p) /\ p \in Thread /\ pc[p] = "publish"
  BY DEF Publish, Inside, Thread
<1>2. k \in Cell /\ p \notin Consumer
  BY IndexCell, MpmcQueueAssumption DEF IInv, Types, Thread
<1>3. \A t \in Thread : Inside(t) /\ t # p => index_of(pos[t]) # k
  BY <1>1, InsideApart
<1>4. \A q \in Nat : dequeue_pos <= q /\ q < enqueue_pos /\ q # pos[p] => index_of(q) # k
  BY <1>1, FilledApart
<1>5. \A q \in Nat : enqueue_pos <= q /\ q < dequeue_pos + Capacity => index_of(q) # k
  <2> SUFFICES ASSUME NEW q \in Nat, enqueue_pos <= q, q < dequeue_pos + Capacity, index_of(q) = k
               PROVE  FALSE
    OBVIOUS
  <2>1. pos[p] < dequeue_pos
    BY <1>1, FreeApart
  <2>2. dequeue_pos <= pos[p]
    BY <1>1 DEF IInv, Producing
  <2> QED
    BY <1>1, <2>1, <2>2 DEF IInv, Types
<1>6. \A t \in Thread : /\ pc[t] = "cas"
                        /\ t \in Producer => pos[t] = enqueue_pos
                        /\ t \in Consumer => pos[t] = dequeue_pos
                        => index_of(pos[t]) # k
  BY <1>1, CasApart
<1>7. storage[k] = log[pos[p] + 1]
  BY <1>1 DEF IInv, Producing
<1>8. \A t \in Producer : t \notin Consumer
  BY MpmcQueueAssumption
<1> HIDE DEF k
<1>s. /\ sequence' = [sequence EXCEPT ![k] = pos[p] + 1]
      /\ sent' = [sent EXCEPT ![p] = @ + 1]
      /\ pc' = [pc EXCEPT ![p] = "load"]
      /\ UNCHANGED <<enqueue_pos, dequeue_pos, storage, pos, held, log, received>>
  BY DEF Publish, Go, CellOf, k
<1>t. Types'
  BY <1>1, <1>2, <1>s, MpmcQueueAssumption DEF IInv, Types, PushSteps, PopSteps
<1>c. Counters'
  BY <1>s DEF IInv, Counters
<1>p. Producing'
  BY <1>1, <1>2, <1>3, <1>6, <1>8, <1>s, IndexCell DEF IInv, Types, Producing, Inside, Thread
<1>o. Consuming'
  BY <1>1, <1>2, <1>3, <1>6, <1>8, <1>s, IndexCell DEF IInv, Types, Consuming, Inside, Thread
<1>d. Distinct'
  BY <1>1, <1>s DEF IInv, Types, Distinct, Inside
<1>f. Filled'
  BY <1>2, <1>4, <1>7, <1>s, IndexCell DEF IInv, Types, Filled, k
<1>e. Free'
  BY <1>2, <1>5, <1>s, IndexCell DEF IInv, Types, Free
<1> QED
  BY <1>t, <1>c, <1>p, <1>o, <1>d, <1>f, <1>e DEF IInv

(* Moving the item out touches no cell another thread is in. *)
LEMMA TakeIInv ==
  ASSUME IInv, NEW c \in Consumer, Take(c)
  PROVE  IInv'
<1> DEFINE k == index_of(pos[c])
<1>1. Inside(c) /\ c \in Thread /\ pc[c] = "take"
  BY DEF Take, Inside, Thread
<1>2. k \in Cell /\ c \notin Producer
  BY IndexCell, MpmcQueueAssumption DEF IInv, Types, Thread
<1>3. \A t \in Thread : Inside(t) /\ t # c => index_of(pos[t]) # k
  BY <1>1, InsideApart
<1>4. pos[c] < dequeue_pos /\ storage[k] = log[pos[c] + 1]
  BY <1>1 DEF IInv, Consuming
<1>5. \A q \in Nat : dequeue_pos <= q /\ q < enqueue_pos => index_of(q) # k
  BY <1>1, <1>4, FilledApart DEF IInv, Types
<1> HIDE DEF k
<1>s. /\ held' = [held EXCEPT ![c] = storage[k]]
      /\ storage' = [storage EXCEPT ![k] = Nothing]
      /\ pc' = [pc EXCEPT ![c] = "release"]
      /\ UNCHANGED <<enqueue_pos, dequeue_pos, sequence, pos, sent, log, received>>
  BY DEF Take, Go, CellOf, k
<1>t. Types'
  BY <1>1, <1>2, <1>s DEF IInv, Types, PushSteps, PopSteps
<1>c. Counters'
  BY <1>s DEF IInv, Counters
<1>p. Producing'
  BY <1>1, <1>2, <1>3, <1>s DEF IInv, Types, Producing, Inside, Thread
<1>o. Consuming'
  BY <1>1, <1>2, <1>3, <1>4, <1>s DEF IInv, Types, Consuming, Inside, Thread
<1>d. Distinct'
  BY <1>1, <1>s DEF IInv, Types, Distinct, Inside
<1>f. Filled'
  BY <1>2, <1>5, <1>s, IndexCell DEF IInv, Types, Filled
<1>e. Free'
  BY <1>s DEF IInv, Free
<1> QED
  BY <1>t, <1>c, <1>p, <1>o, <1>d, <1>f, <1>e DEF IInv

(* Storing the sequence of the next round hands the cell to the producers. *)
LEMMA ReleaseIInv ==
  ASSUME IInv, NEW c \in Consumer, Release(c)
  PROVE  IInv'
<1> DEFINE k == index_of(pos[c])
<1>1. Inside(c) /\ c \in Thread /\ pc[c] = "release"
  BY DEF Release, Inside, Thread
<1>2. k \in Cell /\ c \notin Producer
  BY IndexCell, MpmcQueueAssumption DEF IInv, Types, Thread
<1>3. \A t \in Thread : Inside(t) /\ t # c => index_of(pos[t]) # k
  BY <1>1, InsideApart
<1>4. pos[c] < dequeue_pos /\ held[c] = log[pos[c] + 1]
  BY <1>1 DEF IInv, Consuming
<1>5. \A q \in Nat : dequeue_pos <= q /\ q < enqueue_pos => index_of(q) # k
  BY <1>1, <1>4, FilledApart DEF IInv, Types
<1>6. \A t \in Thread : /\ pc[t] = "cas"
                        /\ t \in Producer => pos[t] = enqueue_pos
                        /\ t \in Consumer => pos[t] = dequeue_pos
                        => index_of(pos[t]) # k
  BY <1>1, CasApart
<1>7. \A q \in Nat : enqueue_pos <= q /\ q < dequeue_pos + Capacity /\ index_of(q) = k
                     => q = pos[c] + Capacity
  BY <1>1, FreeApart
<1>8. \A t \in Producer : t \notin Consumer
  BY MpmcQueueAssumption
<1>9. held[c] \in Value
  <2>1. pos[c] + 1 \in 1..Len(log)
    BY <1>1, <1>4 DEF IInv, Types, Counters
  <2> QED
    BY <1>4, <2>1 DEF IInv, Types
<1> HIDE DEF k
<1>s. /\ sequence' = [sequence EXCEPT ![k] = pos[c] + Capacity]
      /\ received' = received \cup {held[c]}
      /\ pc' = [pc EXCEPT ![c] = "load"]
      /\ UNCHANGED <<enqueue_pos, dequeue_pos, storage, pos, sent, held, log>>
  BY DEF Release, Go, CellOf, k
<1>t. Types'
  BY <1>1, <1>2, <1>9, <1>s, MpmcQueueAssumption DEF IInv, Types, PushSteps, PopSteps
<1>c. Counters'
  BY <1>s DEF IInv, Counters
<1>p. Producing'
  BY <1>1, <1>2, <1>3, <1>6, <1>8, <1>s, IndexCell DEF IInv, Types, Producing, Inside, Thread
<1>o. Consuming'
  BY <1>1, <1>2, <1>3, <1>6, <1>8, <1>s, IndexCell DEF IInv, Types, Consuming, Inside, Thread
<1>d. Distinct'
  BY <1>1, <1>s DEF IInv, Types, Distinct, Inside
<1>f. Filled'
  BY <1>2, <1>5, <1>s, IndexCell DEF IInv, Types, Filled
<1>e. Free'
  BY <1>2, <1>7, <1>s, IndexCell DEF IInv, Types, Free
<1> QED
  BY <1>t, <1>c, <1>p, <1>o, <1>d, <1>f, <1>e DEF IInv

(* What a producer that wins the compare-and-swap relies on: its cell is   *)
(* free, so the queue is not full and no consumer is left in the cell.     *)
LEMMA PushWins ==
  ASSUME IInv, NEW p \in Producer, pc[p] = "cas", pos[p] = enqueue_pos
  PROVE  /\ sequence[index_of(enqueue_pos)] = enqueue_pos
         /\ enqueue_pos < dequeue_pos + Capacity
         /\ \A c \in Consumer : Inside(c) => enqueue_pos + 1 <= pos[c] + Capacity
<1>1. sequence[index_of(enqueue_pos)] = enqueue_pos
  BY DEF IInv, Producing
<1>2. enqueue_pos < dequeue_pos + Capacity
  <2> SUFFICES ASSUME enqueue_pos = dequeue_pos + Capacity PROVE FALSE
    BY MpmcQueueAssumption DEF IInv, Types, Counters
  <2>1. sequence[index_of(dequeue_pos)] = dequeue_pos + Capacity
    BY <1>1, IndexNext DEF IInv, Types
  <2>2. sequence[index_of(dequeue_pos)] \in {dequeue_pos, dequeue_pos + 1}
    BY MpmcQueueAssumption DEF IInv, Types, Filled
  <2> QED
    BY <2>1, <2>2, MpmcQueueAssumption DEF IInv, Types
<1>3. ASSUME NEW c \in Consumer, Inside(c)
      PROVE  enqueue_pos + 1 <= pos[c] + Capacity
  <2>1. c \in Thread /\ p \in Thread /\ p \notin Consumer
    BY MpmcQueueAssumption DEF Thread
  <2>2. index_of(enqueue_pos) # index_of(pos[c])
    BY <1>3, <2>1, CasApart
  <2>3. pos[c] \in Nat /\ enqueue_pos <= pos[c] + Capacity
    BY <1>3, <2>1, InsideWindow
  <2>4. enqueue_pos # pos[c] + Capacity
    BY <2>2, <2>3, IndexNext
  <2>5. enqueue_pos \in Nat
    BY DEF IInv, Types
  <2> QED
    BY <2>3, <2>4, <2>5, MpmcQueueAssumption
<1> QED
  BY <1>1, <1>2, <1>3

(* The compare-and-swap of enqueue_pos keeps the invariant. *)
LEMMA PushCasIInv ==
  ASSUME IInv, NEW p \in Producer, PushCas(p)
  PROVE  IInv'
<1>1. CASE enqueue_pos # pos[p]
  <2>1. /\ pos' = [pos EXCEPT ![p] = enqueue_pos]
        /\ pc' = [pc EXCEPT ![p] = "sequence"]
        /\ UNCHANGED <<enqueue_pos, dequeue_pos, sequence, storage, sent, held, log, received>>
        /\ pc[p] = "cas" /\ p \in Thread /\ p \notin Consumer
    BY <1>1, MpmcQueueAssumption DEF PushCas, Go, Thread
  <2>2. Types'
    BY <2>1 DEF IInv, Types, PushSteps, PopSteps
  <2>3. Counters' /\ Filled' /\ Free'
    BY <2>1 DEF IInv, Counters, Filled, Free
  <2>4. Producing'
    BY <2>1 DEF IInv, Types, Producing, Thread
  <2>5. Consuming'
    BY <2>1 DEF IInv, Types, Consuming, Thread
  <2>6. Distinct'
    BY <2>1 DEF IInv, Types, Distinct, Inside
  <2> QED
    BY <2>2, <2>3, <2>4, <2>5, <2>6 DEF IInv
<1>2. CASE enqueue_pos = pos[p]
  <2> DEFINE v == <<p, sent[p] + 1>>
  <2>1. /\ enqueue_pos' = enqueue_pos + 1
        /\ log' = Append(log, v)
        /\ pc' = [pc EXCEPT ![p] = "construct"]
        /\ UNCHANGED <<dequeue_pos, sequence, storage, pos, sent, held, received>>
        /\ pc[p] = "cas" /\ p \in Thread /\ p \notin Consumer
    BY <1>2, MpmcQueueAssumption DEF PushCas, Go, Thread
  <2>2. /\ sequence[index_of(enqueue_pos)] = enqueue_pos
        /\ enqueue_pos < dequeue_pos + Capacity
        /\ \A c \in Consumer : Inside(c) => enqueue_pos + 1 <= pos[c] + Capacity
    BY <1>2, <2>1, PushWins
  <2>3. v \in Value
    <3>1. sent[p] \in 0..Items /\ sent[p] < Items
      BY <2>1 DEF IInv, Types
    <3> QED
      BY <3>1, MpmcQueueAssumption DEF Value
  <2> HIDE DEF v
  <2>4. /\ Len(log') = Len(log) + 1 /\ log'[Len(log) + 1] = v
        /\ \A i \in 1..Len(log) : log'[i] = log[i]
        /\ log' \in Seq(Value)
    BY <2>1, <2>3, AppendProperties DEF IInv, Types
  <2>5. Len(log) = enqueue_pos /\ enqueue_pos \in Nat /\ dequeue_pos \in Nat /\ dequeue_pos <= enqueue_pos
    BY DEF IInv, Types, Counters
  <2>t. Types'
    BY <2>1, <2>4, <2>5 DEF IInv, Types, PushSteps, PopSteps
  <2>c. Counters'
    BY <2>1, <2>2, <2>4, <2>5, MpmcQueueAssumption DEF Counters
  <2>p. Producing'
    BY <1>2, <2>1, <2>2, <2>4, <2>5 DEF IInv, Types, Producing, Thread, v
  <2>o. Consuming'
    BY <2>1, <2>2, <2>4, <2>5 DEF IInv, Types, Consuming, Thread, Inside
  <2>d. Distinct'
    <3>1. \A t \in Thread : Inside(t) => pos[t] \in Nat /\ pos[t] < enqueue_pos
      BY InsideWindow
    <3> QED
      BY <1>2, <2>1, <2>5, <3>1 DEF IInv, Types, Distinct, Inside
  <2>f. Filled'
    BY <2>1, <2>2, <2>4, <2>5 DEF IInv, Types, Filled
  <2>e. Free'
    BY <2>1, <2>5 DEF IInv, Free
  <2> QED
    BY <2>t, <2>c, <2>p, <2>o, <2>d, <2>f, <2>e DEF IInv
<1> QED
  BY <1>1, <1>2

(* What a consumer that wins relies on: the cell is filled with its item   *)
(* and the producer has left it.                                           *)
LEMMA PopWins ==
  ASSUME IInv, NEW c \in Consumer, pc[c] = "cas", pos[c] = dequeue_pos
  PROVE  /\ sequence[index_of(dequeue_pos)] = dequeue_pos + 1
         /\ dequeue_pos < enqueue_pos
         /\ storage[index_of(dequeue_pos)] = log[dequeue_pos + 1]
         /\ \A p \in Producer : Inside(p) => dequeue_pos < pos[p]
<1>1. sequence[index_of(dequeue_pos)] = dequeue_pos + 1
  BY DEF IInv, Consuming
<1>2. dequeue_pos < enqueue_pos
  <2> SUFFICES ASSUME enqueue_pos = dequeue_pos PROVE FALSE
    BY DEF IInv, Types, Counters
  <2>1. sequence[index_of(dequeue_pos)] \in {dequeue_pos, dequeue_pos + 1 - Capacity}
    BY MpmcQueueAssumption DEF IInv, Types, Free
  <2> QED
    BY <1>1, <2>1, MpmcQueueAssumption DEF IInv, Types
<1>3. storage[index_of(dequeue_pos)] = log[dequeue_pos + 1]
  BY <1>1, <1>2 DEF IInv, Types, Filled
<1>4. ASSUME NEW p \in Producer, Inside(p)
      PROVE  dequeue_pos < pos[p]
  <2>1. dequeue_pos <= pos[p] /\ sequence[index_of(pos[p])] = pos[p]
    BY <1>4 DEF IInv, Types, Producing, Inside, PushSteps
  <2> QED
    BY <1>1, <2>1 DEF IInv, Types, Thread
<1> QED
  BY <1>1, <1>2, <1>3, <1>4

(* The compare-and-swap of dequeue_pos keeps the invariant. *)
LEMMA PopCasIInv ==
  ASSUME IInv, NEW c \in Consumer, PopCas(c)
  PROVE  IInv'
<1>1. CASE dequeue_pos # pos[c]
  <2>1. /\ pos' = [pos EXCEPT ![c] = dequeue_pos]
        /\ pc' = [pc EXCEPT ![c] = "sequence"]
        /\ UNCHANGED <<enqueue_pos, dequeue_pos, sequence, storage, sent, held, log, received>>
        /\ pc[c] = "cas" /\ c \in Thread /\ c \notin Producer
    BY <1>1, MpmcQueueAssumption DEF PopCas, Go, Thread
  <2>2. Types'
    BY <2>1 DEF IInv, Types, PushSteps, PopSteps
  <2>3. Counters' /\ Filled' /\ Free'
    BY <2>1 DEF IInv, Counters, Filled, Free
  <2>4. Producing'
    BY <2>1 DEF IInv, Types, Producing, Thread
  <2>5. Consuming'
    BY <2>1 DEF IInv, Types, Consuming, Thread
  <2>6. Distinct'
    BY <2>1 DEF IInv, Types, Distinct, Inside
  <2> QED
    BY <2>2, <2>3, <2>4, <2>5, <2>6 DEF IInv
<1>2. CASE dequeue_pos = pos[c]
  <2>1. /\ dequeue_pos' = dequeue_pos + 1
        /\ pc' = [pc EXCEPT ![c] = "take"]
        /\ UNCHANGED <<enqueue_pos, sequence, storage, pos, sent, held, log, received>>
        /\ pc[c] = "cas" /\ c \in Thread /\ c \notin Producer
    BY <1>2, MpmcQueueAssumption DEF PopCas, Go, Thread
  <2>2. /\ sequence[index_of(dequeue_pos)] = dequeue_pos + 1
        /\ dequeue_pos < enqueue_pos
        /\ storage[index_of(dequeue_pos)] = log[dequeue_pos + 1]
        /\ \A p \in Producer : Inside(p) => dequeue_pos < pos[p]
    BY <1>2, <2>1, PopWins
  <2>3. enqueue_pos \in Nat /\ dequeue_pos \in Nat /\ enqueue_pos <= dequeue_pos + Capacity
    BY DEF IInv, Types, Counters
  <2>t. Types'
    BY <2>1, <2>3 DEF IInv, Types, PushSteps, PopSteps
  <2>c. Counters'
    BY <2>1, <2>2, <2>3, MpmcQueueAssumption DEF IInv, Counters
  <2>p. Producing'
    BY <2>1, <2>2, <2>3 DEF IInv, Types, Producing, Thread, Inside
  <2>o. Consuming'
    BY <1>2, <2>1, <2>2, <2>3 DEF IInv, Types, Consuming, Thread
  <2>d. Distinct'
    <3>1. \A t \in Consumer : Inside(t) => pos[t] < dequeue_pos
      BY DEF IInv, Types, Consuming, Inside, PopSteps
    <3>2. \A t \in Thread : Inside(t) => pos[t] # dequeue_pos
      BY <2>2, <2>3, <3>1 DEF IInv, Types, Thread
    <3> QED
      BY <1>2, <2>1, <3>2 DEF IInv, Types, Distinct, Inside
  <2>f. Filled'
    BY <2>1, <2>3 DEF IInv, Filled
  <2>e. Free'
    <3> SUFFICES ASSUME NEW q \in Nat, enqueue_pos <= q, q < dequeue_pos + 1 + Capacity
                 PROVE  sequence[index_of(q)] \in {q, q + 1 - Capacity}
      BY <2>1 DEF Free
    <3>1. CASE q < dequeue_pos + Capacity
      BY <3>1 DEF IInv, Free
    <3>2. CASE q = dequeue_pos + Capacity
      BY <3>2, <2>2, <2>3, IndexNext, MpmcQueueAssumption
    <3> QED
      BY <3>1, <3>2, <2>3, MpmcQueueAssumption
  <2> QED
    BY <2>t, <2>c, <2>p, <2>o, <2>d, <2>f, <2>e DEF IInv
<1> QED
  BY <1>1, <1>2

-----------------------------------------------------------------------------
(* Theorems *)

(* An empty queue satisfies the invariant. *)
LEMMA InitIInv == Init => IInv
<1> SUFFICES ASSUME Init PROVE IInv
  OBVIOUS
<1> USE MpmcQueueAssumption DEF Init
<1>2. Types
  <2>1. sequence \in [Cell -> Nat]
    BY DEF Cell
  <2>2. sent \in [Producer -> 0..Items] /\ pos \in [Thread -> Nat]
    OBVIOUS
  <2>3. pc \in [Thread -> PushSteps \cup PopSteps]
    BY DEF PushSteps
  <2>4. /\ \A p \in Producer : pc[p] \in PushSteps
        /\ \A c \in Consumer : pc[c] \in PopSteps
        /\ \A p \in Producer : pc[p] # "load" => sent[p] < Items
    BY DEF PushSteps, PopSteps, Thread
  <2>5. log \in Seq(Value) /\ received \subseteq Value
    OBVIOUS
  <2>6. /\ storage \in [Cell -> Value \cup {Nothing}]
        /\ held \in [Consumer -> Value \cup {Nothing}]
    OBVIOUS
  <2> QED
    BY <2>1, <2>2, <2>3, <2>4, <2>5, <2>6 DEF Types
<1>3. Counters /\ Filled
  BY DEF Counters, Filled
<1>4. Producing /\ Consuming /\ Distinct
  BY DEF Producing, Consuming, Distinct, Inside, Thread
<1>5. Free
  BY IndexFirst DEF Free
<1> QED
  BY <1>2, <1>3, <1>4, <1>5 DEF IInv

(* Every atomic access of every thread preserves the invariant. *)
LEMMA NextIInv == IInv /\ [Next]_vars => IInv'
<1> SUFFICES ASSUME IInv, [Next]_vars PROVE IInv'
  OBVIOUS
<1>1. CASE UNCHANGED vars
  BY <1>1 DEF vars, IInv, Types, Counters, Producing, Consuming, Distinct, Inside, Filled, Free
<1>2. ASSUME NEW p \in Producer, try_emplace_impl(p) PROVE IInv'
  BY <1>2, PushLoadIInv, PushSequenceIInv, PushCasIInv, ConstructIInv, PublishIInv
     DEF try_emplace_impl
<1>3. ASSUME NEW c \in Consumer, try_pop(c) PROVE IInv'
  BY <1>3, PopLoadIInv, PopSequenceIInv, PopCasIInv, TakeIInv, ReleaseIInv DEF try_pop
<1> QED
  BY <1>1, <1>2, <1>3 DEF Next

(* The invariant holds in every interleaving of the accesses. *)
THEOREM IInvInvariant == Spec => []IInv
  BY InitIInv, NextIInv, PTL DEF Spec

(* Type correctness: in particular, whatever try_pop returns was pushed. *)
THEOREM TypeCorrect == Spec => []TypeOK
<1>1. IInv => TypeOK
  BY DEF IInv, Types, TypeOK, PushSteps, PopSteps
<1> QED
  BY <1>1, IInvInvariant, PTL

(* No two threads are ever inside the same cell, for any number of threads *)
(* and any capacity of two or more.                                        *)
THEOREM CellsExclusive == Spec => []CellExclusive
<1>1. IInv => CellExclusive
  BY InsideApart DEF CellExclusive, Inside, CellOf
<1> QED
  BY <1>1, IInvInvariant, PTL

(* A consumer returns the item pushed at the position it has won. *)
THEOREM ItemsIntact == Spec => []TakesItsItem
<1>1. IInv => TakesItsItem
  BY DEF IInv, Types, Counters, Consuming, TakesItsItem, Thread
<1> QED
  BY <1>1, IInvInvariant, PTL

(* A step of the queue is a step of the bounded FIFO, or leaves it alone.  *)
LEMMA StepRefines ==
  IInv /\ [Next]_vars => [Fifo!Next]_(SubSeq(log, dequeue_pos + 1, enqueue_pos))
<1> DEFINE bar == SubSeq(log, dequeue_pos + 1, enqueue_pos)
<1> SUFFICES ASSUME IInv, [Next]_vars PROVE Fifo!Next \/ bar' = bar
  OBVIOUS
<1>0. /\ enqueue_pos \in Nat /\ dequeue_pos \in Nat /\ dequeue_pos <= enqueue_pos
      /\ log \in Seq(Value) /\ Len(log) = enqueue_pos
  BY DEF IInv, Types, Counters
<1>1. CASE UNCHANGED <<log, dequeue_pos, enqueue_pos>>
  BY <1>1
<1>2. ASSUME NEW p \in Producer, PushCas(p), enqueue_pos = pos[p]
      PROVE  Fifo!Next
  <2> DEFINE v == <<p, sent[p] + 1>>
  <2>1. enqueue_pos' = enqueue_pos + 1 /\ log' = Append(log, v) /\ dequeue_pos' = dequeue_pos
    BY <1>2 DEF PushCas
  <2>2. pc[p] = "cas" /\ enqueue_pos < dequeue_pos + Capacity
    BY <1>2, PushWins DEF PushCas
  <2>3. v \in Value
    <3>1. sent[p] \in 0..Items /\ sent[p] < Items
      BY <2>2 DEF IInv, Types
    <3> QED
      BY <3>1, MpmcQueueAssumption DEF Value
  <2> HIDE DEF v
  <2>4. Len(bar) < Capacity
    BY <1>0, <2>2, MpmcQueueAssumption, SubSeqProperties
  <2>5. bar' = Append(bar, v)
    BY <1>0, <2>1, <2>3
  <2> QED
    BY <2>3, <2>4, <2>5 DEF Fifo!Next, Fifo!Push
<1>3. ASSUME NEW c \in Consumer, PopCas(c), dequeue_pos = pos[c]
      PROVE  Fifo!Next
  <2>1. dequeue_pos' = dequeue_pos + 1 /\ log' = log /\ enqueue_pos' = enqueue_pos
    BY <1>3 DEF PopCas
  <2>2. dequeue_pos < enqueue_pos
    BY <1>3, PopWins DEF PopCas
  <2>3. bar # <<>> /\ bar' = Tail(bar)
    BY <1>0, <2>1, <2>2
  <2> QED
    BY <2>3 DEF Fifo!Next, Fifo!Pop
<1> QED
  BY <1>1, <1>2, <1>3
     DEF Next, vars, try_emplace_impl, try_pop, PushLoad, PushSequence, PushCas, Construct,
         Publish, PopLoad, PopSequence, PopCas, Take, Release

(* The queue implements the bounded FIFO: values leave in the order they   *)
(* entered, each once, and never more than Capacity are inside.            *)
THEOREM QueueIsFifo == Spec => IsFifo
<1>1. Init => Fifo!Init
  BY DEF Init, Fifo!Init
<1> QED
  BY <1>1, StepRefines, IInvInvariant, PTL DEF Spec, IsFifo, Fifo!Spec
=============================================================================
