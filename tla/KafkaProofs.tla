----------------------------- MODULE KafkaProofs -----------------------------
(***************************************************************************)
(* Proofs about the components around Kafka, each for any number of        *)
(* messages, nodes, instances and faults: the edge pipeline, and then      *)
(* KafkaBroadcastSource and business_service, which have variables of the  *)
(* same names; each theorem is about one of them.                          *)
(***************************************************************************)
EXTENDS EdgePipeline, FiniteSetTheorems, TLAPS

-----------------------------------------------------------------------------
(* Sizes of finite sets *)

(* A set of nodes within another has no more members. *)
LEMMA SubsetSize ==
  ASSUME NEW S, IsFiniteSet(S), NEW T, T \subseteq S
  PROVE  /\ IsFiniteSet(T)
         /\ Cardinality(T) <= Cardinality(S)
         /\ Cardinality(T) \in Nat /\ Cardinality(S) \in Nat
<1>1. T \in SUBSET S
  OBVIOUS
<1>2. IsFiniteSet(T) /\ Cardinality(T) <= Cardinality(S)
  BY <1>1, FS_Subset
<1> QED
  BY <1>2, FS_CardinalityType

(* One more node makes the set larger by one at most. *)
LEMMA AddedSize ==
  ASSUME NEW S, IsFiniteSet(S), NEW x
  PROVE  IsFiniteSet(S \cup {x}) /\ Cardinality(S \cup {x}) <= Cardinality(S) + 1
<1>1. /\ IsFiniteSet(S \cup {x})
      /\ Cardinality(S \cup {x}) = IF x \in S THEN Cardinality(S) ELSE Cardinality(S) + 1
  BY FS_AddElement
<1>2. Cardinality(S) \in Nat
  BY FS_CardinalityType
<1> QED
  BY <1>1, <1>2

-----------------------------------------------------------------------------
(* The edge pipeline *)

(* There are finitely many nodes. *)
LEMMA NodesFinite == Constants => IsFiniteSet(Node)
  BY DEF Constants

EdgeTypes ==
  /\ seen \in [Store -> SUBSET Named]
  /\ write \in [Node -> [Msg -> [at : Step, attempt : 0..1]]]
  /\ \A n \in Node, m \in Msg : write[n][m].at = "seen" => m \in Named
  /\ queue \in [Node -> SUBSET Msg]
  /\ topic \in [Node -> SUBSET Msg]
  /\ used \in [Fault -> Nat]

(* Node n has told Redis of m, or failed to, and m is on its way to Kafka. *)
Carries(n, m) ==
  write[n][m].at \in {"state", "latest", "produce"} \/ m \in queue[n] \cup topic[n]

(* As long as nothing happened that may cost a message, some node carries  *)
(* each message that is marked, and a node that is done with a message has *)
(* handed it on or found the mark.                                         *)
MarkIsCarried ==
  Costly = 0 =>
    /\ \A m \in Msg, s \in Store :
         m \in seen[s] => \E n \in Node : StoreOf[n] = s /\ Carries(n, m)
    /\ \A n \in Node, m \in Msg :
         write[n][m].at = "done" => m \in queue[n] \cup topic[n] \cup seen[StoreOf[n]]

(* The mark lets one of the nodes with this Redis carry the message, and   *)
(* each failure of Redis one more.                                         *)
Carriers(m, s) == {n \in Node : StoreOf[n] = s /\ Carries(n, m)}
Allowed(m, s) == (IF m \in seen[s] THEN 1 ELSE 0) + OfRedis
CarriersBounded == \A m \in Named, s \in Store : Cardinality(Carriers(m, s)) <= Allowed(m, s)

EdgeInv == EdgeTypes /\ MarkIsCarried /\ CarriersBounded

(* No message has been heard of yet. *)
LEMMA EdgeInit == Constants /\ Init => EdgeInv
<1> SUFFICES ASSUME Constants, Init PROVE EdgeInv
  OBVIOUS
<1> USE DEF Constants, Init
<1>1. EdgeTypes /\ MarkIsCarried
  BY DEF EdgeTypes, MarkIsCarried, Step, Command, Fault
<1>2. \A m \in Named, s \in Store : Carriers(m, s) = {}
  BY DEF Carriers, Carries
<1>3. \A m \in Named, s \in Store : Allowed(m, s) = 0
  BY DEF Allowed, OfRedis, Fault
<1>4. Cardinality({}) = 0
  BY FS_EmptySet
<1>5. CarriersBounded
  <2> SUFFICES ASSUME NEW m \in Named, NEW s \in Store
               PROVE  Cardinality(Carriers(m, s)) <= Allowed(m, s)
    BY DEF CarriersBounded
  <2>1. Carriers(m, s) = {} /\ Allowed(m, s) = 0
    BY <1>2, <1>3
  <2> QED
    BY <2>1, <1>4
<1> QED
  BY <1>1, <1>5 DEF EdgeInv

(* Failures are counted, and never forgotten. *)
LEMMA InjectCounts ==
  ASSUME EdgeTypes, NEW f \in Fault, Inject(f)
  PROVE  /\ used' \in [Fault -> Nat]
         /\ f \in {"refused", "error", "request_lost", "reply_lost"}
              => OfRedis' = OfRedis + 1
         /\ f \notin {"refused", "error", "request_lost", "reply_lost"}
              => OfRedis' = OfRedis
         /\ f \in {"reply_lost", "not_produced", "not_delivered", "crash"} => Costly' # 0
         /\ f \notin {"reply_lost", "not_produced", "not_delivered", "crash"}
              => Costly' = Costly
<1>1. used' \in [Fault -> Nat]
  BY DEF EdgeTypes, Inject
<1>2. \A g \in Fault : used'[g] = IF g = f THEN used[g] + 1 ELSE used[g]
  BY DEF EdgeTypes, Inject
<1>3. \A g \in Fault : used[g] \in Nat
  BY DEF EdgeTypes
<1> USE <1>1, <1>2, <1>3 DEF Fault, OfRedis, Costly
<1>4. CASE f = "refused"
  BY <1>4
<1>5. CASE f = "error"
  BY <1>5
<1>6. CASE f = "request_lost"
  BY <1>6
<1>7. CASE f = "reply_lost"
  BY <1>7
<1>8. CASE f = "not_produced"
  BY <1>8
<1>9. CASE f = "not_delivered"
  BY <1>9
<1>10. CASE f = "crash"
  BY <1>10
<1> QED
  BY <1>4, <1>5, <1>6, <1>7, <1>8, <1>9, <1>10

(* Every step of the pipeline and every fault keep the types. *)
LEMMA EdgeTypesStep ==
  ASSUME Constants, EdgeTypes, [Next]_vars
  PROVE  EdgeTypes'
<1> USE DEF Constants, EdgeTypes, Step, Command, Go, At, Mark
<1>f. \A f \in Fault : Inject(f) => used' \in [Fault -> Nat]
  BY InjectCounts
<1>g. {"refused", "error", "request_lost", "reply_lost", "not_produced", "not_delivered", "crash"}
        \subseteq Fault
  BY DEF Fault
<1>1. ASSUME NEW n \in Node, NEW m \in Msg, Begin(n, m) PROVE EdgeTypes'
  BY <1>1 DEF Begin
<1>2. ASSUME NEW n \in Node, NEW m \in Msg, SetSeen(n, m) PROVE EdgeTypes'
  BY <1>2 DEF SetSeen
<1>3. ASSUME NEW n \in Node, NEW m \in Msg, Set(n, m) PROVE EdgeTypes'
  <2>1. CASE Go(n, m, "latest")
    BY <1>3, <2>1 DEF Set
  <2>2. CASE Go(n, m, "produce")
    BY <1>3, <2>2 DEF Set
  <2> QED
    BY <1>3, <2>1, <2>2 DEF Set
<1>4. ASSUME NEW n \in Node, NEW m \in Msg, Refuse(n, m) PROVE EdgeTypes'
  BY <1>4, <1>f, <1>g DEF Refuse, Failed
<1>5. ASSUME NEW n \in Node, NEW m \in Msg, Break(n, m) PROVE EdgeTypes'
  <2>1. used' \in [Fault -> Nat]
    BY <1>5, <1>f, <1>g DEF Break
  <2>2. seen' \in [Store -> SUBSET Named]
    <3>1. CASE UNCHANGED seen
      BY <3>1
    <3>2. CASE At(n, m, "seen") /\ Mark(n, m)
      BY <3>2
    <3> QED
      BY <1>5, <3>1, <3>2 DEF Break
  <2>3. /\ write' \in [Node -> [Msg -> [at : Step, attempt : 0..1]]]
        /\ \A k \in Node, x \in Msg : write'[k][x].at = "seen" => x \in Named
    <3>1. CASE write' = [write EXCEPT ![n][m].attempt = 1]
      <4>1. write[n] \in [Msg -> [at : Step, attempt : 0..1]]
        OBVIOUS
      <4>2. [write[n][m] EXCEPT !.attempt = 1] \in [at : Step, attempt : 0..1]
            /\ [write[n][m] EXCEPT !.attempt = 1].at = write[n][m].at
        BY <4>1
      <4>3. write' = [write EXCEPT ![n] = [write[n] EXCEPT ![m] = [write[n][m] EXCEPT !.attempt = 1]]]
        BY <3>1
      <4> QED
        BY <4>1, <4>2, <4>3
    <3>2. CASE Go(n, m, "produce")
      BY <3>2
    <3> QED
      BY <1>5, <3>1, <3>2 DEF Break, Failed
  <2> QED
    BY <1>5, <2>1, <2>2, <2>3 DEF Break
<1>6. ASSUME NEW n \in Node, NEW m \in Msg, Produce(n, m) PROVE EdgeTypes'
  BY <1>6, <1>f, <1>g DEF Produce
<1>7. ASSUME NEW n \in Node, NEW m \in Msg, Deliver(n, m) PROVE EdgeTypes'
  <2>1. used' \in [Fault -> Nat]
    BY <1>7, <1>f, <1>g DEF Deliver
  <2>2. queue' \in [Node -> SUBSET Msg]
    BY <1>7 DEF Deliver
  <2>3. topic' \in [Node -> SUBSET Msg]
    <3>1. CASE UNCHANGED topic
      BY <3>1
    <3>2. CASE topic' = [topic EXCEPT ![n] = @ \cup {m}]
      BY <3>2
    <3> QED
      BY <1>7, <3>1, <3>2 DEF Deliver
  <2> QED
    BY <1>7, <2>1, <2>2, <2>3 DEF Deliver
<1>8. ASSUME NEW n \in Node, Crash(n) PROVE EdgeTypes'
  BY <1>8, <1>f, <1>g DEF Crash
<1>9. CASE UNCHANGED vars
  BY <1>9 DEF vars
<1> QED
  BY <1>1, <1>2, <1>3, <1>4, <1>5, <1>6, <1>7, <1>8, <1>9 DEF Next, write_edge_data

(* Where each write stands after one of them goes on. *)
LEMMA GoMoves ==
  ASSUME EdgeTypes, NEW n \in Node, NEW m \in Msg, NEW a, Go(n, m, a)
  PROVE  \A k \in Node, x \in Msg :
           write'[k][x].at = IF k = n /\ x = m THEN a ELSE write[k][x].at
  BY DEF EdgeTypes, Go

(* A further attempt leaves a node at the command it is at. *)
LEMMA AttemptStays ==
  ASSUME EdgeTypes, NEW n \in Node, NEW m \in Msg, write' = [write EXCEPT ![n][m].attempt = 1]
  PROVE  \A k \in Node, x \in Msg : write'[k][x].at = write[k][x].at
  BY DEF EdgeTypes

(* A mark in Redis is set by a node that goes on to queue and publish the  *)
(* message, unless a costly fault happens to it.                           *)
LEMMA MarkIsCarriedStep ==
  ASSUME Constants, EdgeTypes, MarkIsCarried, [Next]_vars
  PROVE  MarkIsCarried'
<1> USE DEF Constants
<1>f. {"refused", "error", "request_lost", "reply_lost", "not_produced", "not_delivered", "crash"}
        = Fault
  BY DEF Fault
<1>s. \A n \in Node : StoreOf[n] \in Store /\ queue[n] \subseteq Msg /\ topic[n] \subseteq Msg
  BY DEF EdgeTypes
<1>t. /\ seen \in [Store -> SUBSET Named]
      /\ queue \in [Node -> SUBSET Msg]
      /\ topic \in [Node -> SUBSET Msg]
  BY DEF EdgeTypes
<1>1. ASSUME NEW n \in Node, NEW m \in Msg, Begin(n, m) PROVE MarkIsCarried'
  <2>1. \A k \in Node, x \in Msg : Carries(k, x) => Carries(k, x)'
    BY <1>1, GoMoves DEF Begin, At, Carries
  <2>2. \A k \in Node, x \in Msg : write'[k][x].at = "done" => write[k][x].at = "done"
    BY <1>1, GoMoves DEF Begin
  <2> QED
    BY <1>1, <2>1, <2>2 DEF Begin, MarkIsCarried, Costly
<1>2. ASSUME NEW n \in Node, NEW m \in Msg, SetSeen(n, m) PROVE MarkIsCarried'
  <2>1. \A k \in Node, x \in Msg : Carries(k, x) => Carries(k, x)'
    BY <1>2, GoMoves DEF SetSeen, At, Carries
  <2>2. m \notin seen[StoreOf[n]] => Carries(n, m)'
    BY <1>2, GoMoves DEF SetSeen, Marked, Carries
  <2>3. \A k \in Node, x \in Msg : write'[k][x].at = "done" =>
          write[k][x].at = "done" \/ (k = n /\ x = m)
    BY <1>2, GoMoves DEF SetSeen
  <2>4. /\ seen' = [seen EXCEPT ![StoreOf[n]] = @ \cup {m}]
        /\ Costly' = Costly
        /\ queue' = queue /\ topic' = topic
    BY <1>2 DEF SetSeen, Mark, Costly
  <2> QED
    BY <2>1, <2>2, <2>3, <2>4, <1>s, <1>t DEF MarkIsCarried
<1>3. ASSUME NEW n \in Node, NEW m \in Msg, Set(n, m) PROVE MarkIsCarried'
  <2>1. \A k \in Node, x \in Msg : Carries(k, x) => Carries(k, x)'
    BY <1>3, GoMoves DEF Set, At, Carries
  <2>2. \A k \in Node, x \in Msg : write'[k][x].at = "done" => write[k][x].at = "done"
    BY <1>3, GoMoves DEF Set
  <2> QED
    BY <1>3, <2>1, <2>2 DEF Set, MarkIsCarried, Costly
<1>4. ASSUME NEW n \in Node, NEW m \in Msg, Refuse(n, m) PROVE MarkIsCarried'
  <2>1. \A k \in Node, x \in Msg : Carries(k, x) => Carries(k, x)'
    BY <1>4, GoMoves DEF Refuse, Failed, Carries
  <2>2. \A k \in Node, x \in Msg : write'[k][x].at = "done" => write[k][x].at = "done"
    BY <1>4, GoMoves DEF Refuse, Failed
  <2>3. Costly' = Costly
    BY <1>4, <1>f, InjectCounts DEF Refuse
  <2> QED
    BY <1>4, <2>1, <2>2, <2>3 DEF Refuse, MarkIsCarried
<1>5. ASSUME NEW n \in Node, NEW m \in Msg, Break(n, m) PROVE MarkIsCarried'
  <2>1. CASE Inject("reply_lost")
    BY <2>1, <1>f, InjectCounts DEF MarkIsCarried
  <2>2. CASE Inject("request_lost") /\ UNCHANGED seen
    <3>1. \A k \in Node, x \in Msg : Carries(k, x) => Carries(k, x)'
      BY <1>5, GoMoves, AttemptStays DEF Break, Failed, Carries
    <3>2. \A k \in Node, x \in Msg : write'[k][x].at = "done" => write[k][x].at = "done"
      BY <1>5, GoMoves, AttemptStays DEF Break, Failed
    <3>3. Costly' = Costly
      BY <2>2, <1>f, InjectCounts
    <3> QED
      BY <1>5, <2>2, <3>1, <3>2, <3>3 DEF Break, MarkIsCarried
  <2> QED
    BY <1>5, <2>1, <2>2 DEF Break
<1>6. ASSUME NEW n \in Node, NEW m \in Msg, Produce(n, m) PROVE MarkIsCarried'
  <2>1. CASE Inject("not_produced")
    BY <2>1, <1>f, InjectCounts DEF MarkIsCarried
  <2>2. CASE queue' = [queue EXCEPT ![n] = @ \cup {m}] /\ UNCHANGED used
    <3>1. \A k \in Node, x \in Msg : Carries(k, x) => Carries(k, x)'
      BY <1>6, <1>t, <2>2, GoMoves DEF Produce, Carries
    <3>2. \A k \in Node, x \in Msg : write'[k][x].at = "done" =>
            write[k][x].at = "done" \/ (k = n /\ x = m)
      BY <1>6, GoMoves DEF Produce
    <3>3. Costly' = Costly /\ seen' = seen /\ topic' = topic
      BY <1>6, <2>2 DEF Produce, Costly
    <3>4. m \in queue'[n] /\ \A k \in Node : queue[k] \subseteq queue'[k]
      BY <1>t, <2>2
    <3> QED
      BY <3>1, <3>2, <3>3, <3>4 DEF MarkIsCarried
  <2> QED
    BY <1>6, <2>1, <2>2 DEF Produce
<1>7. ASSUME NEW n \in Node, NEW m \in Msg, Deliver(n, m) PROVE MarkIsCarried'
  <2>1. CASE Inject("not_delivered")
    BY <2>1, <1>f, InjectCounts DEF MarkIsCarried
  <2>2. CASE topic' = [topic EXCEPT ![n] = @ \cup {m}] /\ UNCHANGED used
    <3>1. \A k \in Node : queue'[k] \cup topic'[k] = queue[k] \cup topic[k]
      BY <1>7, <1>t, <2>2 DEF Deliver
    <3>2. Costly' = Costly /\ seen' = seen /\ write' = write
      BY <1>7, <2>2 DEF Deliver, Costly
    <3> QED
      BY <3>1, <3>2 DEF MarkIsCarried, Carries
  <2> QED
    BY <1>7, <2>1, <2>2 DEF Deliver
<1>8. ASSUME NEW n \in Node, Crash(n) PROVE MarkIsCarried'
  BY <1>8, <1>f, InjectCounts DEF Crash, MarkIsCarried
<1>9. CASE UNCHANGED vars
  BY <1>9 DEF vars, MarkIsCarried, Carries, Costly
<1> QED
  BY <1>1, <1>2, <1>3, <1>4, <1>5, <1>6, <1>7, <1>8, <1>9 DEF Next, write_edge_data

(* Whoever joins the carriers of a message has been allowed to. *)
Follows(x, s, n) ==
  \/ Carriers(x, s)' \subseteq Carriers(x, s) /\ Allowed(x, s)' >= Allowed(x, s)
  \/ Carriers(x, s)' \subseteq Carriers(x, s) \cup {n} /\ Allowed(x, s)' >= Allowed(x, s) + 1

(* What a step must do to the carriers of a message to keep them within    *)
(* the faults.                                                             *)
LEMMA FollowsSuffices ==
  ASSUME Constants, EdgeTypes, EdgeTypes', CarriersBounded, NEW n,
         \A x \in Named, s \in Store : Follows(x, s, n)
  PROVE  CarriersBounded'
<1> SUFFICES ASSUME NEW x \in Named, NEW s \in Store
             PROVE  Cardinality(Carriers(x, s)') <= Allowed(x, s)'
  BY DEF CarriersBounded
<1>1. IsFiniteSet(Carriers(x, s)) /\ IsFiniteSet(Carriers(x, s)')
  <2>1. Carriers(x, s) \subseteq Node /\ Carriers(x, s)' \subseteq Node
    BY DEF Carriers
  <2> QED
    BY <2>1, NodesFinite, SubsetSize
<1>2. Allowed(x, s) \in Int /\ Allowed(x, s)' \in Int
  BY DEF Allowed, EdgeTypes, OfRedis, Fault
<1>3. Cardinality(Carriers(x, s)) \in Nat /\ Cardinality(Carriers(x, s)') \in Nat
  BY <1>1, FS_CardinalityType
<1>4. Cardinality(Carriers(x, s)) <= Allowed(x, s)
  BY DEF CarriersBounded
<1>5. CASE Carriers(x, s)' \subseteq Carriers(x, s) /\ Allowed(x, s)' >= Allowed(x, s)
  <2>1. Cardinality(Carriers(x, s)') <= Cardinality(Carriers(x, s))
    BY <1>1, <1>5, SubsetSize
  <2> QED
    BY <1>2, <1>3, <1>4, <1>5, <2>1
<1>6. CASE Carriers(x, s)' \subseteq Carriers(x, s) \cup {n} /\ Allowed(x, s)' >= Allowed(x, s) + 1
  <2>1. /\ IsFiniteSet(Carriers(x, s) \cup {n})
        /\ Cardinality(Carriers(x, s) \cup {n}) <= Cardinality(Carriers(x, s)) + 1
    BY <1>1, AddedSize
  <2>2. Cardinality(Carriers(x, s)') <= Cardinality(Carriers(x, s) \cup {n})
    BY <1>6, <2>1, SubsetSize
  <2>3. Cardinality(Carriers(x, s) \cup {n}) \in Nat
    BY <2>1, FS_CardinalityType
  <2> QED
    BY <1>2, <1>3, <1>4, <1>6, <2>1, <2>2, <2>3
<1> QED
  BY <1>5, <1>6 DEF Follows

(* A node becomes a carrier of a message by setting the mark that no other *)
(* has set, or by a fault of Redis.                                        *)
LEMMA CarriersBoundedStep ==
  ASSUME Constants, EdgeTypes, CarriersBounded, [Next]_vars
  PROVE  CarriersBounded'
<1>f. {"refused", "error", "request_lost", "reply_lost", "not_produced", "not_delivered", "crash"}
        = Fault
  BY DEF Fault
<1>r. OfRedis \in Nat
  BY DEF EdgeTypes, OfRedis, Fault
<1>t. /\ seen \in [Store -> SUBSET Named]
      /\ queue \in [Node -> SUBSET Msg]
      /\ topic \in [Node -> SUBSET Msg]
      /\ StoreOf \in [Node -> Store]
      /\ Named \subseteq Msg
  BY DEF EdgeTypes, Constants
<1>y. EdgeTypes'
  BY EdgeTypesStep
<1> SUFFICES \E n : \A x \in Named, s \in Store : Follows(x, s, n)
  BY <1>y, FollowsSuffices
<1>1. ASSUME NEW n \in Node, NEW m \in Msg, Begin(n, m)
      PROVE  \A x \in Named, s \in Store : Follows(x, s, n)
  <2>1. \A k \in Node, x \in Named : Carries(k, x)' => Carries(k, x)
    BY <1>1, <1>t, GoMoves DEF Begin, Carries
  <2> QED
    BY <1>1, <1>r, <2>1 DEF Begin, Follows, Carriers, Allowed, OfRedis
<1>2. ASSUME NEW n \in Node, NEW m \in Msg, SetSeen(n, m)
      PROVE  \A x \in Named, s \in Store : Follows(x, s, n)
  <2>1. \A k \in Node, x \in Named : Carries(k, x)' =>
          Carries(k, x) \/ (k = n /\ x = m /\ m \notin seen[StoreOf[n]])
    BY <1>2, <1>t, GoMoves DEF SetSeen, Marked, Carries
  <2>2. seen' = [seen EXCEPT ![StoreOf[n]] = @ \cup {m}] /\ OfRedis' = OfRedis
    BY <1>2 DEF SetSeen, Mark, OfRedis
  <2>3. ASSUME NEW x \in Named, NEW s \in Store, x = m, s = StoreOf[n], m \notin seen[s]
        PROVE  Follows(x, s, n)
    <3>1. Carriers(x, s)' \subseteq Carriers(x, s) \cup {n}
      BY <2>1 DEF Carriers
    <3>2. Allowed(x, s)' = Allowed(x, s) + 1
      BY <2>2, <2>3, <1>r, <1>t DEF Allowed
    <3>3. Allowed(x, s) \in Int
      BY <1>r DEF Allowed
    <3> QED
      BY <3>1, <3>2, <3>3 DEF Follows
  <2>4. ASSUME NEW x \in Named, NEW s \in Store, ~(x = m /\ s = StoreOf[n] /\ m \notin seen[s])
        PROVE  Follows(x, s, n)
    <3>1. Carriers(x, s)' \subseteq Carriers(x, s)
      BY <2>1, <2>4 DEF Carriers
    <3>2. Allowed(x, s)' >= Allowed(x, s)
      BY <2>2, <2>4, <1>r, <1>t DEF Allowed
    <3> QED
      BY <3>1, <3>2 DEF Follows
  <2> QED
    BY <2>3, <2>4
<1>3. ASSUME NEW n \in Node, NEW m \in Msg, Set(n, m)
      PROVE  \A x \in Named, s \in Store : Follows(x, s, n)
  <2>1. \A k \in Node, x \in Named : Carries(k, x)' => Carries(k, x)
    BY <1>3, <1>t, GoMoves DEF Set, At, Carries
  <2> QED
    BY <1>3, <1>r, <2>1 DEF Set, Follows, Carriers, Allowed, OfRedis
<1>4. ASSUME NEW n \in Node, NEW m \in Msg, Refuse(n, m)
      PROVE  \A x \in Named, s \in Store : Follows(x, s, n)
  <2>1. \A k \in Node, x \in Named : Carries(k, x)' => Carries(k, x) \/ k = n
    BY <1>4, <1>t, GoMoves DEF Refuse, Failed, Carries
  <2>2. OfRedis' = OfRedis + 1
    BY <1>4, <1>f, InjectCounts DEF Refuse
  <2> QED
    BY <1>4, <1>r, <2>1, <2>2 DEF Refuse, Follows, Carriers, Allowed
<1>5. ASSUME NEW n \in Node, NEW m \in Msg, Break(n, m)
      PROVE  \A x \in Named, s \in Store : Follows(x, s, n)
  <2>1. \A k \in Node, x \in Named : Carries(k, x)' => Carries(k, x) \/ k = n
    BY <1>5, <1>t, GoMoves, AttemptStays DEF Break, Failed, Carries
  <2>2. OfRedis' = OfRedis + 1
    BY <1>5, <1>f, InjectCounts DEF Break
  <2>3. \A s \in Store : seen[s] \subseteq seen'[s]
    BY <1>5, <1>t DEF Break, Mark
  <2>4. \A x \in Named, s \in Store : Allowed(x, s)' >= Allowed(x, s) + 1
    BY <1>r, <2>2, <2>3 DEF Allowed
  <2>5. \A x \in Named, s \in Store : Carriers(x, s)' \subseteq Carriers(x, s) \cup {n}
    BY <2>1 DEF Carriers
  <2> QED
    BY <2>4, <2>5 DEF Follows
<1>6. ASSUME NEW n \in Node, NEW m \in Msg, Produce(n, m)
      PROVE  \A x \in Named, s \in Store : Follows(x, s, n)
  <2>1. \A k \in Node, x \in Named : Carries(k, x)' => Carries(k, x)
    BY <1>6, <1>t, GoMoves DEF Produce, At, Carries
  <2>2. OfRedis' = OfRedis
    BY <1>6, <1>f, InjectCounts DEF Produce, OfRedis
  <2> QED
    BY <1>6, <1>r, <2>1, <2>2 DEF Produce, Follows, Carriers, Allowed
<1>7. ASSUME NEW n \in Node, NEW m \in Msg, Deliver(n, m)
      PROVE  \A x \in Named, s \in Store : Follows(x, s, n)
  <2>1. \A k \in Node, x \in Named : Carries(k, x)' => Carries(k, x)
    BY <1>7, <1>t DEF Deliver, Carries
  <2>2. OfRedis' = OfRedis
    BY <1>7, <1>f, InjectCounts DEF Deliver, OfRedis
  <2> QED
    BY <1>7, <1>r, <2>1, <2>2 DEF Deliver, Follows, Carriers, Allowed
<1>8. ASSUME NEW n \in Node, Crash(n)
      PROVE  \A x \in Named, s \in Store : Follows(x, s, n)
  <2>1. \A k \in Node, x \in Named : write'[k][x].at \in {write[k][x].at, "done"}
    BY <1>8, <1>t DEF Crash, EdgeTypes
  <2>2. \A k \in Node, x \in Named : Carries(k, x)' => Carries(k, x)
    BY <1>8, <1>t, <2>1 DEF Crash, Carries
  <2>3. OfRedis' = OfRedis
    BY <1>8, <1>f, InjectCounts DEF Crash
  <2> QED
    BY <1>8, <1>r, <2>2, <2>3 DEF Crash, Follows, Carriers, Allowed
<1>9. CASE UNCHANGED vars
  BY <1>9, <1>r DEF vars, Follows, Carriers, Carries, Allowed, OfRedis
<1> QED
  BY <1>1, <1>2, <1>3, <1>4, <1>5, <1>6, <1>7, <1>8, <1>9 DEF Next, write_edge_data

(* The two together are preserved by every step. *)
LEMMA EdgeStep == Constants /\ EdgeInv /\ [Next]_vars => EdgeInv'
  BY EdgeTypesStep, MarkIsCarriedStep, CarriersBoundedStep DEF EdgeInv

(* EdgeDataPipeline: a message that a node took on reaches Kafka, unless a *)
(* reply of Redis was lost, Kafka failed or a node stopped; the other      *)
(* failures of Redis cost no message, although nodes rely on the marks of  *)
(* others.                                                                 *)
THEOREM LossHasCause ==
  ASSUME Constants
  PROVE  Spec => []LossNeedsFault
<1>1. Init => EdgeInv
  BY EdgeInit
<1>2. EdgeInv /\ [Next]_vars => EdgeInv'
  BY EdgeStep
<1>3. EdgeInv => LossNeedsFault
  <2> SUFFICES ASSUME EdgeInv, NEW m \in Msg, Settled(m), \A n \in Node : m \notin topic[n],
                      ~(Costly > 0)
               PROVE  FALSE
    BY DEF LossNeedsFault
  <2>1. Costly = 0
    <3>1. \A f \in Fault : used[f] \in Nat
      BY DEF EdgeInv, EdgeTypes
    <3>2. Costly \in Nat
      BY <3>1 DEF Costly, Fault
    <3> QED
      BY <3>2
  <2>2. PICK n \in Node : write[n][m].at = "done" /\ m \notin queue[n]
    BY DEF Settled, At
  <2>3. m \in seen[StoreOf[n]]
    BY <2>1, <2>2 DEF EdgeInv, MarkIsCarried
  <2>4. PICK k \in Node : Carries(k, m)
    BY <2>1, <2>3 DEF EdgeInv, MarkIsCarried, Constants
  <2> QED
    BY <2>4 DEF Carries, Settled
<1> QED
  BY <1>1, <1>2, <1>3, PTL DEF Spec

(* EdgeDataPipeline: the nodes that share a Redis write one copy of a      *)
(* message to Kafka, and at most one more for each failure of Redis.       *)
THEOREM CopiesHaveCause ==
  ASSUME Constants
  PROVE  Spec => []CopiesNeedFault
<1>1. Init => EdgeInv
  BY EdgeInit
<1>2. EdgeInv /\ [Next]_vars => EdgeInv'
  BY EdgeStep
<1>3. EdgeInv => CopiesNeedFault
  <2> SUFFICES ASSUME EdgeInv, NEW m \in Named, NEW s \in Store
               PROVE  Cardinality({n \in Node : StoreOf[n] = s /\ m \in topic[n] \cup queue[n]})
                        <= 1 + OfRedis
    BY Zenon DEF CopiesNeedFault
  <2> DEFINE Copies == {n \in Node : StoreOf[n] = s /\ m \in topic[n] \cup queue[n]}
  <2>0. Carriers(m, s) \subseteq Node
    BY DEF Carriers
  <2>1. Copies \subseteq Carriers(m, s) /\ IsFiniteSet(Carriers(m, s))
    <3>1. Copies \subseteq Carriers(m, s)
      BY DEF Carriers, Carries
    <3> QED
      BY <3>1, <2>0, NodesFinite, SubsetSize
  <2>2. Cardinality(Copies) <= Cardinality(Carriers(m, s))
        /\ Cardinality(Copies) \in Nat /\ Cardinality(Carriers(m, s)) \in Nat
    BY <2>1, SubsetSize
  <2>3. Cardinality(Carriers(m, s)) <= Allowed(m, s)
    BY DEF EdgeInv, CarriersBounded
  <2>4. OfRedis \in Nat /\ Allowed(m, s) <= 1 + OfRedis
    BY DEF EdgeInv, EdgeTypes, OfRedis, Fault, Allowed
  <2>5. Allowed(m, s) \in Int
    BY <2>4 DEF Allowed
  <2> HIDE DEF Copies
  <2>6. Cardinality(Copies) <= 1 + OfRedis
    BY <2>2, <2>3, <2>4, <2>5
  <2> QED
    BY <2>6 DEF Copies
<1> QED
  BY <1>1, <1>2, <1>3, PTL DEF Spec

-----------------------------------------------------------------------------
(* The consumers *)

CONSTANTS
  Offsets, Instance, Device, DeviceOf, Invalid

VARIABLES
  position, committed, at, faults,
  marked, sent, excused,
  owner, msg, row, upserted

Broadcast == INSTANCE KafkaBroadcast WITH seen <- marked
Business == INSTANCE BusinessService

-----------------------------------------------------------------------------
(* KafkaBroadcastSource *)

(* A message that was broadcast is marked.  A marked message, and one the  *)
(* consumer has been given, is dealt with, except for the one the worker   *)
(* has in hand.                                                            *)
BroadcastInv ==
  /\ Broadcast!TypeOK
  /\ Broadcast!CopiesBounded
  /\ Broadcast!CommittedIsDone
  /\ \A m \in Broadcast!Message : sent[m] > 0 => m \in marked
  /\ at # "poll" => position \in Broadcast!Message
  /\ at = "send" => position \in marked /\ sent[position] = 0
  /\ \A m \in marked : Broadcast!DealtWith(m) \/ (at = "send" /\ m = position)
  /\ \A m \in 1..position :
       Broadcast!DealtWith(m) \/ (at \in {"record", "send"} /\ m = position)

(* The source starts with nothing fetched, sent or committed. *)
LEMMA BroadcastInit == Broadcast!Constants /\ Broadcast!Init => BroadcastInv
  BY DEF Broadcast!Constants, Broadcast!Init, BroadcastInv, Broadcast!TypeOK,
         Broadcast!CopiesBounded, Broadcast!CommittedIsDone, Broadcast!Message,
         Broadcast!DealtWith

(* Fetching, marking, sending and committing a message, a fault and a      *)
(* restart preserve it.                                                    *)
LEMMA BroadcastStep ==
  Broadcast!Constants /\ BroadcastInv /\ [Broadcast!Next]_(Broadcast!vars) => BroadcastInv'
<1> SUFFICES ASSUME Broadcast!Constants, BroadcastInv, [Broadcast!Next]_(Broadcast!vars)
             PROVE  BroadcastInv'
  OBVIOUS
<1> USE DEF Broadcast!Constants, BroadcastInv, Broadcast!TypeOK, Broadcast!CopiesBounded,
            Broadcast!CommittedIsDone, Broadcast!Message, Broadcast!DealtWith,
            Broadcast!Excuse, Broadcast!Inject
<1>1. CASE Broadcast!Poll
  BY <1>1 DEF Broadcast!Poll
<1>2. CASE Broadcast!record_kafka_message
  <2> USE <1>2 DEF Broadcast!record_kafka_message
  <2>1. CASE position \in marked /\ at' = "commit" /\ marked' = marked \cup {position}
             /\ UNCHANGED <<excused, faults>>
    BY <2>1
  <2>2. CASE position \notin marked /\ at' = "send" /\ marked' = marked \cup {position}
             /\ UNCHANGED <<excused, faults>>
    BY <2>2
  <2>3. CASE Broadcast!Excuse("reply_lost") /\ at' = "commit" /\ marked' = marked \cup {position}
    BY <2>3
  <2>4. CASE Broadcast!Excuse("unrecorded") /\ at' = "poll"
             /\ marked' \in {marked, marked \cup {position}}
    BY <2>4
  <2> QED
    BY <2>1, <2>2, <2>3, <2>4
<1>3. CASE Broadcast!broadcast_frame
  <2> USE <1>3 DEF Broadcast!broadcast_frame
  <2>1. CASE sent' = [sent EXCEPT ![position] = @ + 1] /\ at' = "commit"
             /\ UNCHANGED <<excused, faults>>
    BY <2>1
  <2>2. CASE Broadcast!Excuse("no_peers") /\ at' = "poll" /\ UNCHANGED sent
    BY <2>2
  <2> QED
    BY <2>1, <2>2
<1>4. CASE Broadcast!commit_message
  BY <1>4 DEF Broadcast!commit_message
<1>5. CASE Broadcast!Restart
  BY <1>5 DEF Broadcast!Restart
<1>6. CASE UNCHANGED Broadcast!vars
  BY <1>6 DEF Broadcast!vars
<1> QED
  BY <1>1, <1>2, <1>3, <1>4, <1>5, <1>6 DEF Broadcast!Next, Broadcast!run

(* KafkaBroadcastSource: every message below the committed offset was      *)
(* broadcast, or hit by a fault of its own, though a commit also covers    *)
(* messages before it that the worker left uncommitted.                    *)
THEOREM BroadcastBeforeCommit ==
  ASSUME Broadcast!Constants
  PROVE  Broadcast!Spec => []Broadcast!CommittedIsDone
<1>1. Broadcast!Init => BroadcastInv
  BY BroadcastInit
<1>2. BroadcastInv /\ [Broadcast!Next]_(Broadcast!vars) => BroadcastInv'
  BY BroadcastStep
<1>3. BroadcastInv => Broadcast!CommittedIsDone
  BY DEF BroadcastInv
<1> QED
  BY <1>1, <1>2, <1>3, PTL DEF Broadcast!Spec

(* KafkaBroadcastSource: no message is broadcast twice, however often it   *)
(* is consumed again.                                                      *)
THEOREM BroadcastAtMostOnce ==
  ASSUME Broadcast!Constants
  PROVE  Broadcast!Spec => []Broadcast!CopiesBounded
<1>1. Broadcast!Init => BroadcastInv
  BY BroadcastInit
<1>2. BroadcastInv /\ [Broadcast!Next]_(Broadcast!vars) => BroadcastInv'
  BY BroadcastStep
<1>3. BroadcastInv => Broadcast!CopiesBounded
  BY DEF BroadcastInv
<1> QED
  BY <1>1, <1>2, <1>3, PTL DEF Broadcast!Spec

-----------------------------------------------------------------------------
(* business_service *)

(* Everything up to the message an instance is about to write, or has      *)
(* written, is in MySQL; the owner's reader is not ahead of that, unless   *)
(* the owner has failed, and then it starts again at the committed offset. *)
BusinessInv ==
  /\ Business!TypeOK
  /\ Business!CommittedIsDone
  /\ \A i \in Instance :
       /\ at[i] = "upsert" => \A o \in 1..msg[i] : o = msg[i] \/ o \in upserted
       /\ at[i] = "commit" => \A o \in 1..msg[i] : o \in upserted
  /\ msg \in [Instance -> 0..Offsets]
  /\ at[owner] # "failed" =>
       \A o \in 1..position : o \in upserted \/ (at[owner] = "upsert" /\ o = msg[owner])

(* The service starts with nothing read, upserted or committed. *)
LEMMA BusinessInit == Business!Constants /\ Business!Init => BusinessInv
  BY DEF Business!Constants, Business!Init, BusinessInv, Business!TypeOK,
         Business!CommittedIsDone, Business!Offset

(* Every step of an instance, a rebalance and a restart preserve it. *)
LEMMA BusinessStep ==
  Business!Constants /\ BusinessInv /\ [Business!Next]_(Business!vars) => BusinessInv'
<1> SUFFICES ASSUME Business!Constants, BusinessInv, [Business!Next]_(Business!vars)
             PROVE  BusinessInv'
  OBVIOUS
<1> USE DEF Business!Constants, BusinessInv, Business!TypeOK, Business!CommittedIsDone,
            Business!Offset, Business!Go
<1>1. ASSUME NEW i \in Instance, Business!FetchMessage(i) PROVE BusinessInv'
  BY <1>1 DEF Business!FetchMessage
<1>2. ASSUME NEW i \in Instance, Business!UpsertProxyServedDevice(i) PROVE BusinessInv'
  BY <1>2 DEF Business!UpsertProxyServedDevice
<1>3. ASSUME NEW i \in Instance, Business!CommitMessage(i) PROVE BusinessInv'
  BY <1>3 DEF Business!CommitMessage
<1>4. ASSUME NEW i \in Instance, Business!Fail(i) PROVE BusinessInv'
  BY <1>4 DEF Business!Fail
<1>5. ASSUME NEW i \in Instance, Business!Restart(i) PROVE BusinessInv'
  BY <1>5 DEF Business!Restart
<1>6. ASSUME NEW i \in Instance, Business!Rebalance(i) PROVE BusinessInv'
  BY <1>6 DEF Business!Rebalance
<1>7. CASE UNCHANGED Business!vars
  BY <1>7 DEF Business!vars
<1> QED
  BY <1>1, <1>2, <1>3, <1>4, <1>5, <1>6, <1>7 DEF Business!Next, Business!Loop

(* business_service: every message below the committed offset is in MySQL, *)
(* for any number of instances, with errors, crashes and rebalances in the *)
(* middle of a message.                                                    *)
THEOREM UpsertBeforeCommit ==
  ASSUME Business!Constants
  PROVE  Business!Spec => []Business!CommittedIsDone
<1>1. Business!Init => BusinessInv
  BY BusinessInit
<1>2. BusinessInv /\ [Business!Next]_(Business!vars) => BusinessInv'
  BY BusinessStep
<1>3. BusinessInv => Business!CommittedIsDone
  BY DEF BusinessInv
<1> QED
  BY <1>1, <1>2, <1>3, PTL DEF Business!Spec

(* With one instance, the message in hand is the one behind the committed  *)
(* offset, and nothing behind that is in MySQL.                            *)
OneInstanceInv(i) ==
  /\ BusinessInv
  /\ owner = i
  /\ at[i] = "fetch" => position = committed
  /\ at[i] \in {"upsert", "commit"} => msg[i] = committed + 1 /\ position = committed + 1
  /\ \A d \in Device : row[d] <= committed + 1

(* With one instance the message that is upserted is the one behind the    *)
(* committed offset, and no row is ahead of it, after a restart neither.   *)
LEMMA OneInstanceStep ==
  ASSUME NEW i, Instance = {i}, Business!Constants, OneInstanceInv(i),
         [Business!Next]_(Business!vars)
  PROVE  OneInstanceInv(i)' /\ Business!NothingTakenBack
<1>0. BusinessInv'
  BY BusinessStep DEF OneInstanceInv
<1> USE DEF Business!Constants, OneInstanceInv, BusinessInv, Business!TypeOK, Business!Offset,
            Business!Go, Business!NothingTakenBack
<1>1. CASE Business!FetchMessage(i)
  BY <1>0, <1>1 DEF Business!FetchMessage
<1>2. CASE Business!UpsertProxyServedDevice(i)
  BY <1>0, <1>2 DEF Business!UpsertProxyServedDevice
<1>3. CASE Business!CommitMessage(i)
  BY <1>0, <1>3 DEF Business!CommitMessage
<1>4. CASE Business!Fail(i)
  BY <1>0, <1>4 DEF Business!Fail
<1>5. CASE Business!Restart(i)
  BY <1>0, <1>5 DEF Business!Restart
<1>6. CASE Business!Rebalance(i)
  BY <1>0, <1>6 DEF Business!Rebalance
<1>7. CASE UNCHANGED Business!vars
  BY <1>0, <1>7 DEF Business!vars
<1> QED
  BY <1>1, <1>2, <1>3, <1>4, <1>5, <1>6, <1>7 DEF Business!Next, Business!Loop

(* business_service with one instance: no timestamp in MySQL decreases,    *)
(* whatever is read and written again after an error.                      *)
THEOREM TimestampsNeverDecrease ==
  ASSUME NEW CONSTANT i, Instance = {i}, Business!Constants
  PROVE  Business!Spec => [][Business!NothingTakenBack]_(Business!vars)
<1>1. Business!Init => OneInstanceInv(i)
  BY BusinessInit DEF Business!Init, OneInstanceInv
<1>2. OneInstanceInv(i) /\ [Business!Next]_(Business!vars) => OneInstanceInv(i)'
  BY OneInstanceStep
<1>3. OneInstanceInv(i) /\ [Business!Next]_(Business!vars)
        => [Business!NothingTakenBack]_(Business!vars)
  BY OneInstanceStep
<1> QED
  BY <1>1, <1>2, <1>3, PTL DEF Business!Spec
=============================================================================
