---------------------------- MODULE EdgePipeline ----------------------------
(***************************************************************************)
(* EdgeDataPipeline::write_edge_data (iota_proxy/src/business): a node     *)
(* that has a message of a device, its own or a replica, marks it as seen  *)
(* in Redis and, unless it was, hands it to Kafka.  Several nodes may      *)
(* share a Redis; each writes a message at most once.                      *)
(*                                                                         *)
(* What can fail is in Faults: Redis refuses or answers with an error, or  *)
(* the connection breaks before or after a command was executed; Kafka     *)
(* takes no message, or loses one it took; the node stops.                 *)
(***************************************************************************)
EXTENDS Integers, FiniteSets

CONSTANTS
  Node, Msg, Store,
  Named,       \* the messages that have a message_id
  StoreOf,     \* the Redis of each node
  Faults,      \* the faults that happen
  MaxFaults    \* bound on their number

(* A refused connection, an error reply, a connection that breaks before   *)
(* or after the command is executed; a full or unusable producer, a        *)
(* message Kafka did not take in time; the end of a process.               *)
Fault == {"refused", "error", "request_lost", "reply_lost", "not_produced", "not_delivered", "crash"}

(* What the constants are assumed to be. *)
Constants ==
  /\ IsFiniteSet(Node)
  /\ Named \subseteq Msg
  /\ StoreOf \in [Node -> Store]
  /\ Faults \subseteq Fault
  /\ MaxFaults \in Nat

VARIABLES
  seen,    \* the seen: keys of each Redis
  write,   \* what each write_edge_data does next, and its attempt at it
  queue,   \* the messages in the producer of each node
  topic,   \* the messages in Kafka, by the node that wrote them
  used     \* number of faults of each kind

vars == <<seen, write, queue, topic, used>>

Command == {"seen", "state", "latest"}
Step == {"new", "produce", "done"} \cup Command

Init ==
  /\ seen = [s \in Store |-> {}]
  /\ write = [n \in Node |-> [m \in Msg |-> [at |-> "new", attempt |-> 0]]]
  /\ queue = [n \in Node |-> {}]
  /\ topic = [n \in Node |-> {}]
  /\ used = [f \in Fault |-> 0]

At(n, m, at) == write[n][m].at = at
Go(n, m, at) == write' = [write EXCEPT ![n][m] = [at |-> at, attempt |-> 0]]

(* The failures of Redis, and the failures that may cost a message. *)
OfRedis == used["refused"] + used["error"] + used["request_lost"] + used["reply_lost"]
Costly == used["reply_lost"] + used["not_produced"] + used["not_delivered"] + used["crash"]

Inject(f) ==
  /\ f \in Faults
  /\ OfRedis + Costly - used["reply_lost"] < MaxFaults
  /\ used' = [used EXCEPT ![f] = @ + 1]

-----------------------------------------------------------------------------
(* RedisStateCache::record_edge_message; its lock is held over all the     *)
(* commands for a message.                                                 *)
Begin(n, m) ==
  /\ At(n, m, "new")
  /\ \A k \in Msg : write[n][k].at \notin Command
  /\ Go(n, m, IF m \in Named THEN "seen" ELSE "state")
  /\ UNCHANGED <<seen, queue, topic, used>>

Marked(n, m) == m \in seen[StoreOf[n]]
Mark(n, m) == seen' = [seen EXCEPT ![StoreOf[n]] = @ \cup {m}]

(* SET NX: a nil reply says that the message is a duplicate. *)
SetSeen(n, m) ==
  /\ At(n, m, "seen")
  /\ Mark(n, m)
  /\ Go(n, m, IF Marked(n, m) THEN "done" ELSE "state")
  /\ UNCHANGED <<queue, topic, used>>

Set(n, m) ==
  /\ \/ At(n, m, "state") /\ Go(n, m, "latest")
     \/ At(n, m, "latest") /\ Go(n, m, "produce")
  /\ UNCHANGED <<seen, queue, topic, used>>

(* Mutant: what Redis could not record is not produced. *)
Failed_Dropped(n, m) == Go(n, m, "done")

(* A command that failed: the message is produced all the same. *)
Failed(n, m) == Go(n, m, "produce")

Refuse(n, m) ==
  /\ write[n][m].at \in Command
  /\ Inject("refused") \/ Inject("error")
  /\ Failed(n, m)
  /\ UNCHANGED <<seen, queue, topic>>

(* execute_locked makes a second attempt on a new connection. *)
Break(n, m) ==
  /\ write[n][m].at \in Command
  /\ \/ Inject("request_lost") /\ UNCHANGED seen
     \/ Inject("reply_lost") /\ IF At(n, m, "seen") THEN Mark(n, m) ELSE UNCHANGED seen
  /\ IF write[n][m].attempt = 0
     THEN write' = [write EXCEPT ![n][m].attempt = 1]
     ELSE Failed(n, m)
  /\ UNCHANGED <<queue, topic>>

-----------------------------------------------------------------------------
(* KafkaSink: produce hands the message to the producer, which sends it    *)
(* later.                                                                  *)
Produce(n, m) ==
  /\ At(n, m, "produce")
  /\ \/ queue' = [queue EXCEPT ![n] = @ \cup {m}] /\ UNCHANGED used
     \/ Inject("not_produced") /\ UNCHANGED queue
  /\ Go(n, m, "done")
  /\ UNCHANGED <<seen, topic>>

Deliver(n, m) ==
  /\ m \in queue[n]
  /\ queue' = [queue EXCEPT ![n] = @ \ {m}]
  /\ \/ topic' = [topic EXCEPT ![n] = @ \cup {m}] /\ UNCHANGED used
     \/ Inject("not_delivered") /\ UNCHANGED topic
  /\ UNCHANGED <<seen, write>>

(* The process ends: what it was doing, and its producer's queue, is gone. *)
Crash(n) ==
  /\ Inject("crash")
  /\ write' = [write EXCEPT ![n] =
       [m \in Msg |-> IF At(n, m, "new") THEN @[m] ELSE [at |-> "done", attempt |-> 0]]]
  /\ queue' = [queue EXCEPT ![n] = {}]
  /\ UNCHANGED <<seen, topic>>

-----------------------------------------------------------------------------
write_edge_data(n, m) ==
  Begin(n, m) \/ SetSeen(n, m) \/ Set(n, m) \/ Refuse(n, m) \/ Break(n, m) \/ Produce(n, m)

Next ==
  \/ \E n \in Node, m \in Msg : write_edge_data(n, m) \/ Deliver(n, m)
  \/ \E n \in Node : Crash(n)

Spec == Init /\ [][Next]_vars

-----------------------------------------------------------------------------
(* Properties *)

(* Types; a node works on one message at a time in Redis. *)
TypeOK ==
  /\ seen \in [Store -> SUBSET Named]
  /\ write \in [Node -> [Msg -> [at : Step, attempt : 0..1]]]
  /\ \A n \in Node : Cardinality({m \in Msg : write[n][m].at \in Command}) <= 1
  /\ queue \in [Node -> SUBSET Msg]
  /\ topic \in [Node -> SUBSET Msg]
  /\ used \in [Fault -> Nat]

Settled(m) ==
  /\ \E n \in Node : At(n, m, "done")
  /\ \A n \in Node : write[n][m].at \in {"new", "done"} /\ m \notin queue[n]

(* A message that some node took on is in Kafka when all is done, as long  *)
(* as Kafka and the nodes work: Redis may refuse, fail or be cut off, and  *)
(* the nodes that share it rely on each other's marks.  The one failure of *)
(* Redis that can lose a message is a lost reply: the second attempt finds *)
(* the mark of the first.                                                  *)
LossNeedsFault ==
  \A m \in Msg :
    Settled(m) /\ (\A n \in Node : m \notin topic[n]) => Costly > 0

(* Copies of a message from nodes with the same Redis: at most one, and    *)
(* one more for each failure of Redis that hid a mark.                     *)
CopiesNeedFault ==
  \A m \in Named, s \in Store :
    Cardinality({n \in Node : StoreOf[n] = s /\ m \in topic[n] \cup queue[n]})
      <= 1 + OfRedis
=============================================================================
