------------------------------- MODULE Gossip -------------------------------
(***************************************************************************)
(* The gossip of KcpTunnel (iota_proxy/src/kcp/KcpTunnel.cpp): broadcasts  *)
(* carry their origin, an id and a ttl; every node remembers the ones it   *)
(* has seen in a bounded cache, hands a new one to the layers above and    *)
(* sends it on with a smaller ttl.                                         *)
(*                                                                         *)
(* Control and Replicate frames are relayed by the tunnel itself.  A       *)
(* KafkaBroadcast frame is relayed by the frame callback of ProxyRuntime,  *)
(* after admission and only when Redis did not know the message.           *)
(*                                                                         *)
(* A link is a KCP session: what it delivers, it delivers once and in      *)
(* order.  A node handles a frame in one step, because the callbacks of a  *)
(* tunnel run on its one loop thread.                                      *)
(***************************************************************************)
EXTENDS Integers, FiniteSets, Sequences

CONSTANTS
  Node,
  Msg,            \* broadcasts, by their seen key
  NoStore,        \* Redis is not configured
  Networks,       \* the networks, see below
  MaxFaults       \* bound on the faults of a behaviour

(* "session": a KCP session ends and what it had not delivered is lost;    *)
(* "restart": a node restarts with an empty cache; "expiry": a cache entry *)
(* outlives seen_broadcast_seconds; "admission": a frame exceeds the rate  *)
(* limit; "redis": a Redis command or its reply is lost.                   *)
FaultKind == {"session", "restart", "expiry", "admission", "redis"}

(* A network: origin gives the node that starts each broadcast, kafka the  *)
(* broadcasts that are KafkaBroadcast frames, links the peers in           *)
(* peer_links_ of each node and distance the number of hops along them,    *)
(* ttl, fanout and max_seen the configuration, stores the Redis server     *)
(* each node uses and faults what may go wrong.                            *)
Network ==
  [origin : [Msg -> Node], kafka : SUBSET Msg, links : [Node -> SUBSET Node],
   distance : [Node -> [Node -> Nat]], ttl : Nat \ {0}, fanout : Nat \ {0},
   max_seen : Nat \ {0},
   stores : [Node -> Node \cup {NoStore}], faults : SUBSET FaultKind]

Constants ==
  /\ IsFiniteSet(Node)
  /\ MaxFaults \in Nat
  /\ NoStore \notin Node
  /\ Networks \subseteq Network
  /\ \A w \in Networks : \A o \in Node :
       /\ o \notin w.links[o]
       /\ w.distance[o][o] = 0
       /\ \A p \in Node : \A q \in w.links[p] : w.distance[o][q] <= w.distance[o][p] + 1

VARIABLES
  net,          \* the network
  originated,   \* the broadcasts that have been started
  seen,         \* seen_broadcasts_ of each node
  channel,      \* what each KCP session still has to deliver
  recorded,     \* the seen keys in each Redis server
  delivered,    \* how often a broadcast was handed up since its node forgot it
  relayed,      \* the nodes that have sent each broadcast
  faults        \* how many faults have happened

vars == <<net, originated, seen, channel, recorded, delivered, relayed, faults>>

Origin == net.origin
Kafka == net.kafka
Links == net.links
BroadcastTtl == net.ttl
MaxFanout == net.fanout
MaxSeen == net.max_seen
StoreOf == net.stores

Link == {l \in Node \X Node : l[2] \in Links[l[1]]}
Packet == [msg : Msg, ttl : 1 .. BroadcastTtl]

Init ==
  /\ net \in Networks
  /\ originated = {}
  /\ seen = [n \in Node |-> {}]
  /\ channel = [l \in Link |-> <<>>]
  /\ recorded = [s \in Node |-> {}]
  /\ delivered = [n \in Node |-> [m \in Msg |-> 0]]
  /\ relayed = [m \in Msg |-> {}]
  /\ faults = 0

Fault(kind) ==
  /\ kind \in net.faults
  /\ faults < MaxFaults
  /\ faults' = faults + 1

-----------------------------------------------------------------------------
(* The cache of seen broadcasts *)

(* mark_broadcast_seen for a key that is not in the cache S: at capacity   *)
(* it makes room by erasing from the front of a hash map, so any entry may *)
(* go.                                                                     *)
mark_broadcast_seen(S, m) ==
  {T \cup {m} : T \in {U \in SUBSET S :
     Cardinality(U) = IF Cardinality(S) < MaxSeen THEN Cardinality(S) ELSE MaxSeen - 1}}

(* Node n's cache becomes S; the counts of what it forgets start again and *)
(* those of the broadcasts in up grow.                                     *)
Remember(n, S, up) ==
  /\ seen' = [seen EXCEPT ![n] = S]
  /\ delivered' =
       [delivered EXCEPT ![n] =
          [m \in Msg |-> IF m \in up THEN @[m] + 1
                         ELSE IF m \in seen[n] \ S THEN 0 ELSE @[m]]]

-----------------------------------------------------------------------------
(* Sending *)

(* broadcast_packet sends to all peers, or to the max_broadcast_fanout of  *)
(* them that score lowest in a hash of the message id and the peer.        *)
broadcast_packet(n) ==
  {P \in SUBSET Links[n] :
     Cardinality(P) = IF Cardinality(Links[n]) > MaxFanout THEN MaxFanout
                      ELSE Cardinality(Links[n])}

(* The channels after node n sends m with the given ttl to the peers P.    *)
Sent(c, n, P, m, ttl) ==
  [l \in Link |-> IF l[1] = n /\ l[2] \in P
                  THEN Append(c[l], [msg |-> m, ttl |-> ttl]) ELSE c[l]]

(* Mutant: the last hop is not taken. *)
Relay_EndsEarly(c, n, pkt) ==
  IF pkt.ttl <= 2
  THEN channel' = c /\ UNCHANGED relayed
  ELSE /\ \E P \in broadcast_packet(n) : channel' = Sent(c, n, P, pkt.msg, pkt.ttl - 1)
       /\ relayed' = [relayed EXCEPT ![pkt.msg] = @ \cup {n}]

(* Node n sends on a packet it took from channels c, with one hop less to  *)
(* go, or lets it end here.                                                *)
Relay(c, n, pkt) ==
  IF pkt.ttl <= 1
  THEN channel' = c /\ UNCHANGED relayed
  ELSE /\ \E P \in broadcast_packet(n) : channel' = Sent(c, n, P, pkt.msg, pkt.ttl - 1)
       /\ relayed' = [relayed EXCEPT ![pkt.msg] = @ \cup {n}]

(* broadcast_control, and broadcast_frame without a received ttl. *)
Originate(m) ==
  /\ m \notin originated \cup Kafka
  /\ originated' = originated \cup {m}
  /\ \E S \in mark_broadcast_seen(seen[Origin[m]], m) : Remember(Origin[m], S, {})
  /\ \E P \in broadcast_packet(Origin[m]) :
       channel' = Sent(channel, Origin[m], P, m, BroadcastTtl)
  /\ relayed' = [relayed EXCEPT ![m] = @ \cup {Origin[m]}]
  /\ UNCHANGED <<recorded, faults>>

-----------------------------------------------------------------------------
(* Redis: record_kafka_message *)

NotRecorded == UNCHANGED recorded
Recorded(n, m) ==
  recorded' = [recorded EXCEPT ![StoreOf[n]] = @ \cup {m}]

(* Mutant: the key is set whether or not it exists. *)
RecordNew_Overwrites(n, m) ==
  \/ StoreOf[n] = NoStore /\ NotRecorded
  \/ StoreOf[n] # NoStore /\ Recorded(n, m)

(* Redis did not know the message: it does now. *)
RecordNew(n, m) ==
  \/ StoreOf[n] = NoStore /\ NotRecorded
  \/ StoreOf[n] # NoStore /\ m \notin recorded[StoreOf[n]] /\ Recorded(n, m)

(* Redis reports a duplicate. *)
RecordDuplicate(n, m) ==
  /\ StoreOf[n] # NoStore
  /\ m \in recorded[StoreOf[n]]
  /\ NotRecorded

(* The call fails, before or after SET NX took effect; or the reply to SET *)
(* NX is lost and the second attempt is told that the key exists.  None of *)
(* these leads to a broadcast.                                             *)
RecordFails(n, m) ==
  /\ StoreOf[n] # NoStore
  /\ Recorded(n, m) \/ NotRecorded
  /\ Fault("redis")

(* The Kafka sender of ProxyRuntime: record, then broadcast_frame. *)
OriginateKafka(m) ==
  /\ m \in Kafka \ originated
  /\ originated' = originated \cup {m}
  /\ \/ /\ RecordNew(Origin[m], m)
        /\ \E S \in mark_broadcast_seen(seen[Origin[m]], m) : Remember(Origin[m], S, {})
        /\ \E P \in broadcast_packet(Origin[m]) :
             channel' = Sent(channel, Origin[m], P, m, BroadcastTtl)
        /\ relayed' = [relayed EXCEPT ![m] = @ \cup {Origin[m]}]
        /\ UNCHANGED faults
     \/ /\ RecordFails(Origin[m], m)
        /\ UNCHANGED <<seen, channel, delivered, relayed>>

-----------------------------------------------------------------------------
(* Receiving: handle_kcp_message *)

Arrives(l, pkt) == channel[l] # <<>> /\ pkt = Head(channel[l])
Taken(l) == [channel EXCEPT ![l] = Tail(@)]

(* Mutant: the cache is not consulted. *)
Known_OwnOnly(n, m) == Origin[m] = n

(* prepare_inbound_broadcast refuses its own broadcasts and known ones.    *)
Known(n, m) == Origin[m] = n \/ m \in seen[n]

Suppress(l) ==
  \E pkt \in Packet :
    /\ Arrives(l, pkt)
    /\ Known(l[2], pkt.msg)
    /\ channel' = Taken(l)
    /\ UNCHANGED <<originated, seen, recorded, delivered, relayed, faults>>

(* A Control or Replicate frame is relayed, then offered to the callback,  *)
(* where admission may still drop it.                                      *)
Deliver(l) ==
  \E pkt \in Packet :
    /\ Arrives(l, pkt)
    /\ ~ Known(l[2], pkt.msg)
    /\ pkt.msg \notin Kafka
    /\ Relay(Taken(l), l[2], pkt)
    /\ \E S \in mark_broadcast_seen(seen[l[2]], pkt.msg) :
         \/ Remember(l[2], S, {pkt.msg}) /\ UNCHANGED faults
         \/ Remember(l[2], S, {}) /\ Fault("admission")
    /\ UNCHANGED <<originated, recorded>>

(* A KafkaBroadcast frame: admission, Redis, relay. *)
DeliverKafka(l) ==
  \E pkt \in Packet :
    /\ Arrives(l, pkt)
    /\ ~ Known(l[2], pkt.msg)
    /\ pkt.msg \in Kafka
    /\ \E S \in mark_broadcast_seen(seen[l[2]], pkt.msg) :
         \/ /\ Remember(l[2], S, {pkt.msg})
            /\ RecordNew(l[2], pkt.msg)
            /\ Relay(Taken(l), l[2], pkt)
            /\ UNCHANGED faults
         \/ /\ Remember(l[2], S, {pkt.msg})
            /\ \/ RecordDuplicate(l[2], pkt.msg) /\ UNCHANGED faults
               \/ RecordFails(l[2], pkt.msg)
            /\ channel' = Taken(l)
            /\ UNCHANGED relayed
         \/ /\ Remember(l[2], S, {})
            /\ Fault("admission")
            /\ channel' = Taken(l)
            /\ UNCHANGED <<recorded, relayed>>
    /\ UNCHANGED originated

-----------------------------------------------------------------------------
(* Faults *)

LoseSession(l) ==
  /\ channel[l] # <<>>
  /\ Fault("session")
  /\ channel' = [channel EXCEPT ![l] = <<>>]
  /\ UNCHANGED <<originated, seen, recorded, delivered, relayed>>

Restart(n) ==
  /\ Fault("restart")
  /\ Remember(n, {}, {})
  /\ channel' = [l \in Link |-> IF n \in {l[1], l[2]} THEN <<>> ELSE channel[l]]
  /\ UNCHANGED <<originated, recorded, relayed>>

Expire(n, m) ==
  /\ m \in seen[n]
  /\ Fault("expiry")
  /\ Remember(n, seen[n] \ {m}, {})
  /\ UNCHANGED <<originated, channel, recorded, relayed>>

Receive(l) == Suppress(l) \/ Deliver(l) \/ DeliverKafka(l)

Handling == (\E l \in Link : Receive(l)) /\ UNCHANGED net

Next ==
  \/ Handling
  \/ /\ \/ \E m \in Msg : Originate(m) \/ OriginateKafka(m)
        \/ \E l \in Link : LoseSession(l)
        \/ \E n \in Node : Restart(n) \/ \E m \in Msg : Expire(n, m)
     /\ UNCHANGED net

Spec == Init /\ [][Next]_vars

-----------------------------------------------------------------------------
(* Properties *)

(* Types; every packet under way has a hop to go. *)
TypeOK ==
  /\ net \in Networks
  /\ originated \subseteq Msg
  /\ seen \in [Node -> SUBSET Msg]
  /\ channel \in [Link -> Seq(Packet)]
  /\ recorded \in [Node -> SUBSET Msg]
  /\ delivered \in [Node -> [Msg -> Nat]]
  /\ relayed \in [Msg -> SUBSET Node]
  /\ faults \in 0 .. MaxFaults

(* A node hands a broadcast up at most once for as long as it remembers    *)
(* it, and never one of its own, not even after its cache has lost it:     *)
(* several copies arrive over different paths, while the cache evicts,     *)
(* expires and restarts.  And no broadcast gets further than broadcast_ttl *)
(* hops from its origin, by whatever path and whoever has forgotten it.    *)
DeliveredOnce ==
  /\ TypeOK
  /\ \A n \in Node, m \in Msg :
       /\ delivered[n][m] <= IF Origin[m] # n /\ m \in seen[n] THEN 1 ELSE 0
       /\ delivered[n][m] > 0 => net.distance[Origin[m]][n] <= BroadcastTtl

(* Of the nodes that share a Redis server at most one ever sends a         *)
(* KafkaBroadcast: once it is recorded, the others take it for a           *)
(* duplicate and do not pass it on.                                        *)
OneRelayPerStore ==
  \A m \in Kafka : \A p, q \in relayed[m] :
    p # q => StoreOf[p] = NoStore \/ StoreOf[p] # StoreOf[q]

Quiet == \A l \in Link : channel[l] = <<>>

(* No faults, every peer within the fan-out, no shared Redis server, a    *)
(* cache for all broadcasts and a ttl for the longest path.               *)
Undisturbed ==
  /\ net.faults = {}
  /\ \A p \in Node : Cardinality(Links[p]) <= MaxFanout
  /\ \A p, q \in Node : p # q => StoreOf[p] = NoStore \/ StoreOf[p] # StoreOf[q]
  /\ Cardinality(Msg) <= MaxSeen
  /\ Cardinality(Node) <= BroadcastTtl + 1

(* A broadcast has not reached every node that the links lead to.          *)
Uncovered ==
  \E m \in originated, n \in Node :
    /\ n # Origin[m] /\ delivered[n][m] = 0
    /\ net.distance[Origin[m]][n] < Cardinality(Node)
=============================================================================
