---------------------------- MODULE TunnelProofs ----------------------------
(***************************************************************************)
(* Proofs about what a node does with the traffic of its tunnel: the       *)
(* gossip, by which nodes pass on broadcasts, for any network, and         *)
(* TcpEgress, which opens a connection to a target for every stream, for   *)
(* any number of streams, sockets and descriptors.                         *)
(***************************************************************************)
EXTENDS Gossip, TcpEgress, FiniteSetTheorems, TLAPS

-----------------------------------------------------------------------------
(* Gossip *)

(* What the assumptions say of the network of a behaviour. *)
NetOK ==
  /\ net \in Networks
  /\ Origin \in [Msg -> Node] /\ Kafka \subseteq Msg /\ Links \in [Node -> SUBSET Node]
  /\ BroadcastTtl \in Nat \ {0} /\ StoreOf \in [Node -> Node \cup {NoStore}]
  /\ net.distance \in [Node -> [Node -> Nat]]
  /\ \A o \in Node :
       /\ net.distance[o][o] = 0
       /\ \A p \in Node : \A q \in Links[p] : net.distance[o][q] <= net.distance[o][p] + 1

(* The packets that may be under way to node q: as many hops as have been  *)
(* used up lead there from the origin.                                     *)
Good(q) == {pkt \in Packet : net.distance[Origin[pkt.msg]][q] + pkt.ttl <= BroadcastTtl + 1}

Types ==
  /\ originated \subseteq Msg
  /\ seen \in [Node -> SUBSET Msg]
  /\ recorded \in [Node -> SUBSET Msg]
  /\ delivered \in [Node -> [Msg -> Nat]]
  /\ relayed \in [Msg -> SUBSET Node]
  /\ faults \in 0 .. MaxFaults

HopInv ==
  /\ channel \in [Link -> Seq(Packet)]
  /\ \A l \in Link : channel[l] \in Seq(Good(l[2]))

SeenInv ==
  \A n \in Node, m \in Msg :
    /\ delivered[n][m] <= IF Origin[m] # n /\ m \in seen[n] THEN 1 ELSE 0
    /\ delivered[n][m] > 0 => net.distance[Origin[m]][n] <= BroadcastTtl

(* A node that shares a Redis server sends a message only when it is       *)
(* recorded there.                                                         *)
StoreInv ==
  /\ \A m \in Kafka : \A p \in relayed[m] : StoreOf[p] # NoStore => m \in recorded[StoreOf[p]]
  /\ OneRelayPerStore

(* A network is one of those the assumptions are about. *)
LEMMA NetFacts ==
  ASSUME Constants, net \in Networks
  PROVE  NetOK
<1>1. net \in Network
  BY DEF Constants
<1>2. \A o \in Node :
        /\ net.distance[o][o] = 0
        /\ \A p \in Node : \A q \in Links[p] : net.distance[o][q] <= net.distance[o][p] + 1
  BY DEF Constants, Links
<1> QED
  BY <1>1, <1>2 DEF NetOK, Network, Origin, Kafka, Links, BroadcastTtl, StoreOf

(* Both ends of a link are nodes, and the second is a peer of the first. *)
LEMMA LinkEnds ==
  ASSUME NetOK, NEW l \in Link
  PROVE  l[1] \in Node /\ l[2] \in Node /\ l[2] \in Links[l[1]]
  BY DEF Link, NetOK

(* A packet with so many hops to go may be under way to node q. *)
LEMMA PacketParts ==
  ASSUME NetOK, NEW m \in Msg, NEW k \in 1..BroadcastTtl, NEW q \in Node,
         net.distance[Origin[m]][q] + k <= BroadcastTtl + 1
  PROVE  [msg |-> m, ttl |-> k] \in Good(q)
  BY DEF Good, Packet

(* What is known of a packet under way to node q. *)
LEMMA GoodParts ==
  ASSUME NetOK, NEW q \in Node, NEW pkt \in Good(q)
  PROVE  /\ pkt \in Packet /\ pkt.msg \in Msg /\ pkt.ttl \in 1..BroadcastTtl /\ pkt.ttl \in Nat
         /\ net.distance[Origin[pkt.msg]][q] + pkt.ttl <= BroadcastTtl + 1
         /\ net.distance[Origin[pkt.msg]][q] \in Nat /\ Origin[pkt.msg] \in Node
         /\ net.distance[Origin[pkt.msg]][q] <= BroadcastTtl
<1>1. pkt \in Packet /\ net.distance[Origin[pkt.msg]][q] + pkt.ttl <= BroadcastTtl + 1
  BY DEF Good
<1>2. pkt.msg \in Msg /\ pkt.ttl \in 1..BroadcastTtl /\ BroadcastTtl \in Nat
  BY <1>1 DEF Packet, NetOK
<1>3. net.distance[Origin[pkt.msg]][q] \in Nat /\ Origin[pkt.msg] \in Node
  BY <1>2 DEF NetOK
<1> QED
  BY <1>1, <1>2, <1>3

(* A sequence over a set is one over any larger set. *)
LEMMA SeqMono ==
  ASSUME NEW S, NEW T, S \subseteq T, NEW s \in Seq(S)
  PROVE  s \in Seq(T)
  OBVIOUS

(* Taking a packet from a channel and adding one. *)
LEMMA SeqParts ==
  ASSUME NEW S, NEW s \in Seq(S)
  PROVE  /\ s # <<>> => Head(s) \in S /\ Tail(s) \in Seq(S)
         /\ \A e \in S : Append(s, e) \in Seq(S)
         /\ <<>> \in Seq(S)
  OBVIOUS

(* The channels, as a function, by what each of them holds. *)
GoodChannels(c) == DOMAIN c = Link /\ c = [l \in Link |-> c[l]] /\ \A l \in Link : c[l] \in Seq(Good(l[2]))

(* HopInv, in terms of GoodChannels. *)
LEMMA HopParts ==
  ASSUME NetOK
  PROVE  HopInv <=> GoodChannels(channel)
<1>1. \A l \in Link : Good(l[2]) \subseteq Packet
  BY DEF Good
<1>2. \A l \in Link : \A s \in Seq(Good(l[2])) : s \in Seq(Packet)
  BY <1>1, SeqMono
<1> QED
  BY <1>2 DEF HopInv, GoodChannels

(* Sending to peers takes a packet at most one hop further from its origin *)
(* than the sender is.                                                     *)
LEMMA SentGood ==
  ASSUME NetOK, NEW c, GoodChannels(c), NEW n \in Node, NEW P, P \subseteq Links[n],
         NEW m \in Msg, NEW k \in 1..BroadcastTtl,
         net.distance[Origin[m]][n] + k <= BroadcastTtl
  PROVE  GoodChannels(Sent(c, n, P, m, k))
<1> DEFINE d == Sent(c, n, P, m, k)
<1>1. DOMAIN d = Link /\ d = [l \in Link |-> d[l]]
  BY DEF Sent
<1>2. ASSUME NEW l \in Link PROVE d[l] \in Seq(Good(l[2]))
  <2>1. c[l] \in Seq(Good(l[2])) /\ l[2] \in Node
    BY <1>2, LinkEnds DEF GoodChannels
  <2>2. CASE l[1] = n /\ l[2] \in P
    <3>1. d[l] = Append(c[l], [msg |-> m, ttl |-> k])
      BY <2>2 DEF Sent
    <3>2. net.distance[Origin[m]][l[2]] <= net.distance[Origin[m]][n] + 1
      <4>1. Origin[m] \in Node /\ l[2] \in Links[n]
        BY <2>2 DEF NetOK
      <4> QED
        BY <4>1 DEF NetOK
    <3>3. net.distance[Origin[m]][l[2]] \in Nat /\ net.distance[Origin[m]][n] \in Nat /\ BroadcastTtl \in Nat
      <4>1. Origin[m] \in Node
        BY DEF NetOK
      <4> QED
        BY <2>1, <4>1 DEF NetOK
    <3>4. net.distance[Origin[m]][l[2]] + k <= BroadcastTtl + 1
      BY <3>2, <3>3
    <3>5. [msg |-> m, ttl |-> k] \in Good(l[2])
      BY <2>1, <3>4, PacketParts
    <3> QED
      BY <2>1, <3>1, <3>5, SeqParts
  <2>3. CASE ~ (l[1] = n /\ l[2] \in P)
    BY <2>1, <2>3 DEF Sent
  <2> QED
    BY <2>2, <2>3
<1> QED
  BY <1>1, <1>2 DEF GoodChannels

(* A packet that arrives is taken from its channel. *)
LEMMA TakenGood ==
  ASSUME NetOK, HopInv, NEW l \in Link, channel[l] # <<>>
  PROVE  GoodChannels(Taken(l)) /\ Head(channel[l]) \in Good(l[2])
<1>1. GoodChannels(channel)
  BY HopParts
<1>2. channel[l] \in Seq(Good(l[2]))
  BY DEF HopInv
<1>3. Head(channel[l]) \in Good(l[2]) /\ Tail(channel[l]) \in Seq(Good(l[2]))
  BY <1>2, SeqParts, Zenon
<1>4. Taken(l) = [k \in Link |-> IF k = l THEN Tail(channel[l]) ELSE channel[k]]
  BY Zenon DEF Taken, HopInv
<1> QED
  BY <1>1, <1>3, <1>4, Zenon DEF GoodChannels

(* The network does not change, so neither do the names for its parts.     *)
LEMMA NetUnchanged ==
  ASSUME NetOK, net' = net
  PROVE  /\ NetOK'
         /\ UNCHANGED <<Origin, Kafka, Links, BroadcastTtl, MaxSeen, StoreOf, Link, Packet>>
         /\ \A q : Good(q)' = Good(q)
<1>1. UNCHANGED <<Origin, Kafka, Links, BroadcastTtl, MaxSeen, StoreOf>>
  BY DEF Origin, Kafka, Links, BroadcastTtl, MaxSeen, StoreOf
<1>2. UNCHANGED <<Link, Packet>>
  BY <1>1 DEF Link, Packet
<1>3. \A q : Good(q)' = Good(q)
  BY <1>1, <1>2 DEF Good
<1>4. NetOK'
  BY <1>1 DEF NetOK
<1> QED
  BY <1>1, <1>2, <1>3, <1>4

(* If the channels are good after a step, HopInv holds again. *)
LEMMA HopStep ==
  ASSUME NetOK, net' = net, GoodChannels(channel')
  PROVE  HopInv'
<1>1. UNCHANGED <<Link, Packet>> /\ \A q : Good(q)' = Good(q)
  BY NetUnchanged
<1>2. \A l \in Link : Good(l[2]) \subseteq Packet
  BY DEF Good
<1>3. \A l \in Link : \A s \in Seq(Good(l[2])) : s \in Seq(Packet)
  BY <1>2, SeqMono
<1>4. channel' \in [Link -> Seq(Packet)] /\ \A l \in Link : channel'[l] \in Seq(Good(l[2]))
  BY <1>3 DEF GoodChannels
<1> QED
  BY <1>1, <1>4 DEF HopInv

(* A node remembers S and hands up what it did not know and did not start. *)
LEMMA RememberStep ==
  ASSUME NetOK, Types, SeenInv, net' = net, NEW n \in Node, NEW S \in SUBSET Msg, NEW up,
         up \subseteq S, Remember(n, S, up),
         \A m \in up : /\ Origin[m] # n /\ m \notin seen[n]
                       /\ net.distance[Origin[m]][n] <= BroadcastTtl
  PROVE  SeenInv' /\ seen' \in [Node -> SUBSET Msg] /\ delivered' \in [Node -> [Msg -> Nat]]
<1>1. UNCHANGED <<Origin, BroadcastTtl>>
  BY NetUnchanged
<1>2. seen' = [seen EXCEPT ![n] = S]
  BY DEF Remember
<1>3. delivered' = [delivered EXCEPT ![n] =
        [m \in Msg |-> IF m \in up THEN delivered[n][m] + 1
                       ELSE IF m \in seen[n] \ S THEN 0 ELSE delivered[n][m]]]
  BY DEF Remember
<1>4. seen' \in [Node -> SUBSET Msg]
  BY <1>2 DEF Types
<1>5. \A m \in Msg : delivered[n][m] \in Nat
  BY DEF Types
<1>6. delivered' \in [Node -> [Msg -> Nat]]
  BY <1>3, <1>5 DEF Types
<1>7. ASSUME NEW p \in Node, p # n PROVE delivered'[p] = delivered[p] /\ seen'[p] = seen[p]
  BY <1>2, <1>3, <1>7 DEF Types
<1>8. ASSUME NEW m \in Msg
      PROVE  /\ delivered'[n][m] <= IF Origin[m] # n /\ m \in seen'[n] THEN 1 ELSE 0
             /\ delivered'[n][m] > 0 => net.distance[Origin[m]][n] <= BroadcastTtl
  <2>1. seen'[n] = S
    BY <1>2 DEF Types
  <2>2. delivered'[n][m] = IF m \in up THEN delivered[n][m] + 1
                           ELSE IF m \in seen[n] \ S THEN 0 ELSE delivered[n][m]
    BY <1>3 DEF Types
  <2>3. /\ delivered[n][m] <= IF Origin[m] # n /\ m \in seen[n] THEN 1 ELSE 0
        /\ delivered[n][m] > 0 => net.distance[Origin[m]][n] <= BroadcastTtl
    BY DEF SeenInv
  <2>4. CASE m \in up
    <3>1. m \in S /\ Origin[m] # n /\ m \notin seen[n] /\ net.distance[Origin[m]][n] <= BroadcastTtl
      BY <2>4
    <3>2. delivered[n][m] = 0 /\ delivered'[n][m] = 1
      BY <1>5, <2>2, <2>3, <2>4, <3>1
    <3> QED
      BY <2>1, <3>1, <3>2
  <2>5. CASE m \notin up /\ m \in seen[n] \ S
    <3>1. delivered'[n][m] = 0
      BY <2>2, <2>5
    <3> QED
      BY <3>1
  <2>6. CASE m \notin up /\ m \notin seen[n] \ S
    <3>1. delivered'[n][m] = delivered[n][m] /\ (m \in seen[n] => m \in seen'[n])
      BY <2>1, <2>2, <2>6
    <3> QED
      BY <1>5, <2>3, <3>1
  <2> QED
    BY <2>4, <2>5, <2>6
<1>9. ASSUME NEW p \in Node, NEW m \in Msg
      PROVE  /\ delivered'[p][m] <= IF Origin[m] # p /\ m \in seen'[p] THEN 1 ELSE 0
             /\ delivered'[p][m] > 0 => net.distance[Origin[m]][p] <= BroadcastTtl
  BY <1>7, <1>8, <1>9 DEF SeenInv
<1>10. SeenInv'
  BY <1>1, <1>9 DEF SeenInv
<1> QED
  BY <1>4, <1>6, <1>10

(* The two forms of it that occur: the node hands up nothing, or the new   *)
(* broadcast.                                                              *)
LEMMA RememberNone ==
  ASSUME NetOK, Types, SeenInv, net' = net, NEW n \in Node, NEW S \in SUBSET Msg, Remember(n, S, {})
  PROVE  SeenInv' /\ seen' \in [Node -> SUBSET Msg] /\ delivered' \in [Node -> [Msg -> Nat]]
<1>1. PICK up : up = {}
  OBVIOUS
<1>2. up \subseteq S /\ Remember(n, S, up) /\ \A m \in up : FALSE
  BY <1>1
<1> QED
  BY <1>2, RememberStep, Zenon

(* A node hands up one message, which it had not seen. *)
LEMMA RememberOne ==
  ASSUME NetOK, Types, SeenInv, net' = net, NEW n \in Node, NEW S \in SUBSET Msg, NEW m \in S,
         Remember(n, S, {m}), Origin[m] # n, m \notin seen[n],
         net.distance[Origin[m]][n] <= BroadcastTtl
  PROVE  SeenInv' /\ seen' \in [Node -> SUBSET Msg] /\ delivered' \in [Node -> [Msg -> Nat]]
<1>1. PICK up : up = {m}
  OBVIOUS
<1>2. up \subseteq S /\ Remember(n, S, up) /\ \A k \in up : k = m
  BY <1>1
<1> QED
  BY <1>2, RememberStep, Zenon

(* What the cache of a node becomes when a broadcast is marked as seen.    *)
LEMMA Marked ==
  ASSUME NEW S \in SUBSET Msg, NEW m \in Msg, NEW T \in mark_broadcast_seen(S, m)
  PROVE  T \in SUBSET Msg /\ m \in T
  BY DEF mark_broadcast_seen

(* A packet is sent on: it stays within its hops. *)
LEMMA RelayStep ==
  ASSUME NetOK, Types, net' = net, NEW n \in Node, NEW c, GoodChannels(c), NEW pkt \in Good(n),
         Relay(c, n, pkt)
  PROVE  /\ GoodChannels(channel') /\ relayed' \in [Msg -> SUBSET Node]
         /\ relayed' = relayed \/ relayed' = [relayed EXCEPT ![pkt.msg] = relayed[pkt.msg] \cup {n}]
<1>1. /\ pkt \in Packet /\ pkt.msg \in Msg /\ pkt.ttl \in 1..BroadcastTtl /\ pkt.ttl \in Nat
      /\ net.distance[Origin[pkt.msg]][n] + pkt.ttl <= BroadcastTtl + 1
      /\ net.distance[Origin[pkt.msg]][n] \in Nat
  BY GoodParts
<1>2. BroadcastTtl \in Nat
  BY DEF NetOK
<1>3. CASE pkt.ttl <= 1
  BY <1>3 DEF Relay, Types
<1>4. CASE pkt.ttl > 1
  <2>1. PICK P \in broadcast_packet(n) : channel' = Sent(c, n, P, pkt.msg, pkt.ttl - 1)
    BY <1>1, <1>4 DEF Relay
  <2>2. relayed' = [relayed EXCEPT ![pkt.msg] = relayed[pkt.msg] \cup {n}]
    BY <1>1, <1>4 DEF Relay
  <2>3. P \subseteq Links[n]
    BY DEF broadcast_packet
  <2>4. pkt.ttl - 1 \in 1..BroadcastTtl /\ net.distance[Origin[pkt.msg]][n] + (pkt.ttl - 1) <= BroadcastTtl
    BY <1>1, <1>2, <1>4
  <2>5. GoodChannels(channel')
    BY <1>1, <2>1, <2>3, <2>4, SentGood
  <2>6. relayed' \in [Msg -> SUBSET Node]
    BY <1>1, <2>2 DEF Types
  <2> QED
    BY <2>2, <2>5, <2>6
<1> QED
  BY <1>1, <1>3, <1>4

(* A node starts a broadcast: all hops are still to go. *)
LEMMA OriginStep ==
  ASSUME NetOK, Types, HopInv, SeenInv, net' = net, NEW m \in Msg,
         \E S \in mark_broadcast_seen(seen[Origin[m]], m) : Remember(Origin[m], S, {}),
         \E P \in broadcast_packet(Origin[m]) : channel' = Sent(channel, Origin[m], P, m, BroadcastTtl)
  PROVE  HopInv' /\ SeenInv' /\ seen' \in [Node -> SUBSET Msg] /\ delivered' \in [Node -> [Msg -> Nat]]
<1>1. Origin[m] \in Node /\ BroadcastTtl \in Nat \ {0}
  BY DEF NetOK
<1>2. PICK P \in broadcast_packet(Origin[m]) : channel' = Sent(channel, Origin[m], P, m, BroadcastTtl)
  OBVIOUS
<1>3. P \subseteq Links[Origin[m]]
  BY DEF broadcast_packet
<1>4. net.distance[Origin[m]][Origin[m]] + BroadcastTtl <= BroadcastTtl /\ BroadcastTtl \in 1..BroadcastTtl
  <2>1. net.distance[Origin[m]][Origin[m]] = 0
    BY <1>1 DEF NetOK
  <2> QED
    BY <1>1, <2>1
<1>5. GoodChannels(channel')
  BY <1>1, <1>2, <1>3, <1>4, HopParts, SentGood
<1>6. HopInv'
  BY <1>5, HopStep
<1>7. PICK S \in mark_broadcast_seen(seen[Origin[m]], m) : Remember(Origin[m], S, {})
  OBVIOUS
<1>8. S \in SUBSET Msg
  BY <1>1, Marked DEF Types
<1> QED
  BY <1>1, <1>6, <1>7, <1>8, RememberNone

GossipInv == NetOK /\ Types /\ HopInv /\ SeenInv /\ StoreInv

(* Nothing is under way, remembered or recorded when the nodes start. *)
LEMMA GossipInit ==
  ASSUME Constants, Init
  PROVE  GossipInv
<1>1. NetOK
  BY NetFacts DEF Init
<1>2. Types
  BY DEF Constants, Init, Types
<1>3. HopInv
  <2>1. GoodChannels(channel)
    BY SeqParts DEF Init, GoodChannels
  <2> QED
    BY <1>1, <2>1, HopParts
<1>4. SeenInv
  BY DEF Init, SeenInv
<1>5. StoreInv
  BY <1>1 DEF Init, StoreInv, OneRelayPerStore, NetOK
<1> QED
  BY <1>1, <1>2, <1>3, <1>4, <1>5 DEF GossipInv

(* Nobody sends a Kafka message that had not sent it before. *)
LEMMA StoreKept ==
  ASSUME NetOK, Types, StoreInv, net' = net, recorded' \in [Node -> SUBSET Msg],
         \A s \in Node : recorded[s] \subseteq recorded'[s],
         \A m \in Kafka : relayed'[m] = relayed[m]
  PROVE  StoreInv'
<1>1. UNCHANGED <<Kafka, StoreOf>> /\ Kafka \subseteq Msg
  BY NetUnchanged DEF NetOK
<1>2. ASSUME NEW m \in Kafka, NEW p \in relayed[m], StoreOf[p] # NoStore
      PROVE  m \in recorded'[StoreOf[p]]
  <2>1. p \in Node /\ StoreOf[p] \in Node
    BY <1>1, <1>2 DEF Types, NetOK
  <2> QED
    BY <1>2, <2>1 DEF StoreInv
<1> QED
  BY <1>1, <1>2 DEF StoreInv, OneRelayPerStore

(* A node for which Redis did not know message m sends it. *)
LEMMA StoreNew ==
  ASSUME NetOK, Types, StoreInv, net' = net, NEW n \in Node, NEW m \in Msg, RecordNew(n, m),
         relayed' = relayed \/ relayed' = [relayed EXCEPT ![m] = relayed[m] \cup {n}]
  PROVE  StoreInv' /\ recorded' \in [Node -> SUBSET Msg]
<1>1. UNCHANGED <<Kafka, StoreOf>> /\ Kafka \subseteq Msg
  BY NetUnchanged DEF NetOK
<1>2. StoreOf[n] = NoStore \/ StoreOf[n] \in Node
  BY DEF NetOK
<1>3. /\ recorded' \in [Node -> SUBSET Msg] /\ \A s \in Node : recorded[s] \subseteq recorded'[s]
      /\ StoreOf[n] # NoStore => m \notin recorded[StoreOf[n]] /\ m \in recorded'[StoreOf[n]]
  <2>1. CASE StoreOf[n] = NoStore
    BY <2>1 DEF RecordNew, NotRecorded, Types
  <2>2. CASE StoreOf[n] # NoStore
    <3>1. StoreOf[n] \in Node /\ m \notin recorded[StoreOf[n]]
          /\ recorded' = [recorded EXCEPT ![StoreOf[n]] = recorded[StoreOf[n]] \cup {m}]
      BY <1>2, <2>2 DEF RecordNew, Recorded
    <3> QED
      BY <3>1 DEF Types
  <2> QED
    BY <2>1, <2>2
<1>4. CASE relayed' = relayed
  BY <1>3, <1>4, StoreKept
<1>5. CASE relayed' = [relayed EXCEPT ![m] = relayed[m] \cup {n}]
  <2>1. \A k \in Msg : relayed'[k] = IF k = m THEN relayed[m] \cup {n} ELSE relayed[k]
    BY <1>5 DEF Types
  <2>2. ASSUME NEW k \in Kafka, NEW p \in relayed'[k], StoreOf[p] # NoStore
        PROVE  k \in recorded'[StoreOf[p]]
    <3>1. CASE p \in relayed[k]
      <4>1. p \in Node /\ StoreOf[p] \in Node /\ k \in recorded[StoreOf[p]]
        BY <1>1, <2>2, <3>1 DEF Types, NetOK, StoreInv
      <4> QED
        BY <1>3, <4>1
    <3>2. CASE p \notin relayed[k]
      <4>1. k = m /\ p = n
        BY <1>1, <2>1, <2>2, <3>2
      <4> QED
        BY <1>3, <2>2, <4>1
    <3> QED
      BY <3>1, <3>2
  <2>3. ASSUME m \in Kafka, NEW q \in relayed[m], StoreOf[n] # NoStore
        PROVE  StoreOf[q] # StoreOf[n]
    BY <1>3, <2>3 DEF StoreInv
  <2>4. ASSUME NEW k \in Kafka, NEW p \in relayed'[k], NEW q \in relayed'[k], p # q
        PROVE  StoreOf[p] = NoStore \/ StoreOf[p] # StoreOf[q]
    <3>1. CASE p \in relayed[k] /\ q \in relayed[k]
      BY <2>4, <3>1 DEF StoreInv, OneRelayPerStore
    <3>2. CASE p \notin relayed[k]
      <4>1. k = m /\ p = n /\ q \in relayed[m]
        BY <1>1, <2>1, <2>4, <3>2
      <4> QED
        BY <2>3, <4>1
    <3>3. CASE q \notin relayed[k]
      <4>1. k = m /\ q = n /\ p \in relayed[m]
        BY <1>1, <2>1, <2>4, <3>3
      <4> QED
        BY <2>3, <4>1
    <3> QED
      BY <3>1, <3>2, <3>3
  <2> QED
    BY <1>1, <1>3, <2>2, <2>4 DEF StoreInv, OneRelayPerStore
<1> QED
  BY <1>3, <1>4, <1>5

(* A Redis command that failed may have taken effect. *)
LEMMA RecordedMore ==
  ASSUME NetOK, Types, NEW n \in Node, NEW m \in Msg, StoreOf[n] # NoStore, Recorded(n, m) \/ NotRecorded
  PROVE  recorded' \in [Node -> SUBSET Msg] /\ \A s \in Node : recorded[s] \subseteq recorded'[s]
<1>1. StoreOf[n] \in Node
  BY DEF NetOK
<1>2. CASE NotRecorded
  BY <1>2 DEF NotRecorded, Types
<1>3. CASE Recorded(n, m)
  <2>1. recorded' = [recorded EXCEPT ![StoreOf[n]] = recorded[StoreOf[n]] \cup {m}]
    BY <1>3 DEF Recorded
  <2> QED
    BY <1>1, <2>1 DEF Types
<1> QED
  BY <1>2, <1>3

(* A fault counts towards the bound. *)
LEMMA FaultCount ==
  ASSUME Constants, Types, NEW kind, Fault(kind)
  PROVE  faults' \in 0..MaxFaults
  BY DEF Constants, Types, Fault

(* Starting a broadcast, receiving one of any kind and every fault         *)
(* preserve the invariant.                                                 *)
LEMMA GossipStep ==
  ASSUME Constants, GossipInv, [Next]_vars
  PROVE  GossipInv'
<1> USE DEF GossipInv
<1>n. net' = net
  BY DEF Next, Handling, vars
<1>o. NetOK' /\ Kafka' = Kafka /\ Kafka \subseteq Msg
  BY <1>n, NetUnchanged DEF NetOK
<1>k. ASSUME UNCHANGED <<recorded, relayed>> PROVE StoreInv'
  BY <1>k, <1>n, StoreKept DEF Types
<1>h. ASSUME UNCHANGED channel PROVE HopInv'
  BY <1>h, <1>n, HopParts, HopStep
<1>s. ASSUME UNCHANGED <<seen, delivered>> PROVE SeenInv'
  <2>1. UNCHANGED <<Origin, BroadcastTtl>>
    BY <1>n, NetUnchanged
  <2> QED
    BY <1>n, <1>s, <2>1 DEF SeenInv
<1>1. ASSUME NEW m \in Msg, Originate(m) PROVE GossipInv'
  <2>1. HopInv' /\ SeenInv' /\ seen' \in [Node -> SUBSET Msg] /\ delivered' \in [Node -> [Msg -> Nat]]
    BY <1>1, <1>n, OriginStep DEF Originate
  <2>2. /\ m \notin Kafka /\ recorded' = recorded /\ faults' = faults
        /\ originated' = originated \cup {m}
        /\ relayed' = [relayed EXCEPT ![m] = relayed[m] \cup {Origin[m]}]
    BY <1>1 DEF Originate
  <2>3. Origin[m] \in Node
    BY DEF NetOK
  <2>4. relayed' \in [Msg -> SUBSET Node] /\ \A k \in Kafka : relayed'[k] = relayed[k]
    BY <1>o, <2>2, <2>3 DEF Types
  <2>5. StoreInv'
    BY <1>n, <2>2, <2>4, StoreKept DEF Types
  <2> QED
    BY <1>o, <2>1, <2>2, <2>4, <2>5 DEF Types
<1>2. ASSUME NEW m \in Msg, OriginateKafka(m) PROVE GossipInv'
  <2>1. originated' \subseteq Msg /\ Origin[m] \in Node
    BY <1>2 DEF OriginateKafka, Types, NetOK
  <2>2. CASE /\ RecordNew(Origin[m], m)
             /\ \E S \in mark_broadcast_seen(seen[Origin[m]], m) : Remember(Origin[m], S, {})
             /\ \E P \in broadcast_packet(Origin[m]) :
                  channel' = Sent(channel, Origin[m], P, m, BroadcastTtl)
             /\ relayed' = [relayed EXCEPT ![m] = @ \cup {Origin[m]}]
             /\ UNCHANGED faults
    <3>1. HopInv' /\ SeenInv' /\ seen' \in [Node -> SUBSET Msg] /\ delivered' \in [Node -> [Msg -> Nat]]
      BY <1>n, <2>2, OriginStep
    <3>2. StoreInv' /\ recorded' \in [Node -> SUBSET Msg]
      BY <1>n, <2>1, <2>2, StoreNew, Zenon
    <3>3. relayed' \in [Msg -> SUBSET Node]
      BY <2>1, <2>2 DEF Types
    <3> QED
      BY <1>o, <2>1, <2>2, <3>1, <3>2, <3>3 DEF Types
  <2>3. CASE RecordFails(Origin[m], m) /\ UNCHANGED <<seen, channel, delivered, relayed>>
    <3>1. recorded' \in [Node -> SUBSET Msg] /\ \A s \in Node : recorded[s] \subseteq recorded'[s]
      BY <2>1, <2>3, RecordedMore DEF RecordFails
    <3>2. faults' \in 0..MaxFaults
      BY <2>3, FaultCount DEF RecordFails
    <3>3. StoreInv'
      BY <1>n, <2>3, <3>1, StoreKept
    <3>4. HopInv' /\ SeenInv'
      BY <1>h, <1>s, <2>3
    <3> QED
      BY <1>o, <2>1, <2>3, <3>1, <3>2, <3>3, <3>4 DEF Types
  <2> QED
    BY <1>2, <2>2, <2>3 DEF OriginateKafka
(* What every arrival has in common. *)
<1>a. ASSUME NEW l \in Link, NEW pkt \in Packet, Arrives(l, pkt)
      PROVE  /\ GoodChannels(Taken(l)) /\ pkt \in Good(l[2]) /\ l[2] \in Node /\ pkt.msg \in Msg
             /\ net.distance[Origin[pkt.msg]][l[2]] <= BroadcastTtl
  <2>1. l[2] \in Node /\ GoodChannels(Taken(l)) /\ pkt \in Good(l[2])
    BY <1>a, LinkEnds, TakenGood DEF Arrives
  <2> QED
    BY <2>1, GoodParts
<1>r. ASSUME NEW n \in Node, NEW m \in Msg, NEW S \in mark_broadcast_seen(seen[n], m),
             ~ Known(n, m), net.distance[Origin[m]][n] <= BroadcastTtl,
             Remember(n, S, {m}) \/ Remember(n, S, {})
      PROVE  SeenInv' /\ seen' \in [Node -> SUBSET Msg] /\ delivered' \in [Node -> [Msg -> Nat]]
  <2>1. S \in SUBSET Msg /\ m \in S
    BY Marked DEF Types
  <2>2. Origin[m] # n /\ m \notin seen[n]
    BY <1>r DEF Known
  <2>3. CASE Remember(n, S, {m})
    BY <1>n, <1>r, <2>1, <2>2, <2>3, RememberOne
  <2>4. CASE Remember(n, S, {})
    BY <1>n, <2>1, <2>4, RememberNone
  <2> QED
    BY <1>r, <2>3, <2>4
<1>3. ASSUME NEW l \in Link, Suppress(l) PROVE GossipInv'
  <2>1. PICK pkt \in Packet : Arrives(l, pkt) /\ channel' = Taken(l)
    BY <1>3 DEF Suppress
  <2>2. UNCHANGED <<originated, seen, recorded, delivered, relayed, faults>>
    BY <1>3 DEF Suppress
  <2>3. HopInv'
    BY <1>a, <1>n, <2>1, HopStep
  <2> QED
    BY <1>k, <1>o, <1>s, <2>2, <2>3 DEF Types
<1>4. ASSUME NEW l \in Link, Deliver(l) PROVE GossipInv'
  <2>1. PICK pkt \in Packet :
          /\ Arrives(l, pkt) /\ ~ Known(l[2], pkt.msg) /\ pkt.msg \notin Kafka
          /\ Relay(Taken(l), l[2], pkt)
          /\ \E S \in mark_broadcast_seen(seen[l[2]], pkt.msg) :
               \/ Remember(l[2], S, {pkt.msg}) /\ UNCHANGED faults
               \/ Remember(l[2], S, {}) /\ Fault("admission")
    BY <1>4, Zenon DEF Deliver
  <2>2. UNCHANGED <<originated, recorded>>
    BY <1>4 DEF Deliver
  <2>3. /\ GoodChannels(Taken(l)) /\ pkt \in Good(l[2]) /\ l[2] \in Node /\ pkt.msg \in Msg
        /\ net.distance[Origin[pkt.msg]][l[2]] <= BroadcastTtl
    BY <1>a, <2>1
  <2>4. SeenInv' /\ seen' \in [Node -> SUBSET Msg] /\ delivered' \in [Node -> [Msg -> Nat]]
    BY <1>r, <2>1, <2>3, Zenon
  <2>5. /\ GoodChannels(channel') /\ relayed' \in [Msg -> SUBSET Node]
        /\ relayed' = relayed \/ relayed' = [relayed EXCEPT ![pkt.msg] = relayed[pkt.msg] \cup {l[2]}]
    BY <1>n, <2>1, <2>3, RelayStep
  <2>6. \A k \in Kafka : relayed'[k] = relayed[k]
    BY <1>o, <2>1, <2>3, <2>5 DEF Types
  <2>7. HopInv' /\ StoreInv'
    BY <1>n, <2>2, <2>5, <2>6, HopStep, StoreKept DEF Types
  <2>8. faults' \in 0..MaxFaults
    BY <2>1, FaultCount DEF Types
  <2> QED
    BY <1>o, <2>2, <2>4, <2>5, <2>7, <2>8 DEF Types
<1>5. ASSUME NEW l \in Link, DeliverKafka(l) PROVE GossipInv'
  <2>1. PICK pkt \in Packet :
          /\ Arrives(l, pkt) /\ ~ Known(l[2], pkt.msg) /\ pkt.msg \in Kafka
          /\ \E S \in mark_broadcast_seen(seen[l[2]], pkt.msg) :
               \/ /\ Remember(l[2], S, {pkt.msg})
                  /\ RecordNew(l[2], pkt.msg)
                  /\ Relay(Taken(l), l[2], pkt)
                  /\ UNCHANGED faults
               \/ /\ Remember(l[2], S, {pkt.msg})
                  /\ \/ RecordDuplicate(l[2], pkt.msg) /\ UNCHANGED faults
                     \/ RecordFails(l[2], pkt.msg)
                  /\ channel' = Taken(l)
                  /\ UNCHANGED relayed
               \/ /\ Remember(l[2], S, {})
                  /\ Fault("admission")
                  /\ channel' = Taken(l)
                  /\ UNCHANGED <<recorded, relayed>>
    BY <1>5, Zenon DEF DeliverKafka
  <2>2. originated' = originated
    BY <1>5 DEF DeliverKafka
  <2>3. /\ GoodChannels(Taken(l)) /\ pkt \in Good(l[2]) /\ l[2] \in Node /\ pkt.msg \in Msg
        /\ net.distance[Origin[pkt.msg]][l[2]] <= BroadcastTtl
    BY <1>a, <2>1
  <2>4. SeenInv' /\ seen' \in [Node -> SUBSET Msg] /\ delivered' \in [Node -> [Msg -> Nat]]
    BY <1>r, <2>1, <2>3, Zenon
  <2>5. CASE RecordNew(l[2], pkt.msg) /\ Relay(Taken(l), l[2], pkt) /\ UNCHANGED faults
    <3>1. /\ GoodChannels(channel') /\ relayed' \in [Msg -> SUBSET Node]
          /\ relayed' = relayed \/ relayed' = [relayed EXCEPT ![pkt.msg] = relayed[pkt.msg] \cup {l[2]}]
      BY <1>n, <2>3, <2>5, RelayStep
    <3>2. StoreInv' /\ recorded' \in [Node -> SUBSET Msg]
      BY <1>n, <2>3, <2>5, <3>1, StoreNew
    <3>3. HopInv'
      BY <1>n, <3>1, HopStep
    <3> QED
      BY <1>o, <2>2, <2>4, <2>5, <3>1, <3>2, <3>3 DEF Types
  <2>6. CASE /\ (RecordDuplicate(l[2], pkt.msg) /\ UNCHANGED faults) \/ RecordFails(l[2], pkt.msg)
             /\ channel' = Taken(l) /\ UNCHANGED relayed
    <3>1. recorded' \in [Node -> SUBSET Msg] /\ \A s \in Node : recorded[s] \subseteq recorded'[s]
      BY <2>3, <2>6, RecordedMore DEF RecordFails, RecordDuplicate
    <3>2. faults' \in 0..MaxFaults
      BY <2>6, FaultCount DEF RecordFails, Types
    <3>3. HopInv' /\ StoreInv'
      BY <1>n, <2>3, <2>6, <3>1, HopStep, StoreKept
    <3> QED
      BY <1>o, <2>2, <2>4, <2>6, <3>1, <3>2, <3>3 DEF Types
  <2>7. CASE Fault("admission") /\ channel' = Taken(l) /\ UNCHANGED <<recorded, relayed>>
    <3>1. HopInv' /\ StoreInv' /\ faults' \in 0..MaxFaults
      BY <1>k, <1>n, <2>3, <2>7, HopStep, FaultCount
    <3> QED
      BY <1>o, <2>2, <2>4, <2>7, <3>1 DEF Types
  <2> QED
    BY <2>1, <2>5, <2>6, <2>7
<1>6. ASSUME NEW l \in Link, LoseSession(l) PROVE GossipInv'
  <2>1. channel' = [channel EXCEPT ![l] = <<>>]
    BY <1>6 DEF LoseSession
  <2>2. GoodChannels(channel')
    <3>1. GoodChannels(channel)
      BY HopParts
    <3>2. channel' = [k \in Link |-> IF k = l THEN <<>> ELSE channel[k]]
      BY <2>1, Zenon DEF HopInv
    <3> QED
      BY <3>1, <3>2, SeqParts, Zenon DEF GoodChannels
  <2>3. UNCHANGED <<originated, seen, recorded, delivered, relayed>> /\ faults' \in 0..MaxFaults
    BY <1>6, FaultCount DEF LoseSession
  <2>4. HopInv'
    BY <1>n, <2>2, HopStep
  <2> QED
    BY <1>k, <1>o, <1>s, <2>3, <2>4 DEF Types
<1>7. ASSUME NEW n \in Node, Restart(n) PROVE GossipInv'
  <2>1. channel' = [l \in Link |-> IF n \in {l[1], l[2]} THEN <<>> ELSE channel[l]]
    BY <1>7 DEF Restart
  <2>2. GoodChannels(channel')
    <3>1. GoodChannels(channel)
      BY HopParts
    <3> QED
      BY <2>1, <3>1, SeqParts, Zenon DEF GoodChannels
  <2>3. UNCHANGED <<originated, recorded, relayed>> /\ faults' \in 0..MaxFaults
    BY <1>7, FaultCount DEF Restart
  <2>4. SeenInv' /\ seen' \in [Node -> SUBSET Msg] /\ delivered' \in [Node -> [Msg -> Nat]]
    BY <1>7, <1>n, RememberNone DEF Restart
  <2>5. HopInv'
    BY <1>n, <2>2, HopStep
  <2> QED
    BY <1>k, <1>o, <2>3, <2>4, <2>5 DEF Types
<1>8. ASSUME NEW n \in Node, NEW m \in Msg, Expire(n, m) PROVE GossipInv'
  <2>1. UNCHANGED <<originated, channel, recorded, relayed>> /\ faults' \in 0..MaxFaults
    BY <1>8, FaultCount DEF Expire
  <2>2. Remember(n, seen[n] \ {m}, {}) /\ seen[n] \ {m} \in SUBSET Msg
    BY <1>8 DEF Expire, Types
  <2>3. SeenInv' /\ seen' \in [Node -> SUBSET Msg] /\ delivered' \in [Node -> [Msg -> Nat]]
    BY <1>n, <2>2, RememberNone
  <2> QED
    BY <1>h, <1>k, <1>o, <2>1, <2>3 DEF Types
<1>9. CASE UNCHANGED vars
  BY <1>9, <1>h, <1>k, <1>o, <1>s DEF vars, Types
<1> QED
  BY <1>1, <1>2, <1>3, <1>4, <1>5, <1>6, <1>7, <1>8, <1>9 DEF Next, Handling, Receive

(* A broadcast reaches the layers above a node once for as long as the     *)
(* node remembers it, never at its origin, and no further than             *)
(* broadcast_ttl hops away: for any network, any paths and any order in    *)
(* which its copies arrive, while caches of any size evict, expire and are *)
(* lost in a restart.                                                      *)
THEOREM BroadcastDeliveredOnce ==
  ASSUME Constants
  PROVE  Spec => []DeliveredOnce
<1>1. Init => GossipInv
  BY GossipInit
<1>2. GossipInv /\ [Next]_vars => GossipInv'
  BY GossipStep
<1>3. GossipInv => DeliveredOnce
  BY DEF GossipInv, NetOK, Types, HopInv, SeenInv, DeliveredOnce, TypeOK
<1> QED
  BY <1>1, <1>2, <1>3, PTL DEF Spec

(* Of the nodes that share a Redis server at most one sends a              *)
(* KafkaBroadcast, though commands and replies are lost and retried and    *)
(* nodes forget what they have seen.                                       *)
THEOREM OneNodeSendsPerStore ==
  ASSUME Constants
  PROVE  Spec => []OneRelayPerStore
<1>1. Init => GossipInv
  BY GossipInit
<1>2. GossipInv /\ [Next]_vars => GossipInv'
  BY GossipStep
<1>3. GossipInv => OneRelayPerStore
  BY DEF GossipInv, StoreInv
<1> QED
  BY <1>1, <1>2, <1>3, PTL DEF Spec

-----------------------------------------------------------------------------
(* TcpEgress *)

(* Types, and a finite number of streams in the map. *)
EgressTypes ==
  /\ streams \in [Id -> Socket \cup {None}]
  /\ stopping \in BOOLEAN
  /\ threads = {s \in Socket : reader[s] # "none"}
  /\ idof \in [Socket -> Id \cup {None}]
  /\ fdof \in [Socket -> Fd \cup {None}]
  /\ open \in [Socket -> BOOLEAN]
  /\ fds \in [Fd -> Socket \cup {None}]
  /\ write_shut \subseteq Socket
  /\ reader \in [Socket -> ReaderStep]
  /\ reading \in [Socket -> Socket \cup {None}]
  /\ loop \in [at : {"idle", "connect", "insert", "send", "finish", "close"},
               id : Id \cup {None}, s : Socket \cup {None}]
  /\ stopper \in [at : {"running", "collect", "close", "join", "stopped"}, left : SUBSET Socket]

(* The limit on streams. *)
LimitInv == IsFiniteSet(Active) /\ Cardinality(Active) <= MaxStreams

(* A socket is in the table of descriptors exactly as long as somebody is  *)
(* still to close it: as long as its open flag is set, or its reader has   *)
(* cleared the flag and is on the way to close.                            *)
Closing(s) == reader[s] \in {"remove_open", "close"}
Owned(s) == open[s] \/ Closing(s)
FdInv ==
  \A s \in Socket :
    /\ Owned(s) => fdof[s] \in Fd /\ fds[fdof[s]] = s
    /\ \A f \in Fd : fds[f] = s => f = fdof[s] /\ Owned(s)

(* What the threads know.  A Stream that does not exist yet is nowhere;    *)
(* one that is open has a reader or is about to be inserted; a reader that *)
(* waits, waits on the socket of its own stream while that is open.        *)
ThreadInv ==
  /\ \A s \in Socket :
       /\ idof[s] = None => ~ open[s] /\ reader[s] = "none"
       /\ idof[s] # None => fdof[s] \in Fd
       /\ open[s] => /\ reader[s] \notin {"remove_open", "close", "remove", "done"}
                     /\ reader[s] # "none" \/ (loop.at = "insert" /\ loop.s = s)
                     /\ reader[s] = "recv" => reading[s] = s
  /\ loop.at \in {"connect", "insert", "send"} => loop.id \in Id
  /\ loop.at \in {"insert", "send", "finish", "close"} => loop.s \in Socket
  /\ loop.at = "insert" => reader[loop.s] = "none" /\ idof[loop.s] # None
  /\ stopper.at # "running" => stopping
  /\ stopper.at = "stopped" => \A s \in Socket : reader[s] \in {"none", "done"}

EgressInv == EgressTypes /\ LimitInv /\ FdInv /\ ThreadInv

(* Egress starts with an empty table of streams and no readers. *)
LEMMA EgressInvInit == EgressConstants /\ EgressInit => EgressInv
<1> SUFFICES ASSUME EgressConstants, EgressInit PROVE EgressInv
  OBVIOUS
<1> USE DEF EgressInit, EgressConstants
<1>1. EgressTypes
  BY Zenon DEF EgressTypes, ReaderStep, Idle
<1>2. Active = {}
  BY DEF Active
<1>3. LimitInv
  BY <1>2, FS_EmptySet DEF LimitInv
<1>4. FdInv
  BY DEF FdInv, Owned, Closing
<1>5. ThreadInv
  BY DEF ThreadInv, Idle
<1> QED
  BY <1>1, <1>3, <1>4, <1>5 DEF EgressInv

(* Streams that leave the map make room. *)
LEMMA LimitKept ==
  ASSUME EgressConstants, LimitInv, Active' \subseteq Active
  PROVE  LimitInv'
<1>1. /\ IsFiniteSet(Active')
      /\ Cardinality(Active') <= Cardinality(Active)
  BY FS_Subset DEF LimitInv
<1>2. Cardinality(Active) \in Nat /\ Cardinality(Active') \in Nat
  BY <1>1, FS_CardinalityType DEF LimitInv
<1> QED
  BY <1>1, <1>2 DEF LimitInv, EgressConstants

(* Only Insert adds a stream, and it checks the limit again under the      *)
(* lock: every step keeps LimitInv.                                        *)
LEMMA LimitStep ==
  ASSUME EgressConstants, EgressInv, [EgressNext]_egress_vars
  PROVE  LimitInv'
<1> USE DEF EgressInv
<1>0. ASSUME UNCHANGED streams PROVE LimitInv'
  BY <1>0, LimitKept DEF Active
<1>1. ASSUME NEW i \in Id, streams' = [streams EXCEPT ![i] = None] PROVE LimitInv'
  BY <1>1, LimitKept DEF Active, EgressTypes
<1>2. CASE Insert
  <2>1. CASE stopping \/ streams[loop.id] # None \/ ~ HasRoom
    BY <1>0, <1>2, <2>1 DEF Insert
  <2>2. CASE ~ (stopping \/ streams[loop.id] # None \/ ~ HasRoom)
    <3>1. streams' = [streams EXCEPT ![loop.id] = loop.s] /\ loop.id \in Id
      BY <1>2, <2>2 DEF Insert, ThreadInv
    <3>2. Active' \subseteq Active \cup {loop.id}
      BY <3>1 DEF Active, EgressTypes
    <3>3. Cardinality(Active) < MaxStreams
      BY <2>2 DEF HasRoom
    <3>4. Cardinality(Active) \in Nat
      BY FS_CardinalityType DEF LimitInv
    <3>5. /\ IsFiniteSet(Active \cup {loop.id})
          /\ Cardinality(Active \cup {loop.id}) <= Cardinality(Active) + 1
      <4>1. IsFiniteSet(Active)
        BY DEF LimitInv
      <4>2. /\ IsFiniteSet(Active \cup {loop.id})
            /\ Cardinality(Active \cup {loop.id}) =
                 IF loop.id \in Active THEN Cardinality(Active) ELSE Cardinality(Active) + 1
        BY <4>1, FS_AddElement
      <4> QED
        BY <3>4, <4>2
    <3>6. /\ IsFiniteSet(Active')
          /\ Cardinality(Active') <= Cardinality(Active \cup {loop.id})
      BY <3>2, <3>5, FS_Subset
    <3>7. Cardinality(Active \cup {loop.id}) \in Nat /\ Cardinality(Active') \in Nat
      BY <3>5, <3>6, FS_CardinalityType
    <3> QED
      BY <3>3, <3>4, <3>5, <3>6, <3>7 DEF LimitInv, EgressConstants
  <2> QED
    BY <2>1, <2>2
<1>3. ASSUME NEW i \in Id, BeginClose(i) PROVE LimitInv'
  BY <1>1, <1>3, Zenon DEF BeginClose
<1>4. CASE Send
  <2>1. loop.id \in Id
    BY <1>4 DEF Send, ThreadInv
  <2> QED
    BY <1>0, <1>1, <1>4, <2>1 DEF Send
<1>5. ASSUME NEW s \in Socket, Remove(s) PROVE LimitInv'
  <2>1. reader[s] # "none"
    BY <1>5 DEF Remove, Step
  <2>2. idof[s] \in Id
    BY <2>1 DEF ThreadInv, EgressTypes
  <2> QED
    BY <1>1, <1>5, <2>2, Zenon DEF Remove
<1>6. CASE Collect
  <2>1. Active' = {}
    BY <1>6 DEF Collect, Active
  <2> QED
    BY <2>1, LimitKept
<1>7. ASSUME NEW i \in Id, BeginOpen(i) \/ BeginSend(i) \/ BeginFinish(i)
      PROVE  LimitInv'
  BY <1>0, <1>7 DEF BeginOpen, BeginSend, BeginFinish
<1>8. CASE Connect \/ Finish \/ Close
  BY <1>0, <1>8, Zenon DEF Connect, Finish, Close
<1>9. ASSUME NEW s \in Socket,
             \/ Check(s) \/ Call(s) \/ ReceiveData(s) \/ ReceiveEnd(s)
             \/ Exchange(s) \/ CloseSocket(s)
      PROVE  LimitInv'
  BY <1>0, <1>9 DEF Check, Call, ReceiveData, ReceiveEnd,
                    Exchange, CloseSocket
<1>10. CASE BeginStop \/ StopClose \/ Join \/ UNCHANGED egress_vars
  BY <1>0, <1>10 DEF BeginStop, StopClose, Join, egress_vars
<1> QED
  BY <1>2, <1>3, <1>4, <1>5, <1>6, <1>7, <1>8, <1>9, <1>10
     DEF EgressNext, LoopThread, Stop, Read

(* Every step of the loop, the readers and stop keeps the types. *)
LEMMA EgressTypesStep ==
  ASSUME EgressConstants, EgressInv, [EgressNext]_egress_vars
  PROVE  EgressTypes'
<1> USE DEF EgressInv, EgressTypes, ReaderStep, Idle
<1>0. ASSUME NEW s \in Socket, close_fd(s)
      PROVE  open' \in [Socket -> BOOLEAN] /\ fds' \in [Fd -> Socket \cup {None}]
  BY <1>0, Zenon DEF close_fd
<1>1. ASSUME NEW i \in Id, BeginOpen(i) PROVE EgressTypes'
  BY <1>1, Zenon DEF BeginOpen
<1>2. CASE Connect
  <2>1. loop.id \in Id
    BY <1>2, Zenon DEF Connect, ThreadInv
  <2>2. ASSUME NEW s \in Socket, NEW f \in Fd,
               idof' = [idof EXCEPT ![s] = loop.id], fdof' = [fdof EXCEPT ![s] = f],
               open' = [open EXCEPT ![s] = TRUE], fds' = [fds EXCEPT ![f] = s],
               loop' = [loop EXCEPT !.at = "insert", !.s = s]
        PROVE  EgressTypes'
    <3>1. loop' \in [at : {"idle", "connect", "insert", "send", "finish", "close"},
                     id : Id \cup {None}, s : Socket \cup {None}]
      BY <2>2, Zenon
    <3>2. idof' \in [Socket -> Id \cup {None}] /\ fdof' \in [Socket -> Fd \cup {None}]
      BY <2>1, <2>2
    <3>3. open' \in [Socket -> BOOLEAN] /\ fds' \in [Fd -> Socket \cup {None}]
      BY <2>2
    <3> QED
      BY <1>2, <3>1, <3>2, <3>3, Zenon DEF Connect
  <2>3. CASE loop' = Idle /\ UNCHANGED <<idof, fdof, open, fds>>
    BY <1>2, <2>3 DEF Connect
  <2> QED
    BY <1>2, <2>2, <2>3, Zenon DEF Connect
<1>3. CASE Insert
  <2>1. loop.s \in Socket /\ loop.id \in Id /\ reader[loop.s] = "none"
    BY <1>3 DEF Insert, ThreadInv
  <2>2. CASE stopping \/ streams[loop.id] # None \/ ~ HasRoom
    BY <1>0, <1>3, <2>1, <2>2 DEF Insert
  <2>3. CASE ~ (stopping \/ streams[loop.id] # None \/ ~ HasRoom)
    BY <1>3, <2>1, <2>3 DEF Insert
  <2> QED
    BY <2>2, <2>3
<1>4. ASSUME NEW i \in Id, BeginClose(i) PROVE EgressTypes'
  BY <1>4 DEF BeginClose
<1>5. ASSUME NEW i \in Id, BeginSend(i) PROVE EgressTypes'
  BY <1>5 DEF BeginSend
<1>6. CASE Send
  <2>1. loop.id \in Id /\ streams[loop.id] \in Socket \cup {None}
    BY <1>6 DEF Send, ThreadInv
  <2>2. streams' = streams \/ streams' = [streams EXCEPT ![loop.id] = None]
    BY <1>6 DEF Send
  <2>3. loop' = Idle \/ loop' = [loop EXCEPT !.at = "close", !.s = streams[loop.id]]
    BY <1>6 DEF Send
  <2>4. loop' \in [at : {"idle", "connect", "insert", "send", "finish", "close"},
                   id : Id \cup {None}, s : Socket \cup {None}]
    <3>1. CASE loop' = Idle
      BY <3>1
    <3>2. CASE loop' = [loop EXCEPT !.at = "close", !.s = streams[loop.id]]
      <4>1. loop' = [at |-> "close", id |-> loop.id, s |-> streams[loop.id]]
        BY <3>2, Zenon
      <4> QED
        BY <2>1, <4>1
    <3> QED
      BY <2>3, <3>1, <3>2
  <2> QED
    BY <1>6, <2>2, <2>4 DEF Send
<1>7. ASSUME NEW i \in Id, BeginFinish(i) PROVE EgressTypes'
  BY <1>7 DEF BeginFinish
<1>8. CASE Finish
  BY <1>8 DEF Finish, ThreadInv
<1>9. CASE Close
  BY <1>0, <1>9 DEF Close, ThreadInv
<1>10. ASSUME NEW s \in Socket, NEW to \in ReaderStep \ {"none"}, reader[s] # "none",
              reader' = [reader EXCEPT ![s] = to], threads' = threads
       PROVE  threads' = {t \in Socket : reader'[t] # "none"} /\ reader' \in [Socket -> ReaderStep]
  BY <1>10
<1>11. ASSUME NEW s \in Socket, Check(s) PROVE EgressTypes'
  BY <1>10, <1>11 DEF Check, Step
<1>12. ASSUME NEW s \in Socket, Call(s) PROVE EgressTypes'
  <2>1. fdof[s] \in Fd
    BY <1>12 DEF Call, Step, ThreadInv
  <2> QED
    BY <1>10, <1>12, <2>1 DEF Call, Step
<1>13. ASSUME NEW s \in Socket, ReceiveData(s) \/ ReceiveEnd(s) PROVE EgressTypes'
  BY <1>10, <1>13 DEF ReceiveData, ReceiveEnd, Step
<1>14. ASSUME NEW s \in Socket, Exchange(s) PROVE EgressTypes'
  BY <1>10, <1>14 DEF Exchange, Step
<1>15. ASSUME NEW s \in Socket, Remove(s) PROVE EgressTypes'
  BY <1>10, <1>15, Zenon DEF Remove, Step
<1>16. ASSUME NEW s \in Socket, CloseSocket(s) PROVE EgressTypes'
  BY <1>10, <1>16, Zenon DEF CloseSocket, Step
<1>17. CASE BeginStop
  BY <1>17 DEF BeginStop
<1>18. CASE Collect
  BY <1>18 DEF Collect, Active
<1>19. CASE StopClose
  BY <1>0, <1>19 DEF StopClose
<1>20. CASE Join
  BY <1>20 DEF Join
<1>21. CASE UNCHANGED egress_vars
  BY <1>21 DEF egress_vars
<1> QED
  BY <1>1, <1>2, <1>3, <1>4, <1>5, <1>6, <1>7, <1>8, <1>9, <1>11, <1>12, <1>13, <1>14, <1>15,
     <1>16, <1>17, <1>18, <1>19, <1>20, <1>21, Zenon
     DEF EgressNext, LoopThread, Stop, Read

(* Whoever clears the flag of a stream and closes its descriptor leaves    *)
(* the descriptors of all others alone.                                    *)
LEMMA CloseKeepsOthers ==
  ASSUME EgressConstants, EgressTypes, FdInv, ThreadInv, NEW s \in Socket, close_fd(s),
         UNCHANGED <<fdof, reader>>
  PROVE  FdInv'
<1>1. CASE open[s]
  <2>1. /\ open' = [open EXCEPT ![s] = FALSE] /\ fds' = [fds EXCEPT ![fdof[s]] = None]
        /\ fdof[s] \in Fd /\ fds[fdof[s]] = s
    BY <1>1 DEF close_fd, FdInv, Owned
  <2>2. ~ Closing(s)
    BY <1>1 DEF ThreadInv, Closing
  <2>3. \A t \in Socket : (Owned(t)' <=> Owned(t) /\ t # s)
    BY <2>1, <2>2 DEF Owned, Closing, EgressTypes
  <2>4. \A f \in Fd : fds'[f] = IF f = fdof[s] THEN None ELSE fds[f]
    BY <2>1 DEF EgressTypes
  <2> SUFFICES ASSUME NEW t \in Socket
               PROVE  /\ Owned(t)' => fdof[t] \in Fd /\ fds'[fdof[t]] = t
                      /\ \A f \in Fd : fds'[f] = t => f = fdof[t] /\ Owned(t)'
    BY Zenon DEF FdInv
  <2>5. t # None
    BY DEF EgressConstants
  <2> QED
    BY <2>1, <2>3, <2>4, <2>5 DEF FdInv
<1>2. CASE ~ open[s]
  BY <1>2 DEF close_fd, FdInv, Owned, Closing, EgressTypes
<1> QED
  BY <1>1, <1>2

(* Every step keeps FdInv: a descriptor is closed once, by whoever cleared *)
(* the open flag of its stream.                                            *)
LEMMA FdStep ==
  ASSUME EgressConstants, EgressInv, [EgressNext]_egress_vars
  PROVE  FdInv'
<1> USE DEF EgressInv
<1>0. ASSUME UNCHANGED <<open, fds, fdof>>,
             \A s \in Socket : Closing(s)' = Closing(s)
      PROVE  FdInv'
  BY <1>0 DEF FdInv, Owned
<1>1. CASE Connect
  <2>1. ASSUME NEW s \in Socket, NEW f \in Fd, idof[s] = None, fds[f] = None,
               fdof' = [fdof EXCEPT ![s] = f], open' = [open EXCEPT ![s] = TRUE],
               fds' = [fds EXCEPT ![f] = s]
        PROVE  FdInv'
    <3>1. ~ Owned(s)
      BY <2>1 DEF ThreadInv, Owned, Closing
    <3>2. reader' = reader
      BY <1>1, Zenon DEF Connect
    <3>3. \A t \in Socket : (Owned(t)' <=> Owned(t) \/ t = s)
      BY <2>1, <3>2 DEF Owned, Closing, EgressTypes
    <3>4. \A g \in Fd : fds'[g] = IF g = f THEN s ELSE fds[g]
      BY <2>1 DEF EgressTypes
    <3>5. \A t \in Socket : fdof'[t] = IF t = s THEN f ELSE fdof[t]
      BY <2>1 DEF EgressTypes
    <3>6. \A t \in Socket : t # None
      BY DEF EgressConstants
    <3> SUFFICES ASSUME NEW t \in Socket
                 PROVE  /\ Owned(t)' => fdof'[t] \in Fd /\ fds'[fdof'[t]] = t
                        /\ \A g \in Fd : fds'[g] = t => g = fdof'[t] /\ Owned(t)'
      BY DEF FdInv
    <3>7. CASE t = s
      BY <3>1, <3>3, <3>4, <3>5, <3>7 DEF FdInv
    <3>8. CASE t # s
      BY <2>1, <3>3, <3>4, <3>5, <3>6, <3>8 DEF FdInv
    <3> QED
      BY <3>7, <3>8
  <2>2. CASE UNCHANGED <<idof, fdof, open, fds>>
    BY <1>0, <1>1, <2>2, Zenon DEF Connect, Closing
  <2> QED
    BY <1>1, <2>1, <2>2, Zenon DEF Connect
<1>2. CASE Insert
  <2>1. loop.s \in Socket /\ reader[loop.s] = "none"
    BY <1>2 DEF Insert, ThreadInv
  <2>2. CASE stopping \/ streams[loop.id] # None \/ ~ HasRoom
    BY <1>2, <2>1, <2>2, CloseKeepsOthers DEF Insert
  <2>3. CASE ~ (stopping \/ streams[loop.id] # None \/ ~ HasRoom)
    <3>1. reader' = [reader EXCEPT ![loop.s] = "check"] /\ UNCHANGED <<open, fds, fdof>>
      BY <1>2, <2>3 DEF Insert
    <3> QED
      BY <1>0, <2>1, <3>1 DEF Closing, EgressTypes
  <2> QED
    BY <2>2, <2>3
<1>3. CASE Close
  <2>1. loop.s \in Socket
    BY <1>3 DEF Close, ThreadInv
  <2> QED
    BY <1>3, <2>1, CloseKeepsOthers DEF Close
<1>4. CASE StopClose
  <2>1. ASSUME NEW s \in stopper.left, close_fd(s) PROVE FdInv'
    BY <1>4, <2>1, CloseKeepsOthers DEF StopClose, EgressTypes
  <2> QED
    BY <1>0, <1>4, <2>1 DEF StopClose, Closing
<1>5. ASSUME NEW s \in Socket, Exchange(s) PROVE FdInv'
  <2>1. /\ reader[s] = "exchange" /\ open' = [open EXCEPT ![s] = FALSE] /\ UNCHANGED <<fdof, fds>>
        /\ reader' = [reader EXCEPT ![s] = IF open[s] THEN "remove_open" ELSE "remove"]
    BY <1>5 DEF Exchange, Step
  <2>2. reader'[s] = (IF open[s] THEN "remove_open" ELSE "remove") /\ open'[s] = FALSE
    BY <2>1 DEF EgressTypes
  <2>3. \A t \in Socket : t # s => reader'[t] = reader[t] /\ open'[t] = open[t]
    BY <2>1 DEF EgressTypes
  <2>4. \A t \in Socket : Owned(t)' = Owned(t)
    BY <2>1, <2>2, <2>3 DEF Owned, Closing, EgressTypes
  <2> QED
    BY <2>1, <2>4 DEF FdInv
<1>6. ASSUME NEW s \in Socket, Remove(s) PROVE FdInv'
  <2>1. \A t \in Socket : Closing(t)' = Closing(t)
    BY <1>6 DEF Remove, Step, Closing, EgressTypes
  <2> QED
    BY <1>0, <1>6, <2>1 DEF Remove
<1>7. ASSUME NEW s \in Socket, CloseSocket(s) PROVE FdInv'
  <2>1. /\ reader[s] = "close" /\ reader' = [reader EXCEPT ![s] = "done"]
        /\ fds' = [fds EXCEPT ![fdof[s]] = None] /\ UNCHANGED <<open, fdof>>
    BY <1>7 DEF CloseSocket, Step
  <2>2. fdof[s] \in Fd /\ fds[fdof[s]] = s /\ ~ open[s]
    BY <2>1 DEF FdInv, Owned, Closing, ThreadInv
  <2>3. \A t \in Socket : (Owned(t)' <=> Owned(t) /\ t # s)
    BY <2>1, <2>2 DEF Owned, Closing, EgressTypes
  <2>4. \A f \in Fd : fds'[f] = IF f = fdof[s] THEN None ELSE fds[f]
    BY <2>1 DEF EgressTypes
  <2>5. \A t \in Socket : t # None
    BY DEF EgressConstants
  <2> SUFFICES ASSUME NEW t \in Socket
               PROVE  /\ Owned(t)' => fdof[t] \in Fd /\ fds'[fdof[t]] = t
                      /\ \A f \in Fd : fds'[f] = t => f = fdof[t] /\ Owned(t)'
    BY <2>1 DEF FdInv
  <2>6. /\ Owned(t) => fdof[t] \in Fd /\ fds[fdof[t]] = t
        /\ \A f \in Fd : fds[f] = t => f = fdof[t] /\ Owned(t)
    BY DEF FdInv
  <2>7. Owned(t)' => fdof[t] \in Fd /\ fds'[fdof[t]] = t
    BY <2>2, <2>3, <2>4, <2>6
  <2>8. ASSUME NEW f \in Fd, fds'[f] = t PROVE f = fdof[t] /\ Owned(t)'
    <3>1. f # fdof[s] /\ fds[f] = t
      BY <2>4, <2>5, <2>8
    <3> QED
      BY <2>2, <2>3, <2>6, <3>1
  <2> QED
    BY <2>7, <2>8
<1>8. ASSUME NEW s \in Socket,
             Check(s) \/ Call(s) \/ ReceiveData(s) \/ ReceiveEnd(s)
      PROVE  FdInv'
  <2>1. /\ UNCHANGED <<open, fds, fdof>> /\ reader[s] \notin {"remove_open", "close"}
        /\ \E to \in {"call", "exchange", "recv", "check"} : reader' = [reader EXCEPT ![s] = to]
    BY <1>8 DEF Check, Call, ReceiveData, ReceiveEnd, Step
  <2>2. \A t \in Socket : Closing(t)' = Closing(t)
    BY <2>1 DEF Closing, EgressTypes
  <2> QED
    BY <1>0, <2>1, <2>2
<1>9. ASSUME UNCHANGED <<open, fds, fdof, reader>> PROVE FdInv'
  BY <1>0, <1>9 DEF Closing
<1>10. ASSUME NEW i \in Id, \/ BeginOpen(i) \/ BeginClose(i)
                            \/ BeginSend(i) \/ BeginFinish(i)
       PROVE  FdInv'
  BY <1>9, <1>10 DEF BeginOpen, BeginClose, BeginSend, BeginFinish
<1>11. CASE Send \/ Finish \/ UNCHANGED egress_vars
  BY <1>9, <1>11 DEF Send, Finish, egress_vars
<1>12. CASE BeginStop \/ Collect \/ Join
  BY <1>9, <1>12 DEF BeginStop, Collect, Join
<1> QED
  BY <1>1, <1>2, <1>3, <1>4, <1>5, <1>6, <1>7, <1>8, <1>10, <1>11, <1>12
     DEF EgressNext, LoopThread, Stop, Read

(* The parts of ThreadInv about one stream, and about the loop and stop. *)
StreamKnown(s) ==
  /\ idof[s] = None => ~ open[s] /\ reader[s] = "none"
  /\ idof[s] # None => fdof[s] \in Fd
  /\ open[s] => /\ reader[s] \notin {"remove_open", "close", "remove", "done"}
                /\ reader[s] # "none" \/ (loop.at = "insert" /\ loop.s = s)
                /\ reader[s] = "recv" => reading[s] = s
LoopKnown ==
  /\ loop.at \in {"connect", "insert", "send"} => loop.id \in Id
  /\ loop.at \in {"insert", "send", "finish", "close"} => loop.s \in Socket
  /\ loop.at = "insert" => reader[loop.s] = "none" /\ idof[loop.s] # None
StopKnown ==
  /\ stopper.at # "running" => stopping
  /\ stopper.at = "stopped" => \A s \in Socket : reader[s] \in {"none", "done"}

(* ThreadInv, by the thread it is about. *)
LEMMA ThreadInvParts ==
  /\ ThreadInv <=> (\A s \in Socket : StreamKnown(s)) /\ LoopKnown /\ StopKnown
  /\ ThreadInv' <=> (\A s \in Socket : StreamKnown(s)') /\ LoopKnown' /\ StopKnown'
  BY DEF ThreadInv, StreamKnown, LoopKnown, StopKnown

(* Every step keeps ThreadInv: what the loop, the readers and stop know    *)
(* stays true while the others run.                                        *)
LEMMA ThreadStep ==
  ASSUME EgressConstants, EgressInv, [EgressNext]_egress_vars
  PROVE  ThreadInv'
<1> USE DEF EgressInv
<1>a. (\A s \in Socket : StreamKnown(s)) /\ LoopKnown /\ StopKnown
  BY ThreadInvParts
<1> SUFFICES (\A s \in Socket : StreamKnown(s)') /\ LoopKnown' /\ StopKnown'
  BY ThreadInvParts
(* The loop thread takes up a frame or is done with it. *)
<1>0. ASSUME UNCHANGED <<idof, fdof, open, reader, reading, stopper, stopping>>,
             loop.at # "insert", loop'.at # "insert",
             loop'.at \in {"connect", "send"} => loop'.id \in Id,
             loop'.at \in {"send", "finish", "close"} => loop'.s \in Socket
      PROVE  (\A s \in Socket : StreamKnown(s)') /\ LoopKnown' /\ StopKnown'
  BY <1>0, <1>a DEF StreamKnown, LoopKnown, StopKnown
(* A flag is cleared by a thread other than the stream's reader. *)
<1>c. ASSUME NEW s \in Socket, close_fd(s), UNCHANGED <<idof, fdof, reader, reading>>,
             loop' = loop \/ (loop' = Idle /\ (loop.at = "insert" => loop.s = s)),
             stopping' = stopping, StopKnown'
      PROVE  (\A t \in Socket : StreamKnown(t)') /\ LoopKnown' /\ StopKnown'
  <2>1. open'[s] = FALSE /\ \A t \in Socket : t # s => open'[t] = open[t]
    BY <1>c DEF close_fd, EgressTypes
  <2>2. \A t \in Socket : StreamKnown(t)'
    BY <1>a, <1>c, <2>1, Zenon DEF StreamKnown
  <2>3. LoopKnown'
    BY <1>a, <1>c DEF LoopKnown, Idle
  <2> QED
    BY <1>c, <2>2, <2>3
<1>1. ASSUME NEW i \in Id, BeginOpen(i)
      PROVE  (\A s \in Socket : StreamKnown(s)') /\ LoopKnown' /\ StopKnown'
  <2>1. loop'.at = "connect" /\ loop'.id = i /\ loop.at = "idle"
    BY <1>1 DEF BeginOpen, Idle
  <2> QED
    BY <1>0, <1>1, <2>1 DEF BeginOpen
<1>2. CASE Connect
  <2>1. ASSUME NEW s \in Socket, NEW f \in Fd, idof[s] = None,
               idof' = [idof EXCEPT ![s] = loop.id],
               fdof' = [fdof EXCEPT ![s] = f], open' = [open EXCEPT ![s] = TRUE],
               loop' = [loop EXCEPT !.at = "insert", !.s = s]
        PROVE  (\A t \in Socket : StreamKnown(t)') /\ LoopKnown' /\ StopKnown'
    <3>1. loop'.at = "insert" /\ loop'.s = s /\ loop'.id = loop.id
      BY <2>1 DEF EgressTypes
    <3>2. loop.id \in Id /\ loop.at = "connect"
      BY <1>2, <1>a, Zenon DEF Connect, LoopKnown
    <3>3. idof'[s] = loop.id /\ fdof'[s] = f /\ reader[s] = "none"
      BY <1>a, <2>1 DEF EgressTypes, StreamKnown
    <3>4. \A t \in Socket : t # s =>
            idof'[t] = idof[t] /\ fdof'[t] = fdof[t] /\ open'[t] = open[t]
      BY <2>1 DEF EgressTypes
    <3>5. UNCHANGED <<reader, reading, stopper, stopping>>
      BY <1>2, Zenon DEF Connect
    <3>6. loop.id # None
      BY <3>2 DEF EgressConstants
    <3>7. StreamKnown(s)'
      BY <3>1, <3>3, <3>5, <3>6 DEF StreamKnown
    <3>8. \A t \in Socket : t # s => StreamKnown(t)'
      BY <1>a, <3>1, <3>2, <3>4, <3>5 DEF StreamKnown
    <3>9. LoopKnown' /\ StopKnown'
      BY <1>a, <3>1, <3>2, <3>3, <3>5, <3>6, Zenon DEF LoopKnown, StopKnown
    <3> QED
      BY <3>7, <3>8, <3>9
  <2>2. CASE loop' = Idle /\ UNCHANGED <<idof, fdof, open>>
    BY <1>0, <1>2, <2>2, Zenon DEF Connect, Idle
  <2> QED
    BY <1>2, <2>1, <2>2, Zenon DEF Connect
<1>3. CASE Insert
  <2>1. loop.s \in Socket /\ reader[loop.s] = "none" /\ idof[loop.s] # None /\ loop.at = "insert"
    BY <1>3, <1>a, Zenon DEF Insert, LoopKnown
  <2>2. CASE stopping \/ streams[loop.id] # None \/ ~ HasRoom
    <3>1. StopKnown'
      BY <1>a, <1>3, <2>2 DEF Insert, StopKnown
    <3> QED
      BY <1>c, <1>3, <2>1, <2>2, <3>1, Zenon DEF Insert
  <2>3. CASE ~ (stopping \/ streams[loop.id] # None \/ ~ HasRoom)
    <3>1. /\ reader' = [reader EXCEPT ![loop.s] = "check"] /\ loop' = Idle /\ ~ stopping
          /\ UNCHANGED <<idof, fdof, open, reading, stopper, stopping>>
      BY <1>3, <2>3 DEF Insert
    <3>2. reader'[loop.s] = "check" /\ \A t \in Socket : t # loop.s => reader'[t] = reader[t]
      BY <2>1, <3>1 DEF EgressTypes
    <3>3. \A t \in Socket : StreamKnown(t)'
      BY <1>a, <2>1, <3>1, <3>2 DEF StreamKnown
    <3>4. LoopKnown' /\ StopKnown'
      BY <1>a, <3>1 DEF LoopKnown, StopKnown, Idle
    <3> QED
      BY <3>3, <3>4
  <2> QED
    BY <2>2, <2>3
<1>4. ASSUME NEW i \in Id, BeginClose(i) \/ BeginSend(i) \/ BeginFinish(i)
      PROVE  (\A s \in Socket : StreamKnown(s)') /\ LoopKnown' /\ StopKnown'
  <2>1. /\ loop'.at \in {"close", "send", "finish"} /\ loop'.id = i /\ loop'.s \in Socket
        /\ loop.at = "idle"
    BY <1>4 DEF BeginClose, BeginSend, BeginFinish, EgressTypes
  <2> QED
    BY <1>0, <1>4, <2>1 DEF BeginClose, BeginSend, BeginFinish
<1>5. CASE Send
  <2>1. loop.at = "send" /\ loop.id \in Id
    BY <1>5, <1>a DEF Send, LoopKnown
  <2>2. \/ loop' = Idle
        \/ streams[loop.id] # None /\ loop' = [loop EXCEPT !.at = "close", !.s = streams[loop.id]]
    BY <1>5 DEF Send
  <2>3. loop'.at = "idle" \/ (loop'.at = "close" /\ loop'.s \in Socket)
    <3>1. CASE loop' = Idle
      BY <3>1 DEF Idle
    <3>2. CASE streams[loop.id] # None /\ loop' = [loop EXCEPT !.at = "close", !.s = streams[loop.id]]
      <4>1. loop'.at = "close" /\ loop'.s = streams[loop.id]
        BY <3>2 DEF EgressTypes
      <4> QED
        BY <2>1, <3>2, <4>1 DEF EgressTypes
    <3> QED
      BY <2>2, <3>1, <3>2
  <2> QED
    BY <1>0, <1>5, <2>1, <2>3 DEF Send
<1>6. CASE Finish
  BY <1>0, <1>6 DEF Finish, Idle
<1>7. CASE Close
  <2>1. loop.s \in Socket /\ loop.at = "close" /\ StopKnown'
    BY <1>7, <1>a DEF Close, LoopKnown, StopKnown
  <2> QED
    BY <1>c, <1>7, <2>1 DEF Close
(* A reader's step. *)
<1>r. ASSUME NEW s \in Socket, reader[s] \notin {"none", "done"},
             NEW to \in ReaderStep \ {"none"}, reader' = [reader EXCEPT ![s] = to],
             open'[s] => open[s] /\ to \notin {"remove_open", "close", "remove", "done"},
             open'[s] /\ to = "recv" => reading'[s] = s,
             \A t \in Socket : t # s => open'[t] = open[t] /\ reading'[t] = reading[t],
             UNCHANGED <<idof, fdof, loop, stopper, stopping>>
      PROVE  (\A t \in Socket : StreamKnown(t)') /\ LoopKnown' /\ StopKnown'
  <2>1. reader'[s] = to /\ \A t \in Socket : t # s => reader'[t] = reader[t]
    BY <1>r DEF EgressTypes
  <2>2. idof[s] # None
    BY <1>a, <1>r DEF StreamKnown
  <2>3. \A t \in Socket : StreamKnown(t)'
    BY <1>a, <1>r, <2>1, <2>2 DEF StreamKnown
  <2>4. LoopKnown' /\ StopKnown'
    BY <1>a, <1>r, <2>1 DEF LoopKnown, StopKnown
  <2> QED
    BY <2>3, <2>4
<1>8. ASSUME NEW s \in Socket, Check(s)
      PROVE  (\A t \in Socket : StreamKnown(t)') /\ LoopKnown' /\ StopKnown'
  BY <1>8, <1>r, Zenon DEF Check, Step, ReaderStep
<1>9. ASSUME NEW s \in Socket, Call(s)
      PROVE  (\A t \in Socket : StreamKnown(t)') /\ LoopKnown' /\ StopKnown'
  <2>1. reader[s] = "call" /\ reading' = [reading EXCEPT ![s] = fds[fdof[s]]] /\ open' = open
    BY <1>9 DEF Call, Step
  <2>2. reading'[s] = fds[fdof[s]] /\ \A t \in Socket : t # s => reading'[t] = reading[t]
    BY <2>1 DEF EgressTypes
  <2>3. open[s] => fds[fdof[s]] = s
    BY DEF FdInv, Owned
  <2> QED
    BY <1>9, <1>r, <2>1, <2>2, <2>3, Zenon DEF Call, Step, ReaderStep
<1>10. ASSUME NEW s \in Socket, ReceiveData(s) \/ ReceiveEnd(s)
       PROVE  (\A t \in Socket : StreamKnown(t)') /\ LoopKnown' /\ StopKnown'
  BY <1>10, <1>r DEF ReceiveData, ReceiveEnd, Step, ReaderStep, EgressTypes
<1>11. ASSUME NEW s \in Socket, Exchange(s)
       PROVE  (\A t \in Socket : StreamKnown(t)') /\ LoopKnown' /\ StopKnown'
  <2>1. ~ open'[s] /\ \A t \in Socket : t # s => open'[t] = open[t]
    BY <1>11 DEF Exchange, EgressTypes
  <2> QED
    BY <1>11, <1>r, <2>1, Zenon DEF Exchange, Step, ReaderStep
<1>12. ASSUME NEW s \in Socket, Remove(s)
       PROVE  (\A t \in Socket : StreamKnown(t)') /\ LoopKnown' /\ StopKnown'
  <2>1. ~ open[s]
    BY <1>12, <1>a DEF Remove, Step, StreamKnown
  <2> QED
    BY <1>12, <1>r, <2>1, Zenon DEF Remove, Step, ReaderStep
<1>13. ASSUME NEW s \in Socket, CloseSocket(s)
       PROVE  (\A t \in Socket : StreamKnown(t)') /\ LoopKnown' /\ StopKnown'
  <2>1. ~ open[s]
    BY <1>13, <1>a DEF CloseSocket, Step, StreamKnown
  <2> QED
    BY <1>13, <1>r, <2>1, Zenon DEF CloseSocket, Step, ReaderStep
(* stop *)
<1>s. ASSUME UNCHANGED <<idof, fdof, open, reader, reading, loop>>, StopKnown'
      PROVE  (\A t \in Socket : StreamKnown(t)') /\ LoopKnown' /\ StopKnown'
  BY <1>a, <1>s DEF StreamKnown, LoopKnown
<1>14. CASE BeginStop
  BY <1>s, <1>14 DEF BeginStop, StopKnown, EgressTypes
<1>15. CASE Collect
  BY <1>a, <1>s, <1>15 DEF Collect, StopKnown
<1>16. CASE StopClose
  <2>1. stopper'.at # "stopped" /\ stopping /\ stopping' = stopping
    <3>1. stopper.at = "close" /\ stopping /\ stopping' = stopping
      BY <1>16, <1>a DEF StopClose, StopKnown
    <3>2. \/ stopper' = [stopper EXCEPT !.at = "join"]
          \/ \E s \in stopper.left : stopper' = [stopper EXCEPT !.left = @ \ {s}]
      BY <1>16 DEF StopClose
    <3> QED
      BY <3>1, <3>2 DEF EgressTypes
  <2>2. StopKnown'
    BY <2>1 DEF StopKnown
  <2>3. ASSUME NEW s \in stopper.left, close_fd(s)
        PROVE  (\A t \in Socket : StreamKnown(t)') /\ LoopKnown' /\ StopKnown'
    BY <1>c, <1>16, <2>2, <2>3 DEF StopClose, EgressTypes
  <2> QED
    BY <1>16, <1>s, <2>2, <2>3 DEF StopClose
<1>17. CASE Join
  <2>1. \A s \in Socket : reader[s] \in {"none", "done"}
    BY <1>17 DEF Join, EgressTypes
  <2> QED
    BY <1>a, <1>s, <1>17, <2>1 DEF Join, StopKnown
<1>18. CASE UNCHANGED egress_vars
  BY <1>a, <1>s, <1>18 DEF egress_vars, StopKnown
<1> QED
  BY <1>1, <1>2, <1>3, <1>4, <1>5, <1>6, <1>7, <1>8, <1>9, <1>10, <1>11, <1>12, <1>13, <1>14,
     <1>15, <1>16, <1>17, <1>18, Zenon DEF EgressNext, LoopThread, Stop, Read

(* Every step keeps the invariant of TcpEgress. *)
LEMMA EgressInvStep ==
  ASSUME EgressConstants
  PROVE  EgressInv /\ [EgressNext]_egress_vars => EgressInv'
  BY EgressTypesStep, LimitStep, FdStep, ThreadStep DEF EgressInv

(* What the invariant says of the limit, of stop and of descriptors. *)
LEMMA EgressPromises ==
  ASSUME EgressInv
  PROVE  EgressTypeOK /\ StoppedClean /\ OpenOwnsFd
<1>1. EgressTypeOK
  BY DEF EgressInv, EgressTypes, LimitInv, EgressTypeOK
<1>2. StoppedClean
  BY DEF EgressInv, FdInv, Owned, Closing, ThreadInv, StoppedClean, Shut
<1>3. \A s \in Socket : open[s] => fds[fdof[s]] = s /\ (reader[s] = "recv" => reading[s] = s)
  BY DEF EgressInv, FdInv, Owned, ThreadInv
<1> QED
  BY <1>1, <1>2, <1>3 DEF OpenOwnsFd

(* The limit on streams holds at all times, though Open checks it before a *)
(* connection that takes long, and again after it; and threads_ holds      *)
(* every reader that was started, so that stop joins them all.             *)
THEOREM StreamLimit ==
  ASSUME EgressConstants
  PROVE  EgressSpec => []EgressTypeOK
<1>1. EgressInit => EgressInv
  BY EgressInvInit
<1>2. EgressInv /\ [EgressNext]_egress_vars => EgressInv'
  BY EgressInvStep
<1>3. EgressInv => EgressTypeOK
  BY EgressPromises
<1> QED
  BY <1>1, <1>2, <1>3, PTL DEF EgressSpec

(* When TcpEgress::stop has returned no reader runs and no socket that had *)
(* one is open, for any number of streams and readers, and though the loop *)
(* may have been opening a stream all the while.                           *)
THEOREM StopLeavesNothingOpen ==
  ASSUME EgressConstants
  PROVE  EgressSpec => []StoppedClean
<1>1. EgressInit => EgressInv
  BY EgressInvInit
<1>2. EgressInv /\ [EgressNext]_egress_vars => EgressInv'
  BY EgressInvStep
<1>3. EgressInv => StoppedClean
  BY EgressPromises
<1> QED
  BY <1>1, <1>2, <1>3, PTL DEF EgressSpec

(* As long as the open flag of a stream is set its descriptor is its own   *)
(* socket, whatever the loop, the readers and stop do at the same time: of *)
(* all that want to close it, the one that clears the flag does, once.     *)
THEOREM OpenStreamOwnsFd ==
  ASSUME EgressConstants
  PROVE  EgressSpec => []OpenOwnsFd
<1>1. EgressInit => EgressInv
  BY EgressInvInit
<1>2. EgressInv /\ [EgressNext]_egress_vars => EgressInv'
  BY EgressInvStep
<1>3. EgressInv => OpenOwnsFd
  BY EgressPromises
<1> QED
  BY <1>1, <1>2, <1>3, PTL DEF EgressSpec
=============================================================================
