------------------------------ MODULE MCTunnel ------------------------------
(***************************************************************************)
(* Small instances of what travels through the tunnel, side by side: the   *)
(* frames of one stream from a device to its target over three nodes, and  *)
(* the broadcasts of networks of up to four nodes.  part says which of     *)
(* them a behaviour is about; the broadcasts stay as they start and the    *)
(* variables of the stream "off" when the other runs.                      *)
(***************************************************************************)
EXTENDS Gossip, FiniteSets, TLC

CONSTANTS a, b, c, far, m1, m2, None

VARIABLES
  part, hop, link, acceptor, worker, conn, slot, device, egress, handed, stream_faults, exit, marks

stream ==
  <<hop, link, acceptor, worker, conn, slot, device, egress, handed, stream_faults, exit, marks>>
all == <<part, vars, stream>>

(* The stream enters at a, whose frames go to b; everybody else's go to a. *)
Stream == INSTANCE StreamPath WITH
  Node <- {a, b, c}, Entry <- a, Peer <- [n \in {a, b, c} |-> IF n = a THEN b ELSE a],
  Items <- 2, Replies <- 2, MaxMessages <- 3, MaxFaults <- 1, faults <- stream_faults

(* Hops along the links L, and Cardinality(Node) where no path leads. *)
Hops(L) ==
  LET reach[o \in Node, k \in 0 .. Cardinality(Node)] ==
        IF k = 0 THEN {o}
        ELSE reach[o, k - 1] \cup UNION {L[p] : p \in reach[o, k - 1]}
      hops(o, n) == {k \in 0 .. Cardinality(Node) : n \in reach[o, k]}
  IN  [o \in Node |-> [n \in Node |->
         IF hops(o, n) = {} THEN Cardinality(Node)
         ELSE CHOOSE k \in hops(o, n) : \A j \in hops(o, n) : k <= j]]

(* a, b and c are peers of each other. *)
Mesh == [n \in Node |-> IF n = far THEN {} ELSE {a, b, c} \ {n}]

(* a - b - c in both directions, and far behind c. *)
Chain == (a :> {b}) @@ (b :> {a, c}) @@ (c :> {b, far}) @@ (far :> {c})

(* A triangle a, b, c and far behind c: the first copy may reach c by the  *)
(* longer way and then has one hop less left for far.                      *)
Kite == (a :> {b, c}) @@ (b :> {a, c}) @@ (c :> {a, b, far}) @@ (far :> {c})

(* The origins of the broadcasts. *)
OneEach == (m1 :> a) @@ (m2 :> b)
AllFromA == [m \in {m1, m2} |-> a]

(* The Redis servers: a and b share one, every node has its own, none. *)
SharedStore == [n \in Node |-> IF n = b THEN a ELSE n]
OwnStore == [n \in Node |-> n]
NoStores == [n \in Node |-> NoStore]

(* Every fault, one-entry caches and a Kafka broadcast in the mesh.       *)
Faulty ==
  [origin |-> OneEach, kafka |-> {m1}, links |-> Mesh, distance |-> Hops(Mesh),
   ttl |-> 3, fanout |-> 2, max_seen |-> 1, stores |-> SharedStore,
   faults |-> {"session", "restart", "expiry", "admission", "redis"}]

(* Two broadcasts evict each other on a chain longer than the ttl.        *)
Short ==
  [origin |-> AllFromA, kafka |-> {}, links |-> Chain, distance |-> Hops(Chain),
   ttl |-> 2, fanout |-> 1, max_seen |-> 1, stores |-> NoStores, faults |-> {"expiry"}]

(* Nothing goes wrong, and the ttl is as long as the longest path.        *)
Sound ==
  [origin |-> OneEach, kafka |-> {m1}, links |-> Kite, distance |-> Hops(Kite),
   ttl |-> 3, fanout |-> 3, max_seen |-> 2, stores |-> OwnStore, faults |-> {}]

MCNetworks == {Faulty, Short, Sound}

ASSUME InstancesAssumption == Constants /\ Stream!Constants

-----------------------------------------------------------------------------
StreamOff ==
  /\ hop = "off" /\ link = "off" /\ acceptor = "off" /\ worker = "off" /\ conn = "off"
  /\ slot = "off" /\ device = "off" /\ egress = "off" /\ handed = "off" /\ stream_faults = "off"
  /\ exit = "off" /\ marks = "off"

TunnelInit ==
  /\ Init
  /\ \/ part = "stream" /\ Stream!Init /\ net = Sound
     \/ part = "gossip" /\ StreamOff

InStream == part = "stream" /\ UNCHANGED <<part, vars>>
InGossip == part = "gossip" /\ UNCHANGED <<part, stream>>

TunnelNext ==
  \/ InStream /\ Stream!Next
  \/ InGossip /\ Next

(* The threads of the nodes go on, and KCP retransmits until a packet is   *)
(* acknowledged.  No thread or link needs fairness of its own: frames and  *)
(* packets of a behaviour are finitely many.                               *)
Progress ==
  \/ InStream /\ Stream!System
  \/ InGossip /\ Handling

TunnelSpec == TunnelInit /\ [][TunnelNext]_all /\ WF_all(Progress)
-----------------------------------------------------------------------------
(* DeliveredOnce and OneRelayPerStore are those of Gossip.                 *)

(* What a target and the device receive of a stream is in order, has       *)
(* nothing twice and no gap, unless the worker overtook the acceptor, a    *)
(* rate limit refused a frame, frames of the stream took different ways,   *)
(* or a short send was completed behind the next one (ProxyRuntime,        *)
(* PassThroughBusiness).                                                   *)
StreamIntact == part = "stream" => Stream!Intact

(* Once the device has ended, its slot is given back and the connections   *)
(* to targets and to the device are closed, unless the worker overtook the *)
(* acceptor or frames went astray; the device's is not when the target     *)
(* ended first (PassThroughBusiness::on_kcp_frame, TcpServer).             *)
StreamEnds ==
  (part = "stream" /\ device.state # "open") ~> (part = "stream" /\ (Stream!Ended \/ Stream!ExcusedEnd))

(* Every storm ends, whatever the caches of KcpTunnel forget, and in an    *)
(* undisturbed network every broadcast has then reached every node that    *)
(* the links lead to, though a copy that arrives first by a detour         *)
(* suppresses the one with the larger ttl (KcpTunnel::handle_kcp_message). *)
Coverage ==
  (part = "gossip") ~> (part = "gossip" /\ Quiet /\ (Undisturbed => ~Uncovered))
=============================================================================
