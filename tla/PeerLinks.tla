----------------------------- MODULE PeerLinks ------------------------------
(***************************************************************************)
(* How one node obtains its KCP links: the threads of DiscoveryService,    *)
(* the two counts of links they consult (RouteManager's kcp_link_count_    *)
(* and the size of KcpTunnel's peer_links_) and the sender that relies on  *)
(* both.                                                                   *)
(*                                                                         *)
(* A thread takes one step for each critical section it enters, so that    *)
(* between a check and the act that follows it any other thread may run.   *)
(* The threads are the detached sessions of accept_loop, the bootstrap and *)
(* feeler threads (the diallers), and the threads that send frames.  The   *)
(* network decides whether a connection succeeds and what a peer says.     *)
(***************************************************************************)
EXTENDS RouteTable

CONSTANTS
  Sessions,         \* threads running handle_tcp_session
  Bootstraps,       \* the thread running bootstrap_loop
  Feelers,          \* the thread running feeler_loop
  Senders,          \* threads running the kcp_sender of ProxyRuntime
  StaticPeers,      \* the configured KCP peer, if any
  AdvertisedHops,   \* hop counts peers advertise
  Capabilities      \* capabilities peers advertise

Diallers == Bootstraps \cup Feelers
Thread == Sessions \cup Diallers \cup Senders

ASSUME PeerLinksAssumption ==
  /\ Sessions \cap Diallers = {}
  /\ Senders \cap (Sessions \cup Diallers) = {}
  /\ StaticPeers \subseteq Node
  /\ Cardinality(StaticPeers) <= MaxKcpLinks
  /\ AdvertisedHops \subseteq 0 .. HopMax
  /\ Capabilities \subseteq NodeCapability

VARIABLES
  table,        \* RouteManager: routes_ and kcp_link_count_
  peer_links,   \* KcpTunnel: the keys of peer_links_
  pc,           \* what each thread does next
  peer          \* the node each thread deals with, or NoSource

vars == <<table, peer_links, pc, peer>>

Step ==
  {"idle", "negotiate", "admission", "callback", "add_link", "refused", "connected",
   "mark", "select", "dial", "attempt", "connect", "read", "send"}

(* KcpTunnel::start adds the configured peer. *)
Init ==
  /\ table = EmptyTable
  /\ peer_links = StaticPeers
  /\ pc = [t \in Thread |-> "idle"]
  /\ peer = [t \in Thread |-> NoSource]

Goto(t, step) ==
  /\ pc' = [pc EXCEPT ![t] = step]
  /\ peer' = [peer EXCEPT ![t] = IF step = "idle" THEN NoSource ELSE @]
Begin(t, step, n) ==
  /\ pc' = [pc EXCEPT ![t] = step]
  /\ peer' = [peer EXCEPT ![t] = n]

(* Where a thread goes on after negotiating a link. *)
AfterLink(t) == IF t \in Sessions THEN "idle" ELSE "read"

-----------------------------------------------------------------------------
(* Obtaining a link: negotiate_kcp_link, and the kcp_conv message of       *)
(* connect_bootstrap_node.                                                 *)

can_accept_kcp_link == MaxKcpLinks = 0 \/ Cardinality(peer_links) < MaxKcpLinks

CheckTable(t) ==
  /\ pc[t] = "negotiate"
  /\ Goto(t, IF can_add_kcp_link(table) THEN "admission" ELSE "idle")
  /\ UNCHANGED <<table, peer_links>>

CheckAdmission(t) ==
  /\ pc[t] = "admission"
  /\ Goto(t, IF can_accept_kcp_link THEN "callback" ELSE "idle")
  /\ UNCHANGED <<table, peer_links>>

(* Mutant: the route table is told of the link before the tunnel has it. *)
KcpLinkCallback_Early(t) ==
  /\ pc[t] = "callback"
  /\ Goto(t, IF can_accept_kcp_link THEN "connected" ELSE "refused")
  /\ UNCHANGED <<table, peer_links>>

KcpLinkCallback(t) ==
  /\ pc[t] = "callback"
  /\ Goto(t, IF can_accept_kcp_link THEN "add_link" ELSE "refused")
  /\ UNCHANGED <<table, peer_links>>

(* Mutant: the limit is only checked before the lock is taken. *)
HasRoom_Always(n) == TRUE

HasRoom(n) == n \in peer_links \/ Cardinality(peer_links) < MaxKcpLinks

add_peer_link(t) ==
  /\ pc[t] = "add_link"
  /\ peer_links' = IF HasRoom(peer[t]) THEN peer_links \cup {peer[t]} ELSE peer_links
  /\ Goto(t, IF HasRoom(peer[t]) THEN "connected" ELSE "refused")
  /\ UNCHANGED table

Refuse(t) ==
  /\ pc[t] = "refused"
  /\ table' = mark_failure(table, peer[t])
  /\ Goto(t, AfterLink(t))
  /\ UNCHANGED peer_links

(* A dialler passes the node it dialled as the source. *)
AddConnected(t) ==
  /\ pc[t] = "connected"
  /\ \E cap \in IF t \in Sessions THEN {"absent"} ELSE Capabilities :
       table' \in add_route(table, peer[t], IF t \in Sessions THEN NoSource ELSE peer[t],
                            TRUE, 0, cap)
  /\ Goto(t, "mark")
  /\ UNCHANGED peer_links

MarkConnected(t) ==
  /\ pc[t] = "mark"
  /\ table' = mark_success(table, peer[t], TRUE)
  /\ Goto(t, AfterLink(t))
  /\ UNCHANGED peer_links

ObtainLink(t) ==
  \/ CheckTable(t)
  \/ CheckAdmission(t)
  \/ KcpLinkCallback(t)
  \/ add_peer_link(t)
  \/ Refuse(t)
  \/ AddConnected(t)
  \/ MarkConnected(t)

-----------------------------------------------------------------------------
(* Sessions and diallers *)

(* handle_tcp_session, once the hello of n is verified. *)
ReceiveHello(t, n) ==
  /\ t \in Sessions
  /\ pc[t] = "idle"
  /\ \E cap \in Capabilities : table' \in add_route(table, n, NoSource, FALSE, 0, cap)
  /\ Begin(t, "negotiate", n)
  /\ UNCHANGED peer_links

(* bootstrap_loop turns to its next node: a configured one, or one of a    *)
(* snapshot of the table taken before.                                     *)
ChooseBootstrap(t, n) ==
  /\ t \in Bootstraps
  /\ pc[t] = "idle"
  /\ Begin(t, "dial", n)
  /\ UNCHANGED <<table, peer_links>>

(* feeler_loop: the check and the selection lock the table separately. *)
CheckFeeler(t) ==
  /\ t \in Feelers
  /\ pc[t] = "idle"
  /\ can_add_kcp_link(table)
  /\ Goto(t, "select")
  /\ UNCHANGED <<table, peer_links>>

SelectFeeler(t) ==
  /\ pc[t] = "select"
  /\ \/ \E n \in select_for_feeler(table) : Begin(t, "dial", n)
     \/ select_for_feeler(table) = {} /\ Goto(t, "idle")
  /\ UNCHANGED <<table, peer_links>>

Dial(t) ==
  /\ pc[t] = "dial"
  /\ table' \in add_route(table, peer[t], NoSource, FALSE, 0, "absent")
  /\ Goto(t, "attempt")
  /\ UNCHANGED peer_links

MarkAttempt(t) ==
  /\ pc[t] = "attempt"
  /\ table' = mark_attempt(table, peer[t])
  /\ Goto(t, "connect")
  /\ UNCHANGED peer_links

ConnectFails(t) ==
  /\ pc[t] = "connect"
  /\ table' = mark_failure(table, peer[t])
  /\ Goto(t, "idle")
  /\ UNCHANGED peer_links

ConnectSucceeds(t) ==
  /\ pc[t] = "connect"
  /\ table' = mark_success(table, peer[t], FALSE)
  /\ Goto(t, "read")
  /\ UNCHANGED peer_links

ReadRoute(t, m) ==
  /\ pc[t] = "read"
  /\ \E hops \in AdvertisedHops, cap \in Capabilities :
       table' \in add_route(table, m, peer[t], FALSE, hops, cap)
  /\ UNCHANGED <<peer_links, pc, peer>>

ReadKcpConv(t) ==
  /\ pc[t] = "read"
  /\ Goto(t, "callback")
  /\ UNCHANGED <<table, peer_links>>

(* Mutant: the end of the exchange counts as a failure of the peer. *)
ReadEnd_Fails(t) ==
  /\ pc[t] = "read"
  /\ table' = mark_failure(table, peer[t])
  /\ Goto(t, "idle")
  /\ UNCHANGED peer_links

ReadEnd(t) ==
  /\ pc[t] = "read"
  /\ Goto(t, "idle")
  /\ UNCHANGED <<table, peer_links>>

DialPeer(t) ==
  \/ CheckFeeler(t)
  \/ SelectFeeler(t)
  \/ Dial(t)
  \/ MarkAttempt(t)
  \/ ConnectFails(t)
  \/ ConnectSucceeds(t)
  \/ ReadKcpConv(t)
  \/ ReadEnd(t)
  \/ \E n \in Node : ChooseBootstrap(t, n) \/ ReadRoute(t, n)

-----------------------------------------------------------------------------
(* Senders, gossip and time *)

(* The kcp_sender asks the table for the next hop, then looks it up in     *)
(* peer_links_ (send_frame_to).  Without a next hop it falls back on the   *)
(* configured peer, which involves neither.                                *)
SelectNextHop(t) ==
  /\ t \in Senders
  /\ pc[t] = "idle"
  /\ \E n \in select_default_next_hop(table) : Begin(t, "send", n)
  /\ UNCHANGED <<table, peer_links>>

SendFrameTo(t) ==
  /\ pc[t] = "send"
  /\ Goto(t, "idle")
  /\ UNCHANGED <<table, peer_links>>

(* handle_control_json: an announcement received through the tunnel. *)
ReceiveAnnouncement(n) ==
  /\ \E hops \in AdvertisedHops, cap \in Capabilities :
       table' \in add_route(table, n, NoSource, FALSE, hops, cap)
  /\ UNCHANGED <<peer_links, pc, peer>>

(* Time passes for an entry: its retry backoff, then its penalty end.  The *)
(* other ages only matter to eviction (RouteManager).                      *)
TimePasses(n) ==
  /\ n \in Ids(table)
  /\ table' = Put(table, n, TryAged(table.routes[n]), table.links)
  /\ UNCHANGED <<peer_links, pc, peer>>

Next ==
  \/ \E t \in Thread :
       \/ ObtainLink(t)
       \/ \E n \in Node : ReceiveHello(t, n)
       \/ DialPeer(t)
       \/ SelectNextHop(t)
       \/ SendFrameTo(t)
  \/ \E n \in Node : ReceiveAnnouncement(n) \/ TimePasses(n)

Spec == Init /\ [][Next]_vars

-----------------------------------------------------------------------------
(* Properties *)

(* Types; a thread has a peer exactly while it deals with one. *)
TypeOK ==
  /\ IsTable(table)
  /\ peer_links \subseteq Node
  /\ pc \in [Thread -> Step]
  /\ peer \in [Thread -> Node \cup {NoSource}]
  /\ \A t \in Thread : peer[t] = NoSource <=> pc[t] \in {"idle", "select"}

(* Every node the table calls connected has a link in the tunnel, in every *)
(* interleaving of sessions, diallers and evictions: the two components    *)
(* keep their own record of the links and no lock covers both.             *)
TunnelCoversTable == Linked(table) \subseteq peer_links

(* Neither record ever holds more than max_kcp_links links, though each of *)
(* the three checks on the way to a link may be stale when the link is     *)
(* added.                                                                  *)
LinksBounded ==
  /\ Cardinality(peer_links) <= MaxKcpLinks
  /\ table.links <= MaxKcpLinks

(* The next hop a sender chose from the table still is in peer_links_ when *)
(* send_frame_to looks it up: no frame is refused for a vanished link.     *)
NextHopHasLink == \A t \in Senders : pc[t] = "send" => peer[t] \in peer_links

(* The table stops calling a node connected only when a dial to that node  *)
(* could not connect, or when the tunnel is full and a negotiation with    *)
(* that node was refused for it.                                           *)
LinkLossHasCause ==
  [][\A n \in Linked(table) \ Linked(table') : \E t \in Thread :
       /\ peer[t] = n
       /\ \/ pc[t] = "connect"
          \/ pc[t] = "refused" /\ Cardinality(peer_links) >= MaxKcpLinks]_vars
=============================================================================
