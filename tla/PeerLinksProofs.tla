-------------------------- MODULE PeerLinksProofs ---------------------------
(***************************************************************************)
(* The properties of PeerLinks, for any number of nodes, threads and links.*)
(* Each of the three checks on the way to a link may be stale; what keeps  *)
(* the counts within the limit is the check add_peer_link makes under the  *)
(* lock of peer_links_, together with the order in which a thread updates  *)
(* the tunnel first and the table second.                                  *)
(***************************************************************************)
EXTENDS PeerLinks, RouteTableProofs

(* What a thread's next step says of its peer and of the tunnel. *)
StepsJustified ==
  \A t \in Thread :
    /\ pc[t] \in {"connected", "mark", "send"} => peer[t] \in peer_links
    /\ pc[t] = "refused" => Cardinality(peer_links) >= MaxKcpLinks

TableSound == SoundTable(table) /\ route_count(table) <= MaxRoutes

LinksType ==
  /\ peer_links \subseteq Node
  /\ pc \in [Thread -> Step]
  /\ peer \in [Thread -> Node \cup {NoSource}]
  /\ \A t \in Thread : peer[t] = NoSource <=> pc[t] \in {"idle", "select"}

TunnelBounded == Cardinality(peer_links) <= MaxKcpLinks

IInv ==
  /\ TableSound
  /\ LinksType
  /\ TunnelCoversTable
  /\ TunnelBounded
  /\ StepsJustified

(* A node that starts, with no links and all threads idle, satisfies the    *)
(* inductive invariant.                                                    *)
LEMMA InitIInv == Init => IInv
<1> SUFFICES ASSUME Init PROVE IInv
  OBVIOUS
<1>1. TableSound /\ TunnelCoversTable
  BY EmptyTableSound, RouteTableAssumption DEF Init, TableSound, TunnelCoversTable
<1>2. LinksType /\ TunnelBounded /\ StepsJustified
  BY PeerLinksAssumption DEF Init, LinksType, TunnelBounded, StepsJustified, Step
<1> QED
  BY <1>1, <1>2 DEF IInv

(* A set of nodes is finite. *)
LEMMA NodesFinite ==
  ASSUME NEW S, S \subseteq Node
  PROVE  IsFiniteSet(S) /\ Cardinality(S) \in Nat
  BY RouteTableAssumption, FS_Subset, FS_CardinalityType

(* A step that moves one thread to a step it may be at, and only adds      *)
(* links within the limit, keeps IInv.                                     *)
LEMMA MoveIInv ==
  ASSUME IInv, NEW t \in Thread, NEW s \in Step, NEW n \in Node \cup {NoSource},
         pc' = [pc EXCEPT ![t] = s],
         peer' = [peer EXCEPT ![t] = n],
         n = NoSource <=> s \in {"idle", "select"},
         peer_links \subseteq peer_links', peer_links' \subseteq Node,
         Cardinality(peer_links') <= MaxKcpLinks,
         s \in {"connected", "mark", "send"} => n \in peer_links',
         s = "refused" => Cardinality(peer_links') >= MaxKcpLinks,
         TableSound', Linked(table') \subseteq peer_links'
  PROVE  IInv'
<1>1. LinksType'
  BY DEF IInv, LinksType
<1>2. Cardinality(peer_links) <= Cardinality(peer_links') /\ Cardinality(peer_links) \in Nat
      /\ Cardinality(peer_links') \in Nat
  BY NodesFinite, FS_Subset DEF IInv, LinksType
<1>3. StepsJustified'
  <2> SUFFICES ASSUME NEW u \in Thread
               PROVE  /\ pc'[u] \in {"connected", "mark", "send"} => peer'[u] \in peer_links'
                      /\ pc'[u] = "refused" => Cardinality(peer_links') >= MaxKcpLinks
    BY DEF StepsJustified
  <2>1. CASE u = t
    BY <2>1 DEF IInv, LinksType
  <2>2. CASE u # t
    <3>1. pc'[u] = pc[u] /\ peer'[u] = peer[u]
      BY <2>2 DEF IInv, LinksType
    <3> QED
      BY <3>1, <1>2, RouteTableAssumption DEF IInv, StepsJustified
  <2> QED
    BY <2>1, <2>2
<1> QED
  BY <1>1, <1>3 DEF IInv, TunnelBounded, TunnelCoversTable

(* The same for a thread that goes on with its peer, or ends. *)
LEMMA GotoIInv ==
  ASSUME IInv, NEW t \in Thread, NEW s \in Step \ {"select"}, Goto(t, s),
         pc[t] \notin {"idle", "select"},
         peer_links' = peer_links,
         s \in {"connected", "mark", "send"} => peer[t] \in peer_links,
         s = "refused" => Cardinality(peer_links) >= MaxKcpLinks,
         TableSound', Linked(table') \subseteq peer_links
  PROVE  IInv'
<1> DEFINE n == IF s = "idle" THEN NoSource ELSE peer[t]
<1>1. peer[t] \in Node \cup {NoSource} /\ peer[t] # NoSource
  BY DEF IInv, LinksType
<1>2. n \in Node \cup {NoSource} /\ (n = NoSource <=> s \in {"idle", "select"})
  BY <1>1
<1>3. pc' = [pc EXCEPT ![t] = s] /\ peer' = [peer EXCEPT ![t] = n]
  BY DEF Goto
<1>4. s \in {"connected", "mark", "send"} => n \in peer_links'
  OBVIOUS
<1> HIDE DEF n
<1>5. peer_links' \subseteq Node /\ Cardinality(peer_links') <= MaxKcpLinks
  BY DEF IInv, LinksType, TunnelBounded
<1> QED
  BY <1>2, <1>3, <1>4, <1>5, MoveIInv

(* Adding a route without a link keeps the table sound and its links. *)
LEMMA AddUnlinked ==
  ASSUME TableSound, NEW n \in Node, NEW source \in Node \cup {NoSource},
         NEW hops \in 0 .. HopMax, NEW cap \in NodeCapability,
         table' \in add_route(table, n, source, FALSE, hops, cap)
  PROVE  TableSound' /\ Linked(table') \subseteq Linked(table)
<1>1. SoundTable(table) /\ route_count(table) <= MaxRoutes
  BY DEF TableSound
<1>2. /\ SoundTable(table') /\ route_count(table') <= MaxRoutes
      /\ Linked(table') \subseteq Linked(table) \cup (IF FALSE THEN {n} ELSE {})
  BY <1>1, AddRouteSound
<1> QED
  BY <1>2 DEF TableSound

(* What the marks do to the table of this node. *)
LEMMA MarksSound ==
  ASSUME TableSound, NEW n \in Node
  PROVE  /\ table' = mark_attempt(table, n) => TableSound' /\ Linked(table') = Linked(table)
         /\ table' = mark_failure(table, n) => TableSound' /\ Linked(table') = Linked(table) \ {n}
         /\ table' = mark_success(table, n, FALSE)
              => TableSound' /\ Linked(table') = Linked(table)
         /\ table' = mark_success(table, n, TRUE)
              => TableSound' /\ Linked(table') \subseteq Linked(table) \cup {n}
                             /\ Linked(table) \subseteq Linked(table')
<1>0. SoundTable(table) /\ route_count(table) <= MaxRoutes
  BY DEF TableSound
<1>1. table' = mark_attempt(table, n) => TableSound' /\ Linked(table') = Linked(table)
  BY <1>0, MarkAttemptSound DEF TableSound, route_count
<1>2. table' = mark_failure(table, n) => TableSound' /\ Linked(table') = Linked(table) \ {n}
  BY <1>0, MarkFailureSound DEF TableSound, route_count
<1>3. table' = mark_success(table, n, FALSE) => TableSound' /\ Linked(table') = Linked(table)
  <2> SUFFICES ASSUME table' = mark_success(table, n, FALSE)
               PROVE  TableSound' /\ Linked(table') = Linked(table)
    OBVIOUS
  <2>1. /\ SoundTable(table') /\ Ids(table') = Ids(table)
        /\ Linked(table) \subseteq Linked(table')
        /\ Linked(table') \subseteq Linked(table) \cup (IF FALSE THEN {n} ELSE {})
    BY <1>0, MarkSuccessSound
  <2> QED
    BY <1>0, <2>1 DEF TableSound, route_count
<1>4. table' = mark_success(table, n, TRUE)
        => TableSound' /\ Linked(table') \subseteq Linked(table) \cup {n}
                       /\ Linked(table) \subseteq Linked(table')
  <2> SUFFICES ASSUME table' = mark_success(table, n, TRUE)
               PROVE  TableSound' /\ Linked(table') \subseteq Linked(table) \cup {n}
                                  /\ Linked(table) \subseteq Linked(table')
    OBVIOUS
  <2>1. /\ SoundTable(table') /\ Ids(table') = Ids(table)
        /\ Linked(table) \subseteq Linked(table')
        /\ Linked(table') \subseteq Linked(table) \cup (IF TRUE THEN {n} ELSE {})
    BY <1>0, MarkSuccessSound
  <2> QED
    BY <1>0, <2>1 DEF TableSound, route_count
<1> QED
  BY <1>1, <1>2, <1>3, <1>4

(* A thread that is neither idle nor selecting deals with a node. *)
LEMMA PeerIsNode ==
  ASSUME IInv, NEW t \in Thread, pc[t] \notin {"idle", "select"}
  PROVE  peer[t] \in Node
  BY DEF IInv, LinksType

(* The steps on the way to a link keep IInv. *)
LEMMA ObtainLinkIInv ==
  ASSUME IInv, NEW t \in Thread, ObtainLink(t)
  PROVE  IInv'
<1>0. /\ TableSound /\ Linked(table) \subseteq peer_links /\ peer_links \subseteq Node
      /\ Cardinality(peer_links) \in Nat /\ MaxKcpLinks \in Nat
      /\ Cardinality(peer_links) <= MaxKcpLinks
  BY NodesFinite, RouteTableAssumption DEF IInv, LinksType, TunnelCoversTable, TunnelBounded
<1>a. table' = table => TableSound' /\ Linked(table') = Linked(table)
  BY <1>0 DEF TableSound
<1>b. /\ \A s \in {"idle", "admission", "callback", "add_link", "refused", "connected", "mark", "read"} :
            s \in Step \ {"select"}
      /\ AfterLink(t) \in {"idle", "read"}
  BY DEF Step, AfterLink
<1>1. CASE CheckTable(t)
  <2>1. PICK s \in {"admission", "idle"} : Goto(t, s)
    BY <1>1 DEF CheckTable
  <2> QED
    BY <1>0, <1>1, <1>a, <1>b, <2>1, GotoIInv DEF CheckTable
<1>2. CASE CheckAdmission(t)
  <2>1. PICK s \in {"callback", "idle"} : Goto(t, s)
    BY <1>2 DEF CheckAdmission
  <2> QED
    BY <1>0, <1>2, <1>a, <1>b, <2>1, GotoIInv DEF CheckAdmission
<1>3. CASE KcpLinkCallback(t)
  <2>1. PICK s \in {"add_link", "refused"} :
          Goto(t, s) /\ (s = "refused" => Cardinality(peer_links) >= MaxKcpLinks)
    BY <1>0, <1>3 DEF KcpLinkCallback, can_accept_kcp_link
  <2> QED
    BY <1>0, <1>3, <1>a, <1>b, <2>1, GotoIInv DEF KcpLinkCallback
<1>4. CASE add_peer_link(t)
  <2>0. peer[t] \in Node /\ pc[t] \notin {"idle", "select"}
    BY <1>4, PeerIsNode DEF add_peer_link
  <2>1. CASE HasRoom(peer[t])
    <3>1. /\ peer_links' = peer_links \cup {peer[t]} /\ table' = table
          /\ pc' = [pc EXCEPT ![t] = "connected"]
          /\ peer' = [peer EXCEPT ![t] = peer[t]]
      BY <1>4, <2>1 DEF add_peer_link, Goto
    <3>2. Cardinality(peer_links') <= MaxKcpLinks
      <4>1. CASE peer[t] \in peer_links
        <5>1. peer_links' = peer_links
          BY <3>1, <4>1
        <5> QED
          BY <1>0, <5>1
      <4>2. CASE peer[t] \notin peer_links
        <5>1. Cardinality(peer_links \cup {peer[t]}) = Cardinality(peer_links) + 1
          BY <1>0, <4>2, NodesFinite, FS_AddElement
        <5>2. Cardinality(peer_links) < MaxKcpLinks
          BY <2>1, <4>2 DEF HasRoom
        <5> QED
          BY <1>0, <3>1, <5>1, <5>2
      <4> QED
        BY <4>1, <4>2
    <3>3. /\ peer[t] \in Node \cup {NoSource} /\ peer[t] # NoSource
          /\ "connected" \in Step
      BY <2>0, RouteTableAssumption DEF Step
    <3> QED
      BY <1>0, <1>a, <2>0, <3>1, <3>2, <3>3, MoveIInv
  <2>2. CASE ~ HasRoom(peer[t])
    <3>1. Goto(t, "refused") /\ peer_links' = peer_links /\ table' = table
      BY <1>4, <2>2 DEF add_peer_link
    <3>2. Cardinality(peer_links) >= MaxKcpLinks
      BY <1>0, <2>2 DEF HasRoom
    <3> QED
      BY <1>0, <1>a, <1>b, <2>0, <3>1, <3>2, GotoIInv
  <2> QED
    BY <2>1, <2>2
<1>5. CASE Refuse(t)
  <2>0. peer[t] \in Node /\ pc[t] \notin {"idle", "select"}
    BY <1>5, PeerIsNode DEF Refuse
  <2>1. TableSound' /\ Linked(table') \subseteq peer_links
    BY <1>0, <1>5, <2>0, MarksSound DEF Refuse
  <2>2. PICK s \in {"idle", "read"} : Goto(t, s)
    BY <1>5, <1>b DEF Refuse
  <2> QED
    BY <1>5, <1>b, <2>0, <2>1, <2>2, GotoIInv DEF Refuse
<1>6. CASE AddConnected(t)
  <2>0. peer[t] \in Node /\ pc[t] \notin {"idle", "select"}
    BY <1>6, PeerIsNode DEF AddConnected
  <2>1. peer[t] \in peer_links
    BY <1>6 DEF AddConnected, IInv, StepsJustified
  <2>2. PICK cap \in NodeCapability, source \in Node \cup {NoSource} :
          table' \in add_route(table, peer[t], source, TRUE, 0, cap)
    BY <1>6, <2>0, PeerLinksAssumption DEF AddConnected, NodeCapability
  <2>3. 0 \in 0 .. HopMax
    BY RouteTableAssumption
  <2>4. /\ SoundTable(table') /\ route_count(table') <= MaxRoutes
        /\ Linked(table') \subseteq Linked(table) \cup (IF TRUE THEN {peer[t]} ELSE {})
    BY <1>0, <2>0, <2>2, <2>3, AddRouteSound DEF TableSound
  <2>5. TableSound' /\ Linked(table') \subseteq peer_links
    BY <1>0, <2>1, <2>4 DEF TableSound
  <2> QED
    BY <1>6, <1>b, <2>0, <2>1, <2>5, GotoIInv DEF AddConnected
<1>7. CASE MarkConnected(t)
  <2>0. peer[t] \in Node /\ pc[t] \notin {"idle", "select"} /\ peer[t] \in peer_links
    BY <1>7, PeerIsNode DEF MarkConnected, IInv, StepsJustified
  <2>1. TableSound' /\ Linked(table') \subseteq peer_links
    BY <1>0, <1>7, <2>0, MarksSound DEF MarkConnected
  <2>2. PICK s \in {"idle", "read"} : Goto(t, s)
    BY <1>7, <1>b DEF MarkConnected
  <2> QED
    BY <1>7, <1>b, <2>0, <2>1, <2>2, GotoIInv DEF MarkConnected
<1> QED
  BY <1>1, <1>2, <1>3, <1>4, <1>5, <1>6, <1>7 DEF ObtainLink

(* A thread that takes up node n. *)
LEMMA BeginIInv ==
  ASSUME IInv, NEW t \in Thread, NEW n \in Node,
         NEW s \in Step \ {"idle", "select", "connected", "mark", "refused"}, Begin(t, s, n),
         s = "send" => n \in peer_links,
         peer_links' = peer_links, TableSound', Linked(table') \subseteq peer_links
  PROVE  IInv'
<1>1. pc' = [pc EXCEPT ![t] = s] /\ peer' = [peer EXCEPT ![t] = n]
  BY DEF Begin
<1>2. n \in Node \cup {NoSource} /\ n # NoSource
  BY RouteTableAssumption
<1>3. peer_links' \subseteq Node /\ Cardinality(peer_links') <= MaxKcpLinks
  BY DEF IInv, LinksType, TunnelBounded
<1> QED
  BY <1>1, <1>2, <1>3, MoveIInv

(* A step of no thread that only touches the table. *)
LEMMA TableIInv ==
  ASSUME IInv, UNCHANGED <<peer_links, pc, peer>>,
         TableSound', Linked(table') \subseteq peer_links
  PROVE  IInv'
  BY DEF IInv, LinksType, TunnelCoversTable, TunnelBounded, StepsJustified

(* The steps of the diallers keep IInv. *)
LEMMA DialPeerIInv ==
  ASSUME IInv, NEW t \in Thread, DialPeer(t)
  PROVE  IInv'
<1>0. TableSound /\ Linked(table) \subseteq peer_links /\ 0 \in 0 .. HopMax
      /\ peer_links \subseteq Node /\ Cardinality(peer_links) <= MaxKcpLinks
  BY RouteTableAssumption DEF IInv, TunnelCoversTable, LinksType, TunnelBounded
<1>a. table' = table => TableSound' /\ Linked(table') = Linked(table)
  BY <1>0 DEF TableSound
<1>b. /\ \A s \in {"idle", "callback", "attempt", "connect", "read"} : s \in Step \ {"select"}
      /\ "dial" \in Step \ {"idle", "select", "connected", "mark", "refused"}
      /\ {"idle", "select"} \subseteq Step
  BY DEF Step
<1>1. CASE CheckFeeler(t)
  <2>1. pc' = [pc EXCEPT ![t] = "select"] /\ peer' = [peer EXCEPT ![t] = NoSource]
    BY <1>1 DEF CheckFeeler, Goto, IInv, LinksType
  <2> QED
    BY <1>0, <1>1, <1>a, <1>b, <2>1, MoveIInv DEF CheckFeeler
<1>2. CASE SelectFeeler(t)
  <2>1. CASE \E n \in select_for_feeler(table) : Begin(t, "dial", n)
    <3>1. PICK n \in select_for_feeler(table) : Begin(t, "dial", n)
      BY <2>1
    <3>2. n \in Ids(table)
      BY DEF select_for_feeler, BestOf, ResponseRoutes
    <3>3. n \in Node
      BY <1>0, <3>2, EntrySound DEF TableSound
    <3> QED
      BY <1>0, <1>2, <1>a, <1>b, <3>1, <3>3, BeginIInv DEF SelectFeeler
  <2>2. CASE Goto(t, "idle")
    <3>1. pc' = [pc EXCEPT ![t] = "idle"] /\ peer' = [peer EXCEPT ![t] = NoSource]
      BY <2>2 DEF Goto
    <3> QED
      BY <1>0, <1>2, <1>a, <1>b, <3>1, MoveIInv DEF SelectFeeler
  <2> QED
    BY <1>2, <2>1, <2>2 DEF SelectFeeler
<1>3. CASE Dial(t)
  <2>0. peer[t] \in Node /\ pc[t] \notin {"idle", "select"}
    BY <1>3, PeerIsNode DEF Dial
  <2>1. TableSound' /\ Linked(table') \subseteq peer_links
    BY <1>0, <1>3, <2>0, AddUnlinked DEF Dial, NodeCapability
  <2> QED
    BY <1>3, <1>b, <2>0, <2>1, GotoIInv DEF Dial
<1>4. CASE MarkAttempt(t)
  <2>0. peer[t] \in Node /\ pc[t] \notin {"idle", "select"}
    BY <1>4, PeerIsNode DEF MarkAttempt
  <2>1. TableSound' /\ Linked(table') \subseteq peer_links
    BY <1>0, <1>4, <2>0, MarksSound DEF MarkAttempt
  <2> QED
    BY <1>4, <1>b, <2>0, <2>1, GotoIInv DEF MarkAttempt
<1>5. CASE ConnectFails(t)
  <2>0. peer[t] \in Node /\ pc[t] \notin {"idle", "select"}
    BY <1>5, PeerIsNode DEF ConnectFails
  <2>1. TableSound' /\ Linked(table') \subseteq peer_links
    BY <1>0, <1>5, <2>0, MarksSound DEF ConnectFails
  <2> QED
    BY <1>5, <1>b, <2>0, <2>1, GotoIInv DEF ConnectFails
<1>6. CASE ConnectSucceeds(t)
  <2>0. peer[t] \in Node /\ pc[t] \notin {"idle", "select"}
    BY <1>6, PeerIsNode DEF ConnectSucceeds
  <2>1. TableSound' /\ Linked(table') \subseteq peer_links
    BY <1>0, <1>6, <2>0, MarksSound DEF ConnectSucceeds
  <2> QED
    BY <1>6, <1>b, <2>0, <2>1, GotoIInv DEF ConnectSucceeds
<1>7. CASE ReadKcpConv(t)
  BY <1>0, <1>7, <1>a, <1>b, GotoIInv DEF ReadKcpConv
<1>8. CASE ReadEnd(t)
  BY <1>0, <1>8, <1>a, <1>b, GotoIInv DEF ReadEnd
<1>9. ASSUME NEW n \in Node, ChooseBootstrap(t, n) PROVE IInv'
  BY <1>0, <1>9, <1>a, <1>b, BeginIInv DEF ChooseBootstrap
<1>10. ASSUME NEW n \in Node, ReadRoute(t, n) PROVE IInv'
  <2>0. peer[t] \in Node
    BY <1>10, PeerIsNode DEF ReadRoute
  <2>1. TableSound' /\ Linked(table') \subseteq peer_links
    BY <1>0, <1>10, <2>0, PeerLinksAssumption, AddUnlinked DEF ReadRoute
  <2> QED
    BY <1>10, <2>1, TableIInv DEF ReadRoute
<1> QED
  BY <1>1, <1>2, <1>3, <1>4, <1>5, <1>6, <1>7, <1>8, <1>9, <1>10 DEF DialPeer

(* Every critical section of the session, bootstrap, feeler and sender      *)
(* threads preserves the inductive invariant.                              *)
LEMMA NextIInv == IInv /\ [Next]_vars => IInv'
<1> SUFFICES ASSUME IInv, [Next]_vars PROVE IInv'
  OBVIOUS
<1>0. TableSound /\ Linked(table) \subseteq peer_links /\ 0 \in 0 .. HopMax
  BY RouteTableAssumption DEF IInv, TunnelCoversTable
<1>a. table' = table => TableSound' /\ Linked(table') = Linked(table)
  BY <1>0 DEF TableSound
<1>1. ASSUME NEW t \in Thread, ObtainLink(t) PROVE IInv'
  BY <1>1, ObtainLinkIInv
<1>2. ASSUME NEW t \in Thread, NEW n \in Node, ReceiveHello(t, n) PROVE IInv'
  <2>1. TableSound' /\ Linked(table') \subseteq peer_links
    BY <1>0, <1>2, PeerLinksAssumption, AddUnlinked DEF ReceiveHello
  <2> QED
    BY <1>2, <2>1, BeginIInv DEF ReceiveHello, Step
<1>3. ASSUME NEW t \in Thread, DialPeer(t) PROVE IInv'
  BY <1>3, DialPeerIInv
<1>4. ASSUME NEW t \in Thread, SelectNextHop(t) PROVE IInv'
  <2>1. PICK n \in select_default_next_hop(table) : Begin(t, "send", n)
    BY <1>4 DEF SelectNextHop
  <2>2. n \in Linked(table)
    BY DEF select_default_next_hop, BestOf
  <2>3. n \in Node /\ n \in peer_links
    BY <1>0, <2>2 DEF IInv, LinksType
  <2> QED
    BY <1>0, <1>4, <1>a, <2>1, <2>3, BeginIInv DEF SelectNextHop, Step
<1>5. ASSUME NEW t \in Thread, SendFrameTo(t) PROVE IInv'
  BY <1>0, <1>5, <1>a, GotoIInv DEF SendFrameTo, Step
<1>6. ASSUME NEW n \in Node, ReceiveAnnouncement(n) PROVE IInv'
  <2>1. TableSound' /\ Linked(table') \subseteq peer_links
    BY <1>0, <1>6, PeerLinksAssumption, AddUnlinked DEF ReceiveAnnouncement
  <2> QED
    BY <1>6, <2>1, TableIInv DEF ReceiveAnnouncement
<1>7. ASSUME NEW n \in Node, TimePasses(n) PROVE IInv'
  <2>1. n \in Ids(table) /\ TryAged(table.routes[n]) \in AgedEntries(table.routes[n])
    BY <1>7 DEF TimePasses, AgedEntries
  <2>2. SoundTable(table') /\ Ids(table') = Ids(table) /\ Linked(table') = Linked(table)
    BY <1>0, <1>7, <2>1, AgeSound DEF TimePasses, TableSound
  <2>3. TableSound' /\ Linked(table') \subseteq peer_links
    BY <1>0, <2>2 DEF TableSound, route_count
  <2> QED
    BY <1>7, <2>3, TableIInv DEF TimePasses
<1>8. CASE UNCHANGED vars
  BY <1>0, <1>8, <1>a, TableIInv DEF vars
<1> QED
  BY <1>1, <1>2, <1>3, <1>4, <1>5, <1>6, <1>7, <1>8 DEF Next

(* The inductive invariant holds in every state of every interleaving of    *)
(* the discovery threads.                                                  *)
THEOREM IInvInvariant == Spec => []IInv
<1>1. Init => IInv
  BY InitIInv
<1>2. IInv /\ [Next]_vars => IInv'
  BY NextIInv
<1> QED
  BY <1>1, <1>2, PTL DEF Spec

-----------------------------------------------------------------------------
(* The properties *)

(* The table, the links and the threads always have their types. *)
THEOREM TypeCorrect == Spec => []TypeOK
<1>1. IInv => TypeOK
  BY DEF IInv, TypeOK, TableSound, SoundTable, LinksType
<1> QED
  BY <1>1, IInvInvariant, PTL

(* Whatever the threads do, a node the table calls connected has a link in *)
(* the tunnel.                                                             *)
THEOREM TunnelCoversTableAlways == Spec => []TunnelCoversTable
<1>1. IInv => TunnelCoversTable
  BY DEF IInv
<1> QED
  BY <1>1, IInvInvariant, PTL

(* Neither record of the links ever exceeds max_kcp_links. *)
THEOREM LinksBoundedAlways == Spec => []LinksBounded
<1>1. IInv => LinksBounded
  <2> SUFFICES ASSUME IInv PROVE LinksBounded
    OBVIOUS
  <2>1. peer_links \subseteq Node /\ Linked(table) \subseteq peer_links
        /\ Cardinality(peer_links) <= MaxKcpLinks /\ table.links = Cardinality(Linked(table))
    BY DEF IInv, LinksType, TunnelCoversTable, TunnelBounded, TableSound, SoundTable
  <2>2. IsFiniteSet(peer_links) /\ Cardinality(peer_links) \in Nat
    BY <2>1, NodesFinite
  <2>3. Cardinality(Linked(table)) \in Nat
    BY <2>1, NodesFinite
  <2>4. Cardinality(Linked(table)) <= Cardinality(peer_links)
    BY <2>1, <2>2, FS_Subset
  <2> QED
    BY <2>1, <2>2, <2>3, <2>4, RouteTableAssumption DEF LinksBounded
<1> QED
  BY <1>1, IInvInvariant, PTL

(* A sender finds the link of the next hop it chose. *)
THEOREM NextHopHasLinkAlways == Spec => []NextHopHasLink
<1>1. IInv => NextHopHasLink
  BY DEF IInv, StepsJustified, NextHopHasLink, Thread
<1> QED
  BY <1>1, IInvInvariant, PTL

(* A step that is neither a failed dial nor a refusal loses no link. *)
LEMMA OtherStepsKeepLinks ==
  ASSUME IInv, [Next]_vars,
         ~ \E t \in Thread : Refuse(t) \/ ConnectFails(t)
  PROVE  Linked(table) \subseteq Linked(table')
<1>0. TableSound /\ SoundTable(table) /\ route_count(table) <= MaxRoutes /\ 0 \in 0 .. HopMax
  BY RouteTableAssumption DEF IInv, TableSound
<1>1. ASSUME NEW n \in Node, NEW source \in Node \cup {NoSource}, NEW connected \in BOOLEAN,
             NEW hops \in 0 .. HopMax, NEW cap \in NodeCapability,
             table' \in add_route(table, n, source, connected, hops, cap)
      PROVE  Linked(table) \subseteq Linked(table')
  BY <1>0, <1>1, AddRouteSound
<1>2. ASSUME NEW t \in Thread, ObtainLink(t) PROVE Linked(table) \subseteq Linked(table')
  <2>1. CASE AddConnected(t)
    <3>1. peer[t] \in Node
      BY <2>1, PeerIsNode DEF AddConnected
    <3>2. PICK cap \in NodeCapability, source \in Node \cup {NoSource} :
            table' \in add_route(table, peer[t], source, TRUE, 0, cap)
      BY <2>1, <3>1, PeerLinksAssumption DEF AddConnected, NodeCapability
    <3> QED
      BY <1>0, <1>1, <3>1, <3>2
  <2>2. CASE MarkConnected(t)
    <3>1. peer[t] \in Node
      BY <2>2, PeerIsNode DEF MarkConnected
    <3> QED
      BY <1>0, <2>2, <3>1, MarksSound DEF MarkConnected
  <2>3. CASE CheckTable(t) \/ CheckAdmission(t) \/ KcpLinkCallback(t) \/ add_peer_link(t)
    BY <2>3 DEF CheckTable, CheckAdmission, KcpLinkCallback, add_peer_link
  <2> QED
    BY <1>2, <2>1, <2>2, <2>3 DEF ObtainLink
<1>3. ASSUME NEW t \in Thread, DialPeer(t) PROVE Linked(table) \subseteq Linked(table')
  <2>1. CASE Dial(t)
    <3>1. peer[t] \in Node
      BY <2>1, PeerIsNode DEF Dial
    <3> QED
      BY <1>0, <1>1, <2>1, <3>1 DEF Dial, NodeCapability
  <2>2. CASE MarkAttempt(t)
    <3>1. peer[t] \in Node
      BY <2>2, PeerIsNode DEF MarkAttempt
    <3> QED
      BY <1>0, <2>2, <3>1, MarksSound DEF MarkAttempt
  <2>3. CASE ConnectSucceeds(t)
    <3>1. peer[t] \in Node
      BY <2>3, PeerIsNode DEF ConnectSucceeds
    <3> QED
      BY <1>0, <2>3, <3>1, MarksSound DEF ConnectSucceeds
  <2>4. ASSUME NEW n \in Node, ReadRoute(t, n) PROVE Linked(table) \subseteq Linked(table')
    <3>1. peer[t] \in Node
      BY <2>4, PeerIsNode DEF ReadRoute
    <3> QED
      BY <1>1, <2>4, <3>1, PeerLinksAssumption DEF ReadRoute
  <2>5. ASSUME NEW n \in Node, ChooseBootstrap(t, n) PROVE Linked(table) \subseteq Linked(table')
    BY <2>5 DEF ChooseBootstrap
  <2>6. CASE CheckFeeler(t) \/ SelectFeeler(t) \/ ReadKcpConv(t) \/ ReadEnd(t)
    BY <2>6 DEF CheckFeeler, SelectFeeler, ReadKcpConv, ReadEnd
  <2> QED
    BY <1>3, <2>1, <2>2, <2>3, <2>4, <2>5, <2>6 DEF DialPeer
<1>4. ASSUME NEW t \in Thread, NEW n \in Node, ReceiveHello(t, n)
      PROVE  Linked(table) \subseteq Linked(table')
  BY <1>0, <1>1, <1>4, PeerLinksAssumption DEF ReceiveHello
<1>5. ASSUME NEW t \in Thread, SelectNextHop(t) \/ SendFrameTo(t)
      PROVE  Linked(table) \subseteq Linked(table')
  BY <1>5 DEF SelectNextHop, SendFrameTo
<1>6. ASSUME NEW n \in Node, ReceiveAnnouncement(n) PROVE Linked(table) \subseteq Linked(table')
  BY <1>1, <1>6, PeerLinksAssumption DEF ReceiveAnnouncement
<1>7. ASSUME NEW n \in Node, TimePasses(n) PROVE Linked(table) \subseteq Linked(table')
  <2>1. n \in Ids(table) /\ TryAged(table.routes[n]) \in AgedEntries(table.routes[n])
    BY <1>7 DEF TimePasses, AgedEntries
  <2> QED
    BY <1>0, <1>7, <2>1, AgeSound DEF TimePasses
<1>8. CASE UNCHANGED vars
  BY <1>8 DEF vars
<1> QED
  BY <1>2, <1>3, <1>4, <1>5, <1>6, <1>7, <1>8 DEF Next

(* A link the table loses was lost to a failed dial, or to a refusal by a  *)
(* tunnel that is full.                                                    *)
THEOREM LinkLossHasCauseAlways == Spec => LinkLossHasCause
<1> DEFINE Caused == \A n \in Linked(table) \ Linked(table') : \E t \in Thread :
                       /\ peer[t] = n
                       /\ \/ pc[t] = "connect"
                          \/ pc[t] = "refused" /\ Cardinality(peer_links) >= MaxKcpLinks
<1>1. IInv /\ [Next]_vars => [Caused]_vars
  <2> SUFFICES ASSUME IInv, [Next]_vars PROVE Caused
    OBVIOUS
  <2>0. TableSound
    BY DEF IInv
  <2>1. CASE ~ \E t \in Thread : Refuse(t) \/ ConnectFails(t)
    BY <2>1, OtherStepsKeepLinks
  <2>2. ASSUME NEW t \in Thread, Refuse(t) PROVE Caused
    <3>1. peer[t] \in Node /\ pc[t] = "refused" /\ Cardinality(peer_links) >= MaxKcpLinks
      BY <2>2, PeerIsNode DEF Refuse, IInv, StepsJustified
    <3>2. Linked(table') = Linked(table) \ {peer[t]}
      BY <2>0, <2>2, <3>1, MarksSound DEF Refuse
    <3> QED
      BY <3>1, <3>2
  <2>3. ASSUME NEW t \in Thread, ConnectFails(t) PROVE Caused
    <3>1. peer[t] \in Node /\ pc[t] = "connect"
      BY <2>3, PeerIsNode DEF ConnectFails
    <3>2. Linked(table') = Linked(table) \ {peer[t]}
      BY <2>0, <2>3, <3>1, MarksSound DEF ConnectFails
    <3> QED
      BY <3>1, <3>2
  <2> QED
    BY <2>1, <2>2, <2>3
<1> QED
  BY <1>1, IInvInvariant, PTL DEF Spec, LinkLossHasCause
=============================================================================
