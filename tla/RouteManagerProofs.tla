------------------------- MODULE RouteManagerProofs -------------------------
(***************************************************************************)
(* The invariants of RouteManager, for every set of nodes and every        *)
(* configuration.  The inductive invariant IInv says that the table is     *)
(* sound (RouteTableProofs), that the file is a map of sound entries and   *)
(* that both are within the capacity; the invariants of RouteManager are   *)
(* its consequences.                                                       *)
(***************************************************************************)
EXTENDS RouteManager, RouteTableProofs

IInv ==
  /\ SoundTable(table)
  /\ SoundMap(file)
  /\ running \in BOOLEAN
  /\ CapacityBounded

(* A node that has not been started, with no route file, satisfies the      *)
(* inductive invariant.                                                    *)
LEMMA InitIInv == Init => IInv
<1> SUFFICES ASSUME Init PROVE IInv
  OBVIOUS
<1>1. file = EmptyTable.routes /\ DOMAIN file = {}
  BY EmptyTableSound DEF Init, Ids
<1>2. CapacityBounded
  BY <1>1, EmptyTableSound, FS_EmptySet, RouteTableAssumption DEF Init, CapacityBounded
<1> QED
  BY <1>1, <1>2, EmptyTableSound DEF Init, IInv

(* A call that leads to sound tables within the capacity keeps IInv. *)
LEMMA CallIInv ==
  ASSUME IInv, NEW tables, Call(tables),
         \A u \in tables : SoundTable(u) /\ route_count(u) <= MaxRoutes
  PROVE  IInv'
<1>1. SoundTable(table') /\ route_count(table') <= MaxRoutes /\ file' = file /\ running' = running
  BY DEF Call
<1> QED
  BY <1>1 DEF IInv, CapacityBounded

(* Every operation of RouteManager, a save, a crash and a reload preserve   *)
(* the inductive invariant.                                                *)
LEMMA NextIInv == IInv /\ [Next]_vars => IInv'
<1> SUFFICES ASSUME IInv, [Next]_vars PROVE IInv'
  OBVIOUS
<1>0. SoundTable(table) /\ route_count(table) <= MaxRoutes
  BY DEF IInv, CapacityBounded
<1>1. CASE Start
  <2>1. SoundTable(table') /\ Ids(table') \subseteq DOMAIN file
    BY <1>1, LoadSound DEF Start, IInv
  <2>2. IsFiniteSet(DOMAIN file) /\ Cardinality(DOMAIN file) \in Nat
    BY RouteTableAssumption, FS_Subset, FS_CardinalityType DEF IInv, SoundMap, IsRouteMap
  <2>3. Cardinality(Ids(table')) \in Nat /\ Cardinality(Ids(table')) <= Cardinality(DOMAIN file)
    BY <2>1, <2>2, FS_Subset, FS_CardinalityType
  <2>4. route_count(table') <= MaxRoutes
    BY <2>2, <2>3, RouteTableAssumption DEF IInv, CapacityBounded, route_count
  <2> QED
    BY <1>1, <2>1, <2>4 DEF Start, IInv, CapacityBounded
<1>2. CASE Stop
  <2>1. SoundMap(file') /\ Cardinality(DOMAIN file') <= MaxRoutes
    BY <1>2, RouteManagerAssumption
    DEF Stop, IInv, CapacityBounded, save_json_file, SoundTable, route_count, Ids
  <2>2. CapacityBounded'
    BY <1>2, <2>1, EmptyTableSound, RouteTableAssumption DEF Stop, CapacityBounded
  <2> QED
    BY <1>2, <2>1, <2>2, EmptyTableSound DEF Stop, IInv
<1>3. CASE Crash
  <2>1. CapacityBounded'
    BY <1>3, EmptyTableSound, RouteTableAssumption DEF Crash, IInv, CapacityBounded
  <2> QED
    BY <1>3, <2>1, EmptyTableSound DEF Crash, IInv
<1>4. ASSUME NEW n \in Node, AddRoute(n) PROVE IInv'
  <2>1. PICK source \in Node \cup {NoSource}, connected \in BOOLEAN,
             advertised \in AdvertisedHops, cap \in Capabilities :
               Call(add_route(table, n, source, connected, advertised, cap))
    BY <1>4 DEF AddRoute
  <2>2. advertised \in 0 .. HopMax /\ cap \in NodeCapability
    BY RouteManagerAssumption
  <2>3. \A u \in add_route(table, n, source, connected, advertised, cap) :
          SoundTable(u) /\ route_count(u) <= MaxRoutes
    BY <1>0, <2>2, AddRouteSound
  <2> QED
    BY <2>1, <2>3, CallIInv
<1>5. ASSUME NEW n \in Node, MarkAttempt(n) PROVE IInv'
  BY <1>0, <1>5, MarkAttemptSound, CallIInv DEF MarkAttempt, route_count
<1>6. ASSUME NEW n \in Node, MarkSuccess(n) PROVE IInv'
  BY <1>0, <1>6, MarkSuccessSound, CallIInv DEF MarkSuccess, route_count
<1>7. ASSUME NEW n \in Node, MarkFailure(n) PROVE IInv'
  BY <1>0, <1>7, MarkFailureSound, CallIInv DEF MarkFailure, route_count
<1>8. ASSUME NEW n \in Node, MarkKcpDisconnected(n) PROVE IInv'
  BY <1>0, <1>8, MarkKcpDisconnectedSound, CallIInv DEF MarkKcpDisconnected, route_count
<1>9. ASSUME NEW n \in Node, TimePasses(n) PROVE IInv'
  <2>1. CASE /\ n \in Ids(table)
             /\ Call({Put(table, n, e, table.links) : e \in AgedEntries(table.routes[n])})
    <3>1. \A u \in {Put(table, n, e, table.links) : e \in AgedEntries(table.routes[n])} :
            SoundTable(u) /\ route_count(u) <= MaxRoutes
      BY <1>0, <2>1, AgeSound DEF route_count
    <3> QED
      BY <2>1, <3>1, CallIInv
  <2>2. CASE /\ n \in DOMAIN file
             /\ \E e \in AgedEntries(file[n]) : file' = [file EXCEPT ![n] = e]
             /\ UNCHANGED <<table, running>>
    <3>1. PICK e \in AgedEntries(file[n]) : file' = [file EXCEPT ![n] = e]
      BY <2>2
    <3>2. file[n] \in RouteEntry /\ SoundEntry(file[n])
      BY <2>2 DEF IInv, SoundMap, IsRouteMap
    <3>3. e \in RouteEntry /\ SoundEntry(e)
      BY <3>2, AgedEntrySound
    <3>4. SoundMap(file') /\ DOMAIN file' = DOMAIN file
      BY <2>2, <3>1, <3>3 DEF IInv, SoundMap, IsRouteMap
    <3> QED
      BY <2>2, <3>4 DEF IInv, CapacityBounded
  <2> QED
    BY <1>9, <2>1, <2>2 DEF TimePasses
<1>10. CASE UNCHANGED vars
  BY <1>10 DEF vars, IInv, CapacityBounded
<1> QED
  BY <1>1, <1>2, <1>3, <1>4, <1>5, <1>6, <1>7, <1>8, <1>9, <1>10 DEF Next

(* The inductive invariant holds of the table and of the route file in      *)
(* every reachable state, across restarts.                                 *)
THEOREM IInvInvariant == Spec => []IInv
<1>1. Init => IInv
  BY InitIInv
<1>2. IInv /\ [Next]_vars => IInv'
  BY NextIInv
<1> QED
  BY <1>1, <1>2, PTL DEF Spec

-----------------------------------------------------------------------------
(* The invariants *)

(* The table, the file and the flag always have their types. *)
THEOREM TypeCorrect == Spec => []TypeOK
<1>1. IInv => TypeOK
  BY DEF IInv, TypeOK, SoundTable, SoundMap
<1> QED
  BY <1>1, IInvInvariant, PTL

(* kcp_link_count_ always is the number of connected entries, whatever the *)
(* order in which routes are added, evicted, marked and reloaded.          *)
THEOREM LinkCountCorrect == Spec => []LinkCountExact
<1>1. IInv => LinkCountExact
  BY DEF IInv, LinkCountExact, SoundTable
<1> QED
  BY <1>1, IInvInvariant, PTL

(* A connected entry always is Tried, one hop away and without failures. *)
THEOREM LinkedHealthy == Spec => []LinkedEntriesHealthy
<1>1. IInv => LinkedEntriesHealthy
  BY DEF IInv, LinkedEntriesHealthy, SoundTable, SoundMap, SoundEntry, Linked, Ids
<1> QED
  BY <1>1, IInvInvariant, PTL

(* Hop counts stay within max_route_hops in memory and in the file. *)
THEOREM HopCountsCorrect == Spec => []HopCountsBounded
<1>1. IInv => HopCountsBounded
  <2> SUFFICES ASSUME IInv, NEW r \in {table.routes, file}, NEW n \in DOMAIN r
               PROVE  /\ r[n].hop_count <= MaxRouteHops
                      /\ r[n].source # NoSource => r[n].hop_count >= 1
    BY DEF HopCountsBounded
  <2>1. SoundMap(r)
    BY DEF IInv, SoundTable
  <2> QED
    BY <2>1 DEF SoundMap, SoundEntry
<1> QED
  BY <1>1, IInvInvariant, PTL

(* The table and the file never hold more than max_routes entries. *)
THEOREM CapacityCorrect == Spec => []CapacityBounded
<1>1. IInv => CapacityBounded
  BY DEF IInv
<1> QED
  BY <1>1, IInvInvariant, PTL

(* Number and hop counts of the entries stay within config's limits. *)
THEOREM EntriesCorrect == Spec => []EntriesBounded
  BY HopCountsCorrect, CapacityCorrect, PTL DEF EntriesBounded

-----------------------------------------------------------------------------
(* Eviction *)

(* No step of a running process removes the entry of a connected node. *)
LEMMA StepSparesLinks ==
  ASSUME IInv, [Next]_vars, running, running'
  PROVE  Linked(table) \subseteq Ids(table')
<1>0. SoundTable(table) /\ route_count(table) <= MaxRoutes /\ Linked(table) \subseteq Ids(table)
  BY DEF IInv, CapacityBounded, Linked
<1>1. ASSUME NEW n \in Node, AddRoute(n) PROVE Linked(table) \subseteq Ids(table')
  <2>1. PICK source \in Node \cup {NoSource}, connected \in BOOLEAN,
             advertised \in AdvertisedHops, cap \in Capabilities :
               table' \in add_route(table, n, source, connected, advertised, cap)
    BY <1>1 DEF AddRoute, Call
  <2>2. advertised \in 0 .. HopMax /\ cap \in NodeCapability
    BY RouteManagerAssumption
  <2>3. Linked(table) \subseteq Linked(table')
    BY <1>0, <2>1, <2>2, AddRouteSound
  <2> QED
    BY <2>3 DEF Linked
<1>2. ASSUME NEW n \in Node, MarkAttempt(n) PROVE Linked(table) \subseteq Ids(table')
  BY <1>0, <1>2, MarkAttemptSound DEF MarkAttempt, Call
<1>3. ASSUME NEW n \in Node, MarkSuccess(n) PROVE Linked(table) \subseteq Ids(table')
  BY <1>0, <1>3, MarkSuccessSound DEF MarkSuccess, Call
<1>4. ASSUME NEW n \in Node, MarkFailure(n) PROVE Linked(table) \subseteq Ids(table')
  BY <1>0, <1>4, MarkFailureSound DEF MarkFailure, Call
<1>5. ASSUME NEW n \in Node, MarkKcpDisconnected(n) PROVE Linked(table) \subseteq Ids(table')
  BY <1>0, <1>5, MarkKcpDisconnectedSound DEF MarkKcpDisconnected, Call
<1>6. ASSUME NEW n \in Node, TimePasses(n) PROVE Linked(table) \subseteq Ids(table')
  BY <1>0, <1>6, AgeSound DEF TimePasses, Call
<1>7. CASE UNCHANGED vars
  BY <1>0, <1>7 DEF vars
<1> QED
  BY <1>1, <1>2, <1>3, <1>4, <1>5, <1>6, <1>7 DEF Next, Start, Stop, Crash

(* While the process runs, eviction never drops a connected entry. *)
THEOREM EvictionCorrect == Spec => EvictionSparesLinks
<1>1. IInv /\ [Next]_vars
        => [running /\ running' => Linked(table) \subseteq Ids(table')]_vars
  BY StepSparesLinks
<1> QED
  BY <1>1, IInvInvariant, PTL DEF Spec, EvictionSparesLinks

-----------------------------------------------------------------------------
(* Lost links *)

(* No step of a running process gives an unlinked sourceless entry a way.  *)
LEMMA StepKeepsSourceless ==
  ASSUME IInv, [Next]_vars, running, running'
  PROVE  SourcelessKept(table, table')
<1>0. SoundTable(table)
  BY DEF IInv
<1>1. ASSUME NEW n \in Node, AddRoute(n) PROVE SourcelessKept(table, table')
  <2>1. PICK source \in Node \cup {NoSource}, connected \in BOOLEAN,
             advertised \in AdvertisedHops, cap \in Capabilities :
               table' \in add_route(table, n, source, connected, advertised, cap)
    BY <1>1 DEF AddRoute, Call
  <2>2. advertised \in 0 .. HopMax /\ cap \in NodeCapability
    BY RouteManagerAssumption
  <2> QED
    BY <1>0, <2>1, <2>2, AddRouteSourceless
<1>2. ASSUME NEW n \in Node, MarkAttempt(n) PROVE SourcelessKept(table, table')
  BY <1>0, <1>2, MarksSourceless DEF MarkAttempt, Call
<1>3. ASSUME NEW n \in Node, MarkSuccess(n) PROVE SourcelessKept(table, table')
  BY <1>0, <1>3, MarksSourceless DEF MarkSuccess, Call
<1>4. ASSUME NEW n \in Node, MarkFailure(n) PROVE SourcelessKept(table, table')
  BY <1>0, <1>4, MarksSourceless DEF MarkFailure, Call
<1>5. ASSUME NEW n \in Node, MarkKcpDisconnected(n) PROVE SourcelessKept(table, table')
  BY <1>0, <1>5, MarksSourceless DEF MarkKcpDisconnected, Call
<1>6. ASSUME NEW n \in Node, TimePasses(n) PROVE SourcelessKept(table, table')
  BY <1>0, <1>6, MarksSourceless DEF TimePasses, Call
<1>7. CASE UNCHANGED vars
  BY <1>7 DEF vars, SourcelessKept
<1> QED
  BY <1>1, <1>2, <1>3, <1>4, <1>5, <1>6, <1>7 DEF Next, Start, Stop, Crash

(* Once a link is lost no advertisement makes its node routable: until the *)
(* node is connected again, dropped or reloaded, select_next_hop finds no  *)
(* way to it, though a neighbour may well have one.                        *)
THEOREM LostLinkCorrect == Spec => LostLinkStaysUnroutable
<1> DEFINE Lost(n) == /\ running /\ running'
                      /\ n \notin Linked(table)
                      /\ table.routes[n].hop_count = 1
                      /\ table.routes[n].source = NoSource
           Unroutable(n) == \/ n \notin Ids(table')
                            \/ n \in Linked(table')
                            \/ select_next_hop(table', n) = {}
<1>1. ASSUME IInv, IInv', [Next]_vars, NEW n \in Ids(table), Lost(n) PROVE Unroutable(n)
  <2>1. SourcelessKept(table, table')
    BY <1>1, StepKeepsSourceless
  <2>2. SoundTable(table')
    BY <1>1 DEF IInv
  <2>3. CASE n \in Ids(table') /\ n \notin Linked(table')
    <3>1. Sourceless(table'.routes[n])
      BY <1>1, <2>1, <2>3 DEF SourcelessKept, Sourceless
    <3> QED
      BY <2>2, <2>3, <3>1, SourcelessUnroutable
  <2> QED
    BY <2>3
<1>2. IInv /\ IInv' /\ [Next]_vars => [\A n \in Ids(table) : Lost(n) => Unroutable(n)]_vars
  BY <1>1
<1> QED
  BY <1>2, IInvInvariant, PTL DEF Spec, LostLinkStaysUnroutable
=============================================================================
