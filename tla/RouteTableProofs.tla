-------------------------- MODULE RouteTableProofs --------------------------
(***************************************************************************)
(* Lemmas about the operations of RouteTable: each keeps a table well      *)
(* formed, its link counter exact and its entries sound.                   *)
(***************************************************************************)
EXTENDS RouteTable, FiniteSetTheorems, TLAPS

(* An entry whose hop count is in range and which, if connected, is        *)
(* healthy.                                                                *)
SoundEntry(e) ==
  /\ e.hop_count <= MaxRouteHops
  /\ e.source # NoSource => e.hop_count >= 1
  /\ e.kcp_connected => /\ e.state = "Tried"
                        /\ e.hop_count = 1
                        /\ e.failures = 0
                        /\ e.last_success # "never"

SoundMap(r) == IsRouteMap(r) /\ \A n \in DOMAIN r : SoundEntry(r[n])

(* The invariant of a table: well formed, sound, and its counter exact. *)
SoundTable(t) ==
  /\ IsTable(t)
  /\ SoundMap(t.routes)
  /\ t.links = Cardinality(Linked(t))

-----------------------------------------------------------------------------
(* Sizes *)

(* The ids and the linked ids of a table are finite sets of nodes. *)
LEMMA FiniteIds ==
  ASSUME NEW t, IsTable(t)
  PROVE  /\ Ids(t) \subseteq Node /\ IsFiniteSet(Ids(t))
         /\ Linked(t) \subseteq Ids(t) /\ IsFiniteSet(Linked(t))
         /\ Cardinality(Ids(t)) \in Nat /\ Cardinality(Linked(t)) \in Nat
<1>1. Ids(t) \subseteq Node
  BY DEF IsTable, IsRouteMap, Ids
<1>2. IsFiniteSet(Ids(t))
  BY <1>1, RouteTableAssumption, FS_Subset
<1>3. Linked(t) \subseteq Ids(t)
  BY DEF Linked
<1>4. IsFiniteSet(Linked(t))
  BY <1>2, <1>3, FS_Subset
<1> QED
  BY <1>1, <1>2, <1>3, <1>4, FS_CardinalityType

-----------------------------------------------------------------------------
(* Entries *)

(* The numbers the operations write into entries are in range. *)
LEMMA EntryNumbers ==
  /\ 0 \in 0 .. CounterMax
  /\ 1 \in 0 .. HopMax
  /\ \A h \in 0 .. MaxRouteHops : h \in 0 .. HopMax
  /\ \A c \in 0 .. CounterMax : Saturating(c) \in 0 .. CounterMax
  BY RouteTableAssumption DEF Saturating

(* A sound entry stays a sound entry when add_route updates it. *)
LEMMA UpdatedEntrySound ==
  ASSUME NEW e \in RouteEntry, SoundEntry(e),
         NEW source \in Node \cup {NoSource}, NEW connected \in BOOLEAN,
         NEW hops \in 0 .. MaxRouteHops, NEW cap \in NodeCapability,
         source # NoSource => hops >= 1
  PROVE  /\ UpdatedEntry(e, source, connected, hops, cap) \in RouteEntry
         /\ SoundEntry(UpdatedEntry(e, source, connected, hops, cap))
         /\ UpdatedEntry(e, source, connected, hops, cap).kcp_connected
              = (e.kcp_connected \/ connected)
<1> DEFINE f == UpdatedEntry(e, source, connected, hops, cap)
<1>1. f \in RouteEntry
  BY EntryNumbers, ZenonT(30) DEF UpdatedEntry, RouteEntry, RouteState
<1>2. f.kcp_connected = (e.kcp_connected \/ connected)
  BY DEF UpdatedEntry, RouteEntry
<1>3. SoundEntry(f)
  BY RouteTableAssumption DEF UpdatedEntry, RouteEntry, SoundEntry
<1> QED
  BY <1>1, <1>2, <1>3

(* A new entry is sound. *)
LEMMA NewEntrySound ==
  ASSUME NEW source \in Node \cup {NoSource}, NEW connected \in BOOLEAN,
         NEW hops \in 0 .. MaxRouteHops, NEW cap \in NodeCapability,
         source # NoSource => hops >= 1, connected => hops = 1
  PROVE  /\ NewEntry(source, connected, hops, cap) \in RouteEntry
         /\ SoundEntry(NewEntry(source, connected, hops, cap))
         /\ NewEntry(source, connected, hops, cap).kcp_connected = connected
  BY RouteTableAssumption DEF NewEntry, RouteEntry, SoundEntry, RouteState

(* Recording an attempt keeps an entry sound and its link as it is. *)
LEMMA AttemptedEntrySound ==
  ASSUME NEW e \in RouteEntry, SoundEntry(e)
  PROVE  /\ AttemptedEntry(e) \in RouteEntry
         /\ SoundEntry(AttemptedEntry(e))
         /\ AttemptedEntry(e).kcp_connected = e.kcp_connected
<1>1. AttemptedEntry(e) \in RouteEntry
  BY EntryNumbers DEF AttemptedEntry, RouteEntry
<1>2. SoundEntry(AttemptedEntry(e))
  BY DEF AttemptedEntry, RouteEntry, SoundEntry
<1>3. AttemptedEntry(e).kcp_connected = e.kcp_connected
  BY DEF AttemptedEntry, RouteEntry
<1> QED
  BY <1>1, <1>2, <1>3

(* Recording a success keeps an entry sound and can only add a link. *)
LEMMA SucceededEntrySound ==
  ASSUME NEW e \in RouteEntry, SoundEntry(e), NEW connected \in BOOLEAN
  PROVE  /\ SucceededEntry(e, connected) \in RouteEntry
         /\ SoundEntry(SucceededEntry(e, connected))
         /\ SucceededEntry(e, connected).kcp_connected = (e.kcp_connected \/ connected)
<1>1. SucceededEntry(e, connected) \in RouteEntry
  BY EntryNumbers, ZenonT(30) DEF SucceededEntry, RouteEntry, RouteState
<1>2. SoundEntry(SucceededEntry(e, connected))
  BY RouteTableAssumption DEF SucceededEntry, RouteEntry, SoundEntry
<1>3. SucceededEntry(e, connected).kcp_connected = (e.kcp_connected \/ connected)
  BY DEF SucceededEntry, RouteEntry
<1> QED
  BY <1>1, <1>2, <1>3

(* Recording a failure keeps an entry sound and takes its link away. *)
LEMMA FailedEntrySound ==
  ASSUME NEW e \in RouteEntry, SoundEntry(e)
  PROVE  /\ FailedEntry(e) \in RouteEntry
         /\ SoundEntry(FailedEntry(e))
         /\ FailedEntry(e).kcp_connected = FALSE
<1>1. FailedEntry(e) \in RouteEntry
  BY EntryNumbers DEF FailedEntry, RouteEntry, RouteState
<1>2. FailedEntry(e).kcp_connected = FALSE
  BY DEF FailedEntry, RouteEntry
<1>3. FailedEntry(e).hop_count = e.hop_count /\ FailedEntry(e).source = e.source
  BY DEF FailedEntry, RouteEntry
<1>4. SoundEntry(FailedEntry(e))
  BY <1>2, <1>3 DEF SoundEntry
<1> QED
  BY <1>1, <1>2, <1>4

(* So does clearing the flag alone, as mark_kcp_disconnected does. *)
LEMMA UnlinkedEntrySound ==
  ASSUME NEW e \in RouteEntry, SoundEntry(e)
  PROVE  /\ [e EXCEPT !.kcp_connected = FALSE] \in RouteEntry
         /\ SoundEntry([e EXCEPT !.kcp_connected = FALSE])
         /\ [e EXCEPT !.kcp_connected = FALSE].kcp_connected = FALSE
  BY DEF RouteEntry, SoundEntry

(* An entry read back from the file is sound and has no link. *)
LEMMA LoadedEntrySound ==
  ASSUME NEW n \in Node, NEW e \in RouteEntry, SoundEntry(e)
  PROVE  /\ LoadedEntry(n, e) \in RouteEntry
         /\ SoundEntry(LoadedEntry(n, e))
         /\ LoadedEntry(n, e).kcp_connected = FALSE
<1> DEFINE hops == IF e.hop_count > MaxRouteHops THEN MaxRouteHops ELSE e.hop_count
<1>0. hops \in 0 .. HopMax
  BY RouteTableAssumption DEF RouteEntry
<1> HIDE DEF hops
<1>1. LoadedEntry(n, e) \in RouteEntry
  BY <1>0, ZenonT(30) DEF LoadedEntry, RouteEntry, RouteState, hops
<1>2. LoadedEntry(n, e).kcp_connected = FALSE
  BY DEF LoadedEntry, RouteEntry
<1>3. SoundEntry(LoadedEntry(n, e))
  BY <1>2, RouteTableAssumption DEF LoadedEntry, RouteEntry, SoundEntry
<1> QED
  BY <1>1, <1>2, <1>3

(* Time changes neither the link nor the hops of an entry, so it stays     *)
(* sound.                                                                  *)
LEMMA AgedEntrySound ==
  ASSUME NEW e \in RouteEntry, SoundEntry(e), NEW f \in AgedEntries(e)
  PROVE  /\ f \in RouteEntry
         /\ SoundEntry(f)
         /\ f.kcp_connected = e.kcp_connected
<1>1. CASE f = [e EXCEPT !.last_seen = "stale"]
  BY <1>1 DEF RouteEntry, SoundEntry
<1>2. CASE f = TryAged(e)
  BY <1>2 DEF TryAged, RouteEntry, SoundEntry
<1>3. CASE f = [e EXCEPT !.last_success = IF @ = "recent" THEN "old" ELSE @]
  BY <1>3 DEF RouteEntry, SoundEntry
<1>4. CASE f = [e EXCEPT !.capability = IF @ \in {"full", "loaded", "idle"} THEN "stale" ELSE @]
  BY <1>4 DEF RouteEntry, SoundEntry, NodeCapability
<1> QED
  BY <1>1, <1>2, <1>3, <1>4 DEF AgedEntries

-----------------------------------------------------------------------------
(* Tables *)

(* The linked nodes once n is stored with the given flag. *)
LinkedWith(t, n, connected) ==
  IF connected THEN Linked(t) \cup {n} ELSE Linked(t) \ {n}

(* A table is determined by its map and its counter. *)
LEMMA TableFields ==
  ASSUME NEW r, NEW k
  PROVE  Table(r, k).routes = r /\ Table(r, k).links = k
  BY DEF Table

(* What storing an entry and setting the counter does to a table. *)
LEMMA PutTable ==
  ASSUME NEW t, IsTable(t), SoundMap(t.routes),
         NEW n \in Node, NEW e \in RouteEntry, SoundEntry(e), NEW k \in Nat
  PROVE  /\ IsTable(Put(t, n, e, k)) /\ SoundMap(Put(t, n, e, k).routes)
         /\ Put(t, n, e, k).links = k
         /\ Ids(Put(t, n, e, k)) = Ids(t) \cup {n}
         /\ Put(t, n, e, k).routes[n] = e
         /\ \A m \in Ids(t) \ {n} : Put(t, n, e, k).routes[m] = t.routes[m]
         /\ Linked(Put(t, n, e, k)) = LinkedWith(t, n, e.kcp_connected)
<1> DEFINE u == Put(t, n, e, k)
<1> DEFINE r == [m \in Ids(t) \cup {n} |-> IF m = n THEN e ELSE t.routes[m]]
<1>1. u = Table(r, k)
  BY DEF Put
<1> HIDE DEF u
<1>2. u.routes = r /\ u.links = k
  BY <1>1, TableFields
<1>3. Ids(u) = Ids(t) \cup {n}
  BY <1>2 DEF Ids
<1>4. Ids(t) \subseteq Node
  BY DEF IsTable, IsRouteMap, Ids
<1>5. \A m \in Ids(t) \cup {n} : r[m] \in RouteEntry /\ SoundEntry(r[m])
  BY DEF SoundMap, IsRouteMap, Ids
<1>6. IsRouteMap(r) /\ SoundMap(r)
  BY <1>4, <1>5 DEF SoundMap, IsRouteMap
<1>7. IsTable(u)
  BY <1>1, <1>2, <1>6 DEF IsTable
<1>8. u.routes[n] = e /\ \A m \in Ids(t) \ {n} : u.routes[m] = t.routes[m]
  BY <1>2
<1>9. Linked(u) = LinkedWith(t, n, e.kcp_connected)
  BY <1>3, <1>8 DEF Linked, LinkedWith
<1> QED
  BY <1>2, <1>3, <1>6, <1>7, <1>8, <1>9 DEF u

(* Replacing an entry keeps the table sound, the counter included. *)
LEMMA ReplaceSound ==
  ASSUME NEW t, SoundTable(t), NEW n \in Ids(t),
         NEW e \in RouteEntry, SoundEntry(e)
  PROVE  /\ SoundTable(Replace(t, n, e))
         /\ Ids(Replace(t, n, e)) = Ids(t)
         /\ Replace(t, n, e).routes[n] = e
         /\ \A m \in Ids(t) \ {n} : Replace(t, n, e).routes[m] = t.routes[m]
         /\ Linked(Replace(t, n, e)) = LinkedWith(t, n, e.kcp_connected)
<1> DEFINE u == Replace(t, n, e)
           k == t.links + LinkDelta(t.routes[n], e)
<1>1. /\ n \in Node /\ IsFiniteSet(Linked(t)) /\ Cardinality(Linked(t)) \in Nat
      /\ t.links = Cardinality(Linked(t)) /\ IsTable(t) /\ SoundMap(t.routes)
  BY FiniteIds DEF SoundTable
<1>2. e.kcp_connected \in BOOLEAN /\ t.routes[n].kcp_connected \in BOOLEAN
  BY <1>1 DEF RouteEntry, IsTable, IsRouteMap, Ids
<1>3. n \in Linked(t) <=> t.routes[n].kcp_connected
  BY DEF Linked
<1>4. /\ Cardinality(Linked(t) \ {n})
           = IF n \in Linked(t) THEN t.links - 1 ELSE t.links
      /\ n \in Linked(t) => t.links # 0
  BY <1>1, FS_RemoveElement, FS_EmptySet
<1>a. Cardinality(Linked(t) \cup {n})
        = IF n \in Linked(t) THEN t.links ELSE t.links + 1
  BY <1>1, FS_AddElement
<1>5. k \in Nat
  BY <1>1, <1>2, <1>3, <1>4, <1>a DEF LinkDelta
<1>6. k = IF e.kcp_connected THEN Cardinality(Linked(t) \cup {n})
                             ELSE Cardinality(Linked(t) \ {n})
  BY <1>1, <1>2, <1>3, <1>4, <1>a DEF LinkDelta
<1>7. u = Put(t, n, e, k)
  BY DEF Replace
<1> HIDE DEF u, k
<1>8. /\ IsTable(u) /\ SoundMap(u.routes)
      /\ u.links = k
      /\ Ids(u) = Ids(t) \cup {n}
      /\ u.routes[n] = e
      /\ \A m \in Ids(t) \ {n} : u.routes[m] = t.routes[m]
      /\ Linked(u) = LinkedWith(t, n, e.kcp_connected)
  BY <1>1, <1>5, <1>7, PutTable
<1>9. SoundTable(u) /\ Ids(u) = Ids(t)
  BY <1>2, <1>6, <1>8 DEF SoundTable, LinkedWith
<1> QED
  BY <1>8, <1>9 DEF u

(* Taking the link of an entry away, with the guarded decrement, does too. *)
LEMMA UnlinkSound ==
  ASSUME NEW t, SoundTable(t), NEW n \in Ids(t),
         NEW e \in RouteEntry, SoundEntry(e), e.kcp_connected = FALSE
  PROVE  /\ SoundTable(Unlink(t, n, e))
         /\ Ids(Unlink(t, n, e)) = Ids(t)
         /\ Linked(Unlink(t, n, e)) = Linked(t) \ {n}
         /\ \A m \in Ids(t) \ {n} : Unlink(t, n, e).routes[m] = t.routes[m]
<1> DEFINE u == Unlink(t, n, e)
           k == IF t.routes[n].kcp_connected /\ t.links > 0 THEN t.links - 1 ELSE t.links
<1>1. /\ n \in Node /\ IsFiniteSet(Linked(t)) /\ Cardinality(Linked(t)) \in Nat
      /\ t.links = Cardinality(Linked(t)) /\ IsTable(t) /\ SoundMap(t.routes)
  BY FiniteIds DEF SoundTable
<1>2. n \in Linked(t) <=> t.routes[n].kcp_connected
  BY DEF Linked
<1>3. /\ Cardinality(Linked(t) \ {n})
           = IF n \in Linked(t) THEN t.links - 1 ELSE t.links
      /\ n \in Linked(t) => t.links # 0
  BY <1>1, FS_RemoveElement, FS_EmptySet
<1>b. k \in Nat
  BY <1>1, <1>2, <1>3
<1>4. k = Cardinality(Linked(t) \ {n})
  BY <1>1, <1>2, <1>3
<1>5. u = Put(t, n, e, k)
  BY DEF Unlink
<1> HIDE DEF u, k
<1>6. /\ IsTable(u) /\ SoundMap(u.routes)
      /\ u.links = k
      /\ Ids(u) = Ids(t) \cup {n}
      /\ \A m \in Ids(t) \ {n} : u.routes[m] = t.routes[m]
      /\ u.routes[n] = e
  BY <1>1, <1>b, <1>5, PutTable
<1>a. ~ e.kcp_connected
  OBVIOUS
<1>7. Linked(u) = Linked(t) \ {n}
  BY <1>6, <1>a DEF Linked
<1>8. SoundTable(u) /\ Ids(u) = Ids(t)
  BY <1>4, <1>6, <1>7 DEF SoundTable
<1> QED
  BY <1>6, <1>7, <1>8 DEF u

(* Storing a new entry where there is room counts its link. *)
LEMMA InsertSound ==
  ASSUME NEW t, SoundTable(t), NEW n \in Node, n \notin Ids(t),
         NEW e \in RouteEntry, SoundEntry(e), route_count(t) <= MaxRoutes
  PROVE  /\ SoundTable(Insert(t, n, e))
         /\ route_count(Insert(t, n, e)) <= MaxRoutes
         /\ Linked(t) \subseteq Linked(Insert(t, n, e))
         /\ Linked(Insert(t, n, e)) \subseteq
              Linked(t) \cup (IF e.kcp_connected THEN {n} ELSE {})
<1> DEFINE u == Insert(t, n, e)
           k == t.links + IF e.kcp_connected THEN 1 ELSE 0
<1>1. /\ IsFiniteSet(Linked(t)) /\ Cardinality(Linked(t)) \in Nat
      /\ IsFiniteSet(Ids(t)) /\ Cardinality(Ids(t)) \in Nat
      /\ t.links = Cardinality(Linked(t)) /\ IsTable(t) /\ SoundMap(t.routes)
  BY FiniteIds DEF SoundTable
<1>2. CASE route_count(t) >= MaxRoutes
  BY <1>2 DEF Insert
<1>3. CASE ~ (route_count(t) >= MaxRoutes)
  <2>1. u = Put(t, n, e, k) /\ k \in Nat
    BY <1>1, <1>3 DEF Insert
  <2>2. n \notin Linked(t)
    BY DEF Linked
  <2>3. Cardinality(Linked(t) \cup {n}) = Cardinality(Linked(t)) + 1
    BY <1>1, <2>2, FS_AddElement
  <2>4. Cardinality(Ids(t) \cup {n}) = Cardinality(Ids(t)) + 1
    BY <1>1, FS_AddElement
  <2>5. e.kcp_connected \in BOOLEAN
    BY DEF RouteEntry
  <2> HIDE DEF u
  <2>6. /\ IsTable(u) /\ SoundMap(u.routes)
        /\ u.links = k
        /\ Ids(u) = Ids(t) \cup {n}
        /\ Linked(u) = LinkedWith(t, n, e.kcp_connected)
    <3> HIDE DEF k
    <3> QED
      BY <1>1, <2>1, PutTable
  <2>7. Linked(u) = IF e.kcp_connected THEN Linked(t) \cup {n} ELSE Linked(t)
    BY <2>2, <2>5, <2>6 DEF LinkedWith
  <2>8. u.links = Cardinality(Linked(u))
    BY <1>1, <2>3, <2>5, <2>6, <2>7
  <2>9. route_count(u) <= MaxRoutes
    BY <1>1, <1>3, <2>4, <2>6, RouteTableAssumption DEF route_count
  <2> QED
    BY <2>5, <2>6, <2>7, <2>8, <2>9 DEF SoundTable, u
<1> QED
  BY <1>2, <1>3

(* Dropping unconnected entries keeps a table sound. *)
LEMMA KeepSound ==
  ASSUME NEW t, SoundTable(t), NEW S, S \subseteq Ids(t), Linked(t) \subseteq S
  PROVE  /\ SoundTable(Keep(t, S))
         /\ Ids(Keep(t, S)) = S
         /\ Linked(Keep(t, S)) = Linked(t)
         /\ \A n \in S : Keep(t, S).routes[n] = t.routes[n]
<1> DEFINE r == [n \in S |-> t.routes[n]]
           u == Keep(t, S)
<1>1. u = Table(r, t.links)
  BY DEF Keep
<1> HIDE DEF u
<1>2. u.routes = r /\ u.links = t.links
  BY <1>1, TableFields
<1>3. Ids(u) = S /\ \A n \in S : u.routes[n] = t.routes[n]
  BY <1>2 DEF Ids
<1>4. SoundMap(r)
  BY DEF SoundTable, SoundMap, IsRouteMap, Ids
<1>5. IsTable(u)
  BY <1>1, <1>2, <1>4 DEF SoundTable, IsTable, SoundMap
<1>6. Linked(u) = Linked(t)
  BY <1>3 DEF Linked
<1> QED
  BY <1>2, <1>3, <1>4, <1>5, <1>6 DEF SoundTable, u

(* Trimming a table drops only unconnected entries, and never makes it     *)
(* larger.                                                                 *)
LEMMA TrimSound ==
  ASSUME NEW t, SoundTable(t), NEW u \in trim_if_needed(t)
  PROVE  /\ SoundTable(u)
         /\ Ids(u) \subseteq Ids(t)
         /\ Linked(u) = Linked(t)
         /\ \A n \in Ids(u) : u.routes[n] = t.routes[n]
<1> DEFINE S == {n \in Ids(t) : t.routes[n].kcp_connected \/ ~ is_terrible(t.routes[n])}
           live == Keep(t, S)
<1>1. S \subseteq Ids(t) /\ Linked(t) \subseteq S
  BY DEF Linked
<1>2. /\ SoundTable(live) /\ Ids(live) = S /\ Linked(live) = Linked(t)
      /\ \A n \in S : live.routes[n] = t.routes[n]
  <2> HIDE DEF S
  <2> QED
    BY <1>1, KeepSound
<1>3. u = t \/ u = live \/ \E v \in Victims(live) : u = Keep(live, Ids(live) \ {v})
  BY DEF trim_if_needed
<1> HIDE DEF S, live
<1>4. CASE u = t
  BY <1>4
<1>5. CASE u = live
  BY <1>1, <1>2, <1>5
<1>6. ASSUME NEW v \in Victims(live), u = Keep(live, Ids(live) \ {v})
      PROVE  /\ SoundTable(u)
             /\ Ids(u) \subseteq Ids(t)
             /\ Linked(u) = Linked(t)
             /\ \A n \in Ids(u) : u.routes[n] = t.routes[n]
  <2>1. v \notin Linked(live)
    BY DEF Victims
  <2>2. Linked(live) \subseteq Ids(live) \ {v}
    BY <2>1 DEF Linked
  <2> QED
    BY <1>1, <1>2, <1>6, <2>2, KeepSound
<1> QED
  BY <1>3, <1>4, <1>5, <1>6

(* So does making room for an insertion. *)
LEMMA MakeRoomSound ==
  ASSUME NEW t, SoundTable(t), NEW u \in make_room(t)
  PROVE  /\ SoundTable(u)
         /\ Ids(u) \subseteq Ids(t)
         /\ Linked(u) = Linked(t)
<1>1. PICK w \in trim_if_needed(t) :
        u \in IF route_count(w) >= MaxRoutes THEN trim_if_needed(w) ELSE {w}
  BY DEF make_room
<1>2. SoundTable(w) /\ Ids(w) \subseteq Ids(t) /\ Linked(w) = Linked(t)
  BY TrimSound
<1>3. CASE u = w
  BY <1>2, <1>3
<1>4. CASE u \in trim_if_needed(w)
  BY <1>2, <1>4, TrimSound
<1> QED
  BY <1>1, <1>3, <1>4

-----------------------------------------------------------------------------
(* Operations *)

(* add_route keeps a table sound and within its capacity; it loses no      *)
(* link, and gains one only for the node it is told is connected.          *)
LEMMA AddRouteSound ==
  ASSUME NEW t, SoundTable(t), route_count(t) <= MaxRoutes,
         NEW n \in Node, NEW source \in Node \cup {NoSource}, NEW connected \in BOOLEAN,
         NEW advertised \in 0 .. HopMax, NEW cap \in NodeCapability,
         NEW u \in add_route(t, n, source, connected, advertised, cap)
  PROVE  /\ SoundTable(u)
         /\ route_count(u) <= MaxRoutes
         /\ Linked(t) \subseteq Linked(u)
         /\ Linked(u) \subseteq Linked(t) \cup (IF connected THEN {n} ELSE {})
<1> DEFINE hops == local_hop_count(source, connected, advertised)
           old == UpdatedEntry(t.routes[n], source, connected, hops, cap)
           new == NewEntry(source, connected, hops, cap)
           Goal == /\ SoundTable(u)
                   /\ route_count(u) <= MaxRoutes
                   /\ Linked(t) \subseteq Linked(u)
                   /\ Linked(u) \subseteq Linked(t) \cup (IF connected THEN {n} ELSE {})
<1>1. /\ hops \in Nat
      /\ source # NoSource => hops >= 1
      /\ connected => hops = 1
  BY RouteTableAssumption DEF local_hop_count
<1>2. \/ u = t
      \/ hops <= MaxRouteHops /\ n \in Ids(t) /\ u = Replace(t, n, old)
      \/ hops <= MaxRouteHops /\ n \notin Ids(t) /\ \E w \in make_room(t) : u = Insert(w, n, new)
  BY <1>1, RouteTableAssumption DEF add_route
<1> HIDE DEF hops
<1>3. CASE u = t
  BY <1>3
<1>4. CASE hops <= MaxRouteHops /\ n \in Ids(t) /\ u = Replace(t, n, old)
  <2>1. hops \in 0 .. MaxRouteHops
    BY <1>1, <1>4, RouteTableAssumption
  <2>2. t.routes[n] \in RouteEntry /\ SoundEntry(t.routes[n])
    BY <1>4 DEF SoundTable, SoundMap, IsRouteMap, Ids
  <2>3. /\ old \in RouteEntry /\ SoundEntry(old)
        /\ old.kcp_connected = (t.routes[n].kcp_connected \/ connected)
    BY <1>1, <2>1, <2>2, UpdatedEntrySound
  <2>4. n \in Linked(t) <=> t.routes[n].kcp_connected
    BY <1>4 DEF Linked
  <2> HIDE DEF old
  <2>5. /\ SoundTable(u) /\ Ids(u) = Ids(t)
        /\ Linked(u) = LinkedWith(t, n, old.kcp_connected)
    BY <1>4, <2>3, ReplaceSound
  <2>6. /\ Linked(t) \subseteq Linked(u)
        /\ Linked(u) \subseteq Linked(t) \cup (IF connected THEN {n} ELSE {})
    BY <2>3, <2>4, <2>5, Zenon DEF LinkedWith
  <2> QED
    BY <2>5, <2>6 DEF route_count
<1>5. CASE hops <= MaxRouteHops /\ n \notin Ids(t) /\ \E w \in make_room(t) : u = Insert(w, n, new)
  <2>1. PICK w \in make_room(t) : u = Insert(w, n, new)
    BY <1>5
  <2>2. SoundTable(w) /\ Ids(w) \subseteq Ids(t) /\ Linked(w) = Linked(t)
    BY MakeRoomSound
  <2>3. hops \in 0 .. MaxRouteHops
    BY <1>1, <1>5, RouteTableAssumption
  <2>4. new \in RouteEntry /\ SoundEntry(new) /\ new.kcp_connected = connected
    BY <1>1, <2>3, NewEntrySound
  <2>5. n \notin Ids(w)
    BY <1>5, <2>2
  <2>6. route_count(w) <= MaxRoutes
    <3>1. IsFiniteSet(Ids(t)) /\ Cardinality(Ids(t)) \in Nat
      BY FiniteIds DEF SoundTable
    <3>2. Cardinality(Ids(w)) \in Nat
      BY <2>2, FiniteIds DEF SoundTable
    <3>3. Cardinality(Ids(w)) <= Cardinality(Ids(t))
      BY <2>2, <3>1, FS_Subset
    <3> QED
      BY <3>1, <3>2, <3>3, RouteTableAssumption DEF route_count
  <2> HIDE DEF new
  <2> QED
    BY <2>1, <2>2, <2>4, <2>5, <2>6, InsertSound
<1> QED
  BY <1>2, <1>3, <1>4, <1>5

(* An entry of a sound table is a sound entry. *)
LEMMA EntrySound ==
  ASSUME NEW t, SoundTable(t), NEW n \in Ids(t)
  PROVE  n \in Node /\ t.routes[n] \in RouteEntry /\ SoundEntry(t.routes[n])
  BY DEF SoundTable, SoundMap, IsRouteMap, Ids

(* The marking operations keep a table sound, and touch only the link of   *)
(* the node they are told about.                                           *)
LEMMA MarkAttemptSound ==
  ASSUME NEW t, SoundTable(t), NEW n \in Node
  PROVE  /\ SoundTable(mark_attempt(t, n))
         /\ Ids(mark_attempt(t, n)) = Ids(t)
         /\ Linked(mark_attempt(t, n)) = Linked(t)
<1>1. CASE n \notin Ids(t)
  BY <1>1 DEF mark_attempt
<1>2. CASE n \in Ids(t)
  <2> DEFINE e == AttemptedEntry(t.routes[n])
  <2>1. e \in RouteEntry /\ SoundEntry(e) /\ e.kcp_connected = t.routes[n].kcp_connected
    BY <1>2, EntrySound, AttemptedEntrySound
  <2> HIDE DEF e
  <2>2. /\ SoundTable(Replace(t, n, e)) /\ Ids(Replace(t, n, e)) = Ids(t)
        /\ Linked(Replace(t, n, e)) = LinkedWith(t, n, e.kcp_connected)
    BY <1>2, <2>1, ReplaceSound
  <2>3. LinkedWith(t, n, e.kcp_connected) = Linked(t)
    BY <1>2, <2>1 DEF LinkedWith, Linked
  <2> QED
    BY <1>2, <2>2, <2>3 DEF mark_attempt, e
<1> QED
  BY <1>1, <1>2

(* mark_success keeps the table sound: counter, capacity, hop counts.       *)
LEMMA MarkSuccessSound ==
  ASSUME NEW t, SoundTable(t), NEW n \in Node, NEW connected \in BOOLEAN
  PROVE  /\ SoundTable(mark_success(t, n, connected))
         /\ Ids(mark_success(t, n, connected)) = Ids(t)
         /\ Linked(t) \subseteq Linked(mark_success(t, n, connected))
         /\ Linked(mark_success(t, n, connected)) \subseteq
              Linked(t) \cup (IF connected THEN {n} ELSE {})
<1>1. CASE n \notin Ids(t)
  BY <1>1 DEF mark_success
<1>2. CASE n \in Ids(t)
  <2> DEFINE e == SucceededEntry(t.routes[n], connected)
  <2>1. /\ e \in RouteEntry /\ SoundEntry(e)
        /\ e.kcp_connected = (t.routes[n].kcp_connected \/ connected)
    BY <1>2, EntrySound, SucceededEntrySound
  <2> HIDE DEF e
  <2>2. /\ SoundTable(Replace(t, n, e)) /\ Ids(Replace(t, n, e)) = Ids(t)
        /\ Linked(Replace(t, n, e)) = LinkedWith(t, n, e.kcp_connected)
    BY <1>2, <2>1, ReplaceSound
  <2>3. n \in Linked(t) <=> t.routes[n].kcp_connected
    BY <1>2 DEF Linked
  <2>4. /\ Linked(t) \subseteq LinkedWith(t, n, e.kcp_connected)
        /\ LinkedWith(t, n, e.kcp_connected) \subseteq
             Linked(t) \cup (IF connected THEN {n} ELSE {})
    BY <2>1, <2>3, Zenon DEF LinkedWith
  <2>5. mark_success(t, n, connected) = Replace(t, n, e)
    BY <1>2 DEF mark_success, e
  <2> QED
    BY <2>2, <2>4, <2>5
<1> QED
  BY <1>1, <1>2

(* mark_failure keeps the table sound, also when it drops a link.           *)
LEMMA MarkFailureSound ==
  ASSUME NEW t, SoundTable(t), NEW n \in Node
  PROVE  /\ SoundTable(mark_failure(t, n))
         /\ Ids(mark_failure(t, n)) = Ids(t)
         /\ Linked(mark_failure(t, n)) = Linked(t) \ {n}
<1>1. CASE n \notin Ids(t)
  <2>1. n \notin Linked(t)
    BY <1>1 DEF Linked
  <2> QED
    BY <1>1, <2>1 DEF mark_failure
<1>2. CASE n \in Ids(t)
  <2> DEFINE e == FailedEntry(t.routes[n])
  <2>1. e \in RouteEntry /\ SoundEntry(e) /\ e.kcp_connected = FALSE
    BY <1>2, EntrySound, FailedEntrySound
  <2> HIDE DEF e
  <2> QED
    BY <1>2, <2>1, UnlinkSound DEF mark_failure, e
<1> QED
  BY <1>1, <1>2

(* mark_kcp_disconnected keeps the table sound: the counter follows the     *)
(* flag it clears.                                                         *)
LEMMA MarkKcpDisconnectedSound ==
  ASSUME NEW t, SoundTable(t), NEW n \in Node
  PROVE  /\ SoundTable(mark_kcp_disconnected(t, n))
         /\ Ids(mark_kcp_disconnected(t, n)) = Ids(t)
         /\ Linked(mark_kcp_disconnected(t, n)) = Linked(t) \ {n}
<1>1. CASE n \notin Ids(t)
  <2>1. n \notin Linked(t)
    BY <1>1 DEF Linked
  <2> QED
    BY <1>1, <2>1 DEF mark_kcp_disconnected
<1>2. CASE n \in Ids(t)
  <2> DEFINE e == [t.routes[n] EXCEPT !.kcp_connected = FALSE]
  <2>1. e \in RouteEntry /\ SoundEntry(e) /\ e.kcp_connected = FALSE
    BY <1>2, EntrySound, UnlinkedEntrySound
  <2> HIDE DEF e
  <2> QED
    BY <1>2, <2>1, UnlinkSound DEF mark_kcp_disconnected, e
<1> QED
  BY <1>1, <1>2

(* Ageing an entry keeps a table sound and its links as they are. *)
LEMMA AgeSound ==
  ASSUME NEW t, SoundTable(t), NEW n \in Ids(t), NEW e \in AgedEntries(t.routes[n])
  PROVE  /\ SoundTable(Put(t, n, e, t.links))
         /\ Ids(Put(t, n, e, t.links)) = Ids(t)
         /\ Linked(Put(t, n, e, t.links)) = Linked(t)
<1> DEFINE u == Put(t, n, e, t.links)
<1>1. /\ n \in Node /\ e \in RouteEntry /\ SoundEntry(e)
      /\ e.kcp_connected = t.routes[n].kcp_connected
  BY EntrySound, AgedEntrySound
<1>2. IsTable(t) /\ SoundMap(t.routes) /\ t.links \in Nat /\ t.links = Cardinality(Linked(t))
  BY DEF SoundTable, IsTable
<1> HIDE DEF u
<1>3. /\ IsTable(u) /\ SoundMap(u.routes) /\ u.links = t.links
      /\ Ids(u) = Ids(t) \cup {n}
      /\ Linked(u) = LinkedWith(t, n, e.kcp_connected)
  BY <1>1, <1>2, PutTable DEF u
<1>4. LinkedWith(t, n, e.kcp_connected) = Linked(t)
  BY <1>1 DEF LinkedWith, Linked
<1> QED
  BY <1>2, <1>3, <1>4 DEF SoundTable, u

(* The table of a new process is sound. *)
LEMMA EmptyTableSound ==
  /\ SoundTable(EmptyTable)
  /\ SoundMap(EmptyTable.routes)
  /\ Ids(EmptyTable) = {} /\ Linked(EmptyTable) = {} /\ route_count(EmptyTable) = 0
<1> DEFINE r == [n \in {} |-> NoSource]
<1>1. EmptyTable = Table(r, 0)
  BY DEF EmptyTable
<1>2. EmptyTable.routes = r /\ EmptyTable.links = 0
  BY <1>1, TableFields
<1>3. Ids(EmptyTable) = {}
  BY <1>2 DEF Ids
<1>4. Linked(EmptyTable) = {}
  BY <1>3 DEF Linked
<1>5. SoundMap(r)
  BY DEF SoundMap, IsRouteMap
<1>6. IsTable(EmptyTable)
  BY <1>1, <1>2, <1>5 DEF IsTable, SoundMap
<1> QED
  BY <1>2, <1>3, <1>4, <1>5, <1>6, FS_EmptySet DEF SoundTable, route_count

(* Reading a sound file into the table of a new process gives a sound      *)
(* table without links.                                                    *)
LEMMA LoadSound ==
  ASSUME NEW file, SoundMap(file), NEW u \in load_json_file(EmptyTable, file)
  PROVE  /\ SoundTable(u) /\ Ids(u) \subseteq DOMAIN file /\ Linked(u) = {}
<1> DEFINE r == [n \in Ids(EmptyTable) \cup DOMAIN file |->
                   IF n \in DOMAIN file THEN LoadedEntry(n, file[n])
                                        ELSE EmptyTable.routes[n]]
           t == Table(r, EmptyTable.links)
<1>1. DOMAIN r = DOMAIN file /\ \A n \in DOMAIN file : r[n] = LoadedEntry(n, file[n])
  BY EmptyTableSound
<1>2. DOMAIN file \subseteq Node /\ \A n \in DOMAIN file : file[n] \in RouteEntry /\ SoundEntry(file[n])
  BY DEF SoundMap, IsRouteMap
<1>3. \A n \in DOMAIN file :
        r[n] \in RouteEntry /\ SoundEntry(r[n]) /\ r[n].kcp_connected = FALSE
  BY <1>1, <1>2, LoadedEntrySound
<1>4. r = [n \in DOMAIN file |-> r[n]]
  BY <1>1
<1>5. SoundMap(r)
  <2> HIDE DEF r
  <2> QED
    BY <1>1, <1>2, <1>3, <1>4 DEF SoundMap, IsRouteMap
<1>6. t.routes = r /\ t.links = 0
  <2> HIDE DEF r
  <2> QED
    BY TableFields DEF EmptyTable
<1>7. u \in trim_if_needed(t)
  BY DEF load_json_file
<1>a. t = Table(t.routes, t.links)
  BY <1>6, TableFields DEF EmptyTable
<1> HIDE DEF r, t
<1>8. IsTable(t)
  BY <1>5, <1>6, <1>a DEF IsTable, SoundMap
<1>9. Ids(t) = DOMAIN file
  BY <1>1, <1>6 DEF Ids
<1>10. Linked(t) = {}
  <2>1. \A n \in Ids(t) : ~ t.routes[n].kcp_connected
    BY <1>3, <1>6, <1>9
  <2> QED
    BY <2>1 DEF Linked
<1>11. SoundTable(t)
  BY <1>5, <1>6, <1>8, <1>10, FS_EmptySet DEF SoundTable
<1> QED
  BY <1>7, <1>9, <1>10, <1>11, TrimSound

-----------------------------------------------------------------------------
(* What is left of a lost link *)

(* An entry as a lost link leaves it: one hop away, and no source. *)
Sourceless(e) == e.hop_count = 1 /\ e.source = NoSource

(* Every sourceless entry of t that is still in u is sourceless or linked. *)
SourcelessKept(t, u) ==
  \A m \in Ids(t) \cap Ids(u) :
    Sourceless(t.routes[m]) => Sourceless(u.routes[m]) \/ m \in Linked(u)

(* select_next_hop finds no way to a node that is sourceless and has no    *)
(* link of its own: a source would have to be a node.                      *)
LEMMA SourcelessUnroutable ==
  ASSUME NEW t, SoundTable(t), NEW n \in Ids(t), n \notin Linked(t), Sourceless(t.routes[n])
  PROVE  select_next_hop(t, n) = {}
<1>1. Linked(t) \subseteq Node
  BY FiniteIds DEF SoundTable
<1> QED
  BY <1>1, RouteTableAssumption DEF select_next_hop, Sourceless

(* An advertisement replaces neither the source nor the hop count of a     *)
(* sourceless entry, because its path is never shorter than one hop.       *)
LEMMA UpdatedEntrySourceless ==
  ASSUME NEW e \in RouteEntry, Sourceless(e),
         NEW source \in Node \cup {NoSource}, NEW connected \in BOOLEAN,
         NEW hops \in Nat, NEW cap \in NodeCapability,
         source # NoSource => hops >= 1
  PROVE  Sourceless(UpdatedEntry(e, source, connected, hops, cap))
  BY DEF UpdatedEntry, RouteEntry, Sourceless

(* The other updates of an entry leave it sourceless. *)
LEMMA MarkedEntrySourceless ==
  ASSUME NEW e \in RouteEntry, Sourceless(e)
  PROVE  /\ Sourceless(AttemptedEntry(e))
         /\ \A connected \in BOOLEAN : Sourceless(SucceededEntry(e, connected))
         /\ Sourceless(FailedEntry(e))
         /\ Sourceless([e EXCEPT !.kcp_connected = FALSE])
         /\ \A f \in AgedEntries(e) : Sourceless(f)
<1>1. Sourceless(AttemptedEntry(e))
  BY DEF AttemptedEntry, RouteEntry, Sourceless
<1>2. \A connected \in BOOLEAN : Sourceless(SucceededEntry(e, connected))
  BY DEF SucceededEntry, RouteEntry, Sourceless
<1>3. Sourceless(FailedEntry(e))
  BY DEF FailedEntry, RouteEntry, Sourceless
<1>4. Sourceless([e EXCEPT !.kcp_connected = FALSE])
  BY DEF RouteEntry, Sourceless
<1>5. \A f \in AgedEntries(e) : Sourceless(f)
  BY DEF AgedEntries, TryAged, RouteEntry, Sourceless
<1> QED
  BY <1>1, <1>2, <1>3, <1>4, <1>5

(* Storing an entry that is sourceless if the old one was keeps what is    *)
(* sourceless.                                                             *)
LEMMA PutSourceless ==
  ASSUME NEW t, NEW n, NEW e, NEW k,
         n \in Ids(t) => (Sourceless(t.routes[n]) => Sourceless(e))
  PROVE  SourcelessKept(t, Put(t, n, e, k))
<1> DEFINE r == [m \in Ids(t) \cup {n} |-> IF m = n THEN e ELSE t.routes[m]]
<1>1. Put(t, n, e, k).routes = r
  BY TableFields DEF Put
<1> QED
  BY <1>1 DEF SourcelessKept

(* Making room changes no entry that stays. *)
LEMMA MakeRoomSourceless ==
  ASSUME NEW t, SoundTable(t), NEW u \in make_room(t)
  PROVE  Ids(u) \subseteq Ids(t) /\ \A m \in Ids(u) : u.routes[m] = t.routes[m]
<1>1. PICK w \in trim_if_needed(t) :
        u \in IF route_count(w) >= MaxRoutes THEN trim_if_needed(w) ELSE {w}
  BY DEF make_room
<1>2. SoundTable(w) /\ Ids(w) \subseteq Ids(t) /\ \A m \in Ids(w) : w.routes[m] = t.routes[m]
  BY TrimSound
<1>3. CASE u = w
  BY <1>2, <1>3
<1>4. CASE u \in trim_if_needed(w)
  <2>1. Ids(u) \subseteq Ids(w) /\ \A m \in Ids(u) : u.routes[m] = w.routes[m]
    BY <1>2, <1>4, TrimSound
  <2> QED
    BY <1>2, <2>1
<1> QED
  BY <1>1, <1>3, <1>4

(* add_route keeps what is sourceless, whatever it is told about a node,   *)
(* by whom, and whomever it evicts.                                        *)
LEMMA AddRouteSourceless ==
  ASSUME NEW t, SoundTable(t),
         NEW n \in Node, NEW source \in Node \cup {NoSource}, NEW connected \in BOOLEAN,
         NEW advertised \in 0 .. HopMax, NEW cap \in NodeCapability,
         NEW u \in add_route(t, n, source, connected, advertised, cap)
  PROVE  SourcelessKept(t, u)
<1> DEFINE hops == local_hop_count(source, connected, advertised)
           old == UpdatedEntry(t.routes[n], source, connected, hops, cap)
           new == NewEntry(source, connected, hops, cap)
<1>1. hops \in Nat /\ (source # NoSource => hops >= 1)
  BY RouteTableAssumption DEF local_hop_count
<1>2. \/ u = t
      \/ n \in Ids(t) /\ u = Replace(t, n, old)
      \/ n \notin Ids(t) /\ \E w \in make_room(t) : u = Insert(w, n, new)
  BY DEF add_route
<1> HIDE DEF hops, new
<1>3. CASE u = t
  BY <1>3 DEF SourcelessKept
<1>4. CASE n \in Ids(t) /\ u = Replace(t, n, old)
  <2>1. t.routes[n] \in RouteEntry
    BY <1>4, EntrySound
  <2>2. Sourceless(t.routes[n]) => Sourceless(old)
    BY <1>1, <2>1, UpdatedEntrySourceless
  <2> HIDE DEF old
  <2> QED
    BY <1>4, <2>2, PutSourceless DEF Replace
<1>5. CASE n \notin Ids(t) /\ \E w \in make_room(t) : u = Insert(w, n, new)
  <2>1. PICK w \in make_room(t) : u = Insert(w, n, new)
    BY <1>5
  <2>2. Ids(w) \subseteq Ids(t) /\ \A m \in Ids(w) : w.routes[m] = t.routes[m]
    BY MakeRoomSourceless
  <2>3. CASE u = w
    BY <2>2, <2>3 DEF SourcelessKept
  <2>4. CASE \E k : u = Put(w, n, new, k)
    <3>1. PICK k : u = Put(w, n, new, k)
      BY <2>4
    <3> DEFINE r == [m \in Ids(w) \cup {n} |-> IF m = n THEN new ELSE w.routes[m]]
    <3>2. u.routes = r
      BY <3>1, TableFields DEF Put
    <3>3. \A m \in Ids(t) \cap Ids(u) : u.routes[m] = t.routes[m]
      BY <1>5, <2>2, <3>2 DEF Ids
    <3> QED
      BY <3>3 DEF SourcelessKept
  <2> QED
    BY <2>1, <2>3, <2>4 DEF Insert
<1> QED
  BY <1>2, <1>3, <1>4, <1>5

(* So do the marking operations, and the passing of time. *)
LEMMA MarksSourceless ==
  ASSUME NEW t, SoundTable(t), NEW n \in Node
  PROVE  /\ SourcelessKept(t, mark_attempt(t, n))
         /\ \A connected \in BOOLEAN : SourcelessKept(t, mark_success(t, n, connected))
         /\ SourcelessKept(t, mark_failure(t, n))
         /\ SourcelessKept(t, mark_kcp_disconnected(t, n))
         /\ n \in Ids(t) => \A e \in AgedEntries(t.routes[n]) :
                              SourcelessKept(t, Put(t, n, e, t.links))
<1>1. SourcelessKept(t, t)
  BY DEF SourcelessKept
<1>2. n \in Ids(t) => t.routes[n] \in RouteEntry
  BY EntrySound
<1>3. SourcelessKept(t, mark_attempt(t, n))
  BY <1>1, <1>2, MarkedEntrySourceless, PutSourceless DEF mark_attempt, Replace
<1>4. \A connected \in BOOLEAN : SourcelessKept(t, mark_success(t, n, connected))
  BY <1>1, <1>2, MarkedEntrySourceless, PutSourceless DEF mark_success, Replace
<1>5. SourcelessKept(t, mark_failure(t, n))
  BY <1>1, <1>2, MarkedEntrySourceless, PutSourceless DEF mark_failure, Unlink
<1>6. SourcelessKept(t, mark_kcp_disconnected(t, n))
  BY <1>1, <1>2, MarkedEntrySourceless, PutSourceless DEF mark_kcp_disconnected, Unlink
<1>7. n \in Ids(t) => \A e \in AgedEntries(t.routes[n]) : SourcelessKept(t, Put(t, n, e, t.links))
  BY <1>2, MarkedEntrySourceless, PutSourceless
<1> QED
  BY <1>3, <1>4, <1>5, <1>6, <1>7
=============================================================================
