---------------------------- MODULE RouteManager ----------------------------
(***************************************************************************)
(* RouteManager of one node as a state machine: every public operation is  *)
(* one critical section of mutex_, called in any order by the discovery    *)
(* threads; the route file survives the process.  The operations           *)
(* themselves are in RouteTable.                                           *)
(***************************************************************************)
EXTENDS RouteTable

CONSTANTS
  HasRouteFile,     \* config route_table_file is not empty
  AdvertisedHops,   \* hop counts other nodes advertise
  Capabilities      \* capabilities other nodes advertise

ASSUME RouteManagerAssumption ==
  /\ HasRouteFile \in BOOLEAN
  /\ AdvertisedHops \subseteq 0 .. HopMax
  /\ Capabilities \subseteq NodeCapability

VARIABLES
  table,    \* routes_ and kcp_link_count_
  file,     \* the entries in the route table file
  running   \* the discovery service has loaded the file and not stopped

vars == <<table, file, running>>

Init ==
  /\ table = EmptyTable
  /\ file = EmptyTable.routes
  /\ running = FALSE

(* DiscoveryService::start in a new process: the table is empty.           *)
Start ==
  /\ ~ running
  /\ running' = TRUE
  /\ table' \in load_json_file(EmptyTable, file)
  /\ UNCHANGED file

(* DiscoveryService::stop: the file is replaced by a rename.               *)
Stop ==
  /\ running
  /\ running' = FALSE
  /\ table' = EmptyTable
  /\ file' = IF HasRouteFile THEN save_json_file(table) ELSE file

(* The process ends without a complete save: the old file stays.           *)
Crash ==
  /\ running
  /\ running' = FALSE
  /\ table' = EmptyTable
  /\ UNCHANGED file

Call(tables) ==
  /\ running
  /\ table' \in tables
  /\ UNCHANGED <<file, running>>

AddRoute(n) ==
  \E source \in Node \cup {NoSource}, connected \in BOOLEAN,
     advertised \in AdvertisedHops, cap \in Capabilities :
       Call(add_route(table, n, source, connected, advertised, cap))

MarkAttempt(n) == Call({mark_attempt(table, n)})
MarkSuccess(n) == \E connected \in BOOLEAN : Call({mark_success(table, n, connected)})
MarkFailure(n) == Call({mark_failure(table, n)})
MarkKcpDisconnected(n) == Call({mark_kcp_disconnected(table, n)})

(* Time passes for an entry in memory, or, while the process is down, for  *)
(* one in the file.                                                        *)
TimePasses(n) ==
  \/ /\ n \in Ids(table)
     /\ Call({Put(table, n, e, table.links) : e \in AgedEntries(table.routes[n])})
  \/ /\ ~ running
     /\ n \in DOMAIN file
     /\ \E e \in AgedEntries(file[n]) : file' = [file EXCEPT ![n] = e]
     /\ UNCHANGED <<table, running>>

Next ==
  \/ Start
  \/ Stop
  \/ Crash
  \/ \E n \in Node :
       \/ AddRoute(n)
       \/ MarkAttempt(n)
       \/ MarkSuccess(n)
       \/ MarkFailure(n)
       \/ MarkKcpDisconnected(n)
       \/ TimePasses(n)

Spec == Init /\ [][Next]_vars

-----------------------------------------------------------------------------
(* Invariants *)

(* Type correctness of the table, of the file and of the running flag. *)
TypeOK ==
  /\ IsTable(table)
  /\ IsRouteMap(file)
  /\ running \in BOOLEAN

(* kcp_link_count_ is the number of entries whose kcp_connected flag is    *)
(* set, through every update, eviction, failure and restart: the code      *)
(* maintains the counter by hand in five places and decides admission by   *)
(* it (can_add_kcp_link).                                                  *)
LinkCountExact == table.links = Cardinality(Linked(table))

(* A connected entry is healthy: it is Tried, one hop away, has succeeded  *)
(* and has no failure on record, so that select_default_next_hop and       *)
(* select_next_hop never skip a live link for being Bad.                   *)
LinkedEntriesHealthy ==
  \A n \in Linked(table) :
    /\ table.routes[n].state = "Tried"
    /\ table.routes[n].hop_count = 1
    /\ table.routes[n].failures = 0
    /\ table.routes[n].last_success # "never"

(* No entry, in memory or in the file, claims more than max_route_hops     *)
(* hops, and an entry reached through a source claims at least one: the    *)
(* hop_count handed out by select_next_hop is meaningful even after a      *)
(* restart.                                                                *)
HopCountsBounded ==
  \A r \in {table.routes, file} : \A n \in DOMAIN r :
    /\ r[n].hop_count <= MaxRouteHops
    /\ r[n].source # NoSource => r[n].hop_count >= 1

(* The table, and the file saved from it, never exceed max_routes, though  *)
(* eviction may find nothing to evict.                                     *)
CapacityBounded ==
  /\ route_count(table) <= MaxRoutes
  /\ Cardinality(DOMAIN file) <= MaxRoutes

(* What config limits stays limited, in memory and in the file from which  *)
(* the next process starts: the number of entries and their hop counts.    *)
EntriesBounded == CapacityBounded /\ HopCountsBounded

-----------------------------------------------------------------------------
(* Action properties *)

(* Making room for a new node never evicts a node with a live KCP link: as *)
(* long as the process runs, a connected entry stays in the table.         *)
EvictionSparesLinks ==
  [][running /\ running' => Linked(table) \subseteq Ids(table')]_vars

(* Once a link is lost its entry keeps hop_count 1 and no source, and no   *)
(* advertisement through another node replaces that: until it is connected *)
(* again, dropped or reloaded, select_next_hop finds no way to the node.   *)
LostLinkStaysUnroutable ==
  [][\A n \in Ids(table) :
       (/\ running /\ running'
        /\ n \notin Linked(table)
        /\ table.routes[n].hop_count = 1
        /\ table.routes[n].source = NoSource)
       => \/ n \notin Ids(table')
          \/ n \in Linked(table')
          \/ select_next_hop(table', n) = {}]_vars
=============================================================================
