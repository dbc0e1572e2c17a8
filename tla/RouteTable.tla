----------------------------- MODULE RouteTable -----------------------------
(***************************************************************************)
(* The route table of one proxy node: the data behind RouteManager         *)
(* (iota_proxy/src/discovery/RouteManager.cpp) and the operations that run *)
(* under its mutex.                                                        *)
(*                                                                         *)
(* A table is a record: "routes" is the map routes_ (a function whose      *)
(* domain is the set of known node ids) and "links" is kcp_link_count_.    *)
(* An operation is an operator from tables to tables; the ones that may    *)
(* evict return the set of the tables they can produce, because the        *)
(* iteration order of the hash map and the ties between scores decide      *)
(* which entry goes.                                                       *)
(*                                                                         *)
(* Milliseconds are abstracted to what the code compares them with: an     *)
(* entry was seen recently, or too long ago (or in the future, which the   *)
(* code treats alike); last tried never, within the retry backoff, within  *)
(* the ten minutes that lower its score, or before; last successful never, *)
(* recently or over a week ago.                                            *)
(***************************************************************************)
EXTENDS Integers, FiniteSets

CONSTANTS
  Node,                 \* ids of the other nodes (the local id is filtered out)
  NoSource,             \* has_source = false
  MaxRoutes,            \* config max_routes
  MaxKcpLinks,          \* config max_kcp_links
  MaxRouteHops,         \* config max_route_hops
  HopMax,               \* the largest value of the 8 bit hop counter
  GiveUpAttempts,       \* config give_up_attempts
  BadFailureThreshold,  \* config bad_failure_threshold
  CounterMax            \* where the 32 bit attempt and failure counters saturate

ASSUME RouteTableAssumption ==
  /\ IsFiniteSet(Node)
  /\ NoSource \notin Node
  /\ MaxRoutes \in Nat
  /\ MaxKcpLinks \in Nat
  /\ HopMax \in Nat
  /\ MaxRouteHops \in 1 .. HopMax
  /\ GiveUpAttempts \in Nat
  /\ BadFailureThreshold \in Nat
  /\ CounterMax \in Nat

RouteState == {"New", "Tried", "Bad"}

(* What a node last said of its load.  "absent": nothing; "refusing":      *)
(* accepting_ingress is false; "full": some limit is reached; "loaded":    *)
(* half of the tightest limit is used; "idle": nothing is; "stale": a      *)
(* usable value older than capability_stale_after_seconds.                 *)
NodeCapability == {"absent", "refusing", "full", "loaded", "idle", "stale"}

RouteEntry ==
  [state         : RouteState,
   source        : Node \cup {NoSource},
   capability    : NodeCapability,
   kcp_connected : BOOLEAN,
   attempts      : 0 .. CounterMax,
   failures      : 0 .. CounterMax,
   hop_count     : 0 .. HopMax,
   last_seen     : {"recent", "stale"},
   last_try      : {"never", "backoff", "penalty", "old"},
   last_success  : {"never", "recent", "old"}]

(* r maps some of the nodes to entries; t is a table. *)
IsRouteMap(r) == DOMAIN r \subseteq Node /\ r \in [DOMAIN r -> RouteEntry]
Table(r, links) == [routes |-> r, links |-> links]
IsTable(t) ==
  /\ t = Table(t.routes, t.links)
  /\ IsRouteMap(t.routes)
  /\ t.links \in Nat

EmptyTable == Table([n \in {} |-> NoSource], 0)

-----------------------------------------------------------------------------
(* Entries *)

(* Mutant: the hop to the source is not counted. *)
local_hop_count_Uncounted(source, connected, advertised) ==
  IF connected THEN 1 ELSE advertised

local_hop_count(source, connected, advertised) ==
  IF connected THEN 1
  ELSE IF source = NoSource \/ advertised = HopMax THEN advertised
  ELSE advertised + 1

is_terrible(e) ==
  /\ e.last_try # "backoff"
  /\ \/ e.last_seen = "stale"
     \/ e.last_success = "never" /\ e.attempts >= GiveUpAttempts
     \/ e.last_success = "old" /\ e.failures >= BadFailureThreshold

in_retry_backoff(e) == e.last_try = "backoff"

(* In percent; the code computes 0.1 + 0.9 * (1 - load) for a fresh value. *)
capability_score(e) ==
  CASE e.capability \in {"absent", "idle"}   -> 100
    [] e.capability = "loaded"               -> 55
    [] e.capability = "stale"                -> 50
    [] e.capability \in {"refusing", "full"} -> 0

(* The factors whose product is the floating point score of an entry, each *)
(* as a number that grows with the factor.                                 *)
score_factors(e) ==
  << IF e.last_try \in {"backoff", "penalty"} THEN 0 ELSE 1,
     IF e.attempts < 8 THEN 0 - e.attempts ELSE 0 - 8,
     CASE e.state = "Tried" -> 2 [] e.state = "New" -> 1 [] e.state = "Bad" -> 0,
     capability_score(e),
     IF e.hop_count > 1 THEN 0 - e.hop_count ELSE 0 - 1 >>

(* e certainly scores below f: no factor is larger and one is smaller.     *)
(* Entries not related by it may score either way.                         *)
scores_below(e, f) ==
  LET a == score_factors(e)
      b == score_factors(f)
  IN  /\ capability_score(f) > 0
      /\ a # b
      /\ \A i \in 1 .. 5 : a[i] <= b[i]

-----------------------------------------------------------------------------
(* Tables *)

Ids(t) == DOMAIN t.routes
Linked(t) == {n \in Ids(t) : t.routes[n].kcp_connected}
route_count(t) == Cardinality(Ids(t))
can_add_kcp_link(t) == t.links < MaxKcpLinks

Put(t, n, e, links) ==
  Table([m \in Ids(t) \cup {n} |-> IF m = n THEN e ELSE t.routes[m]], links)
Keep(t, S) == Table([n \in S |-> t.routes[n]], t.links)

(* Mutant: eviction does not look at the links. *)
Victims_Any(t) == Ids(t)

(* The unconnected entries one of which trim_if_needed evicts. *)
Victims(t) ==
  {n \in Ids(t) \ Linked(t) :
     \A m \in Ids(t) \ Linked(t) : ~ scores_below(t.routes[m], t.routes[n])}

trim_if_needed(t) ==
  LET live == Keep(t, {n \in Ids(t) : t.routes[n].kcp_connected \/ ~ is_terrible(t.routes[n])})
  IN  IF route_count(t) < MaxRoutes THEN {t}
      ELSE IF route_count(live) < MaxRoutes \/ Victims(live) = {} THEN {live}
      ELSE {Keep(live, Ids(live) \ {v}) : v \in Victims(live)}

UpdatedEntry(e, source, connected, hops, cap) ==
  LET shorter_path == /\ source # NoSource
                      /\ ~ e.kcp_connected
                      /\ e.hop_count = 0 \/ hops < e.hop_count
  IN  [e EXCEPT
        !.last_seen = "recent",
        !.capability = IF cap = "absent" THEN @ ELSE cap,
        !.source = IF connected THEN NoSource ELSE IF shorter_path THEN source ELSE @,
        !.hop_count = IF connected THEN 1 ELSE IF shorter_path THEN hops ELSE @,
        !.state = IF connected THEN "Tried" ELSE IF @ = "Bad" THEN "New" ELSE @,
        !.kcp_connected = @ \/ connected,
        !.last_success = IF connected THEN "recent" ELSE @,
        !.failures = IF connected THEN 0 ELSE @]

NewEntry(source, connected, hops, cap) ==
  [state         |-> IF connected THEN "Tried" ELSE "New",
   source        |-> source,
   capability    |-> cap,
   kcp_connected |-> connected,
   attempts      |-> 0,
   failures      |-> 0,
   hop_count     |-> hops,
   last_seen     |-> "recent",
   last_try      |-> "never",
   last_success  |-> IF connected THEN "recent" ELSE "never"]

(* Links gained or lost when entry e becomes f. *)
LinkDelta(e, f) ==
  (IF f.kcp_connected THEN 1 ELSE 0) - (IF e.kcp_connected THEN 1 ELSE 0)

Replace(t, n, e) == Put(t, n, e, t.links + LinkDelta(t.routes[n], e))

(* Both calls of trim_if_needed that precede an insertion. *)
make_room(t) ==
  UNION {IF route_count(u) >= MaxRoutes THEN trim_if_needed(u) ELSE {u} :
           u \in trim_if_needed(t)}

(* Mutant: off by one at the capacity. *)
Insert_OffByOne(t, n, e) ==
  IF route_count(t) > MaxRoutes THEN t
  ELSE Put(t, n, e, t.links + IF e.kcp_connected THEN 1 ELSE 0)

Insert(t, n, e) ==
  IF route_count(t) >= MaxRoutes THEN t
  ELSE Put(t, n, e, t.links + IF e.kcp_connected THEN 1 ELSE 0)

add_route(t, n, source, connected, advertised, cap) ==
  LET hops == local_hop_count(source, connected, advertised)
  IN  IF hops > MaxRouteHops THEN {t}
      ELSE IF n \in Ids(t)
      THEN {Replace(t, n, UpdatedEntry(t.routes[n], source, connected, hops, cap))}
      ELSE {Insert(u, n, NewEntry(source, connected, hops, cap)) : u \in make_room(t)}

Saturating(c) == IF c < CounterMax THEN c + 1 ELSE c

AttemptedEntry(e) == [e EXCEPT !.last_try = "backoff", !.attempts = Saturating(@)]

SucceededEntry(e, connected) ==
  [e EXCEPT
    !.state = "Tried",
    !.failures = 0,
    !.attempts = 0,
    !.last_seen = "recent",
    !.last_try = "backoff",
    !.last_success = "recent",
    !.kcp_connected = @ \/ connected,
    !.hop_count = IF connected THEN 1 ELSE @,
    !.source = IF connected THEN NoSource ELSE @]

FailedEntry(e) ==
  LET f == [e EXCEPT !.last_try = "backoff",
                     !.failures = Saturating(@),
                     !.kcp_connected = FALSE]
  IN  [f EXCEPT
        !.state = IF is_terrible(f) \/ f.failures >= BadFailureThreshold THEN "Bad"
                  ELSE IF f.last_success = "never" THEN "New"
                  ELSE @]

mark_attempt(t, n) ==
  IF n \in Ids(t) THEN Replace(t, n, AttemptedEntry(t.routes[n])) ELSE t
mark_success(t, n, connected) ==
  IF n \in Ids(t) THEN Replace(t, n, SucceededEntry(t.routes[n], connected)) ELSE t

(* Mutant: the counter of links is not decremented. *)
Unlink_Uncounted(t, n, e) == Put(t, n, e, t.links)

(* The code guards each decrement with kcp_link_count_ > 0. *)
Unlink(t, n, e) ==
  Put(t, n, e, IF t.routes[n].kcp_connected /\ t.links > 0 THEN t.links - 1 ELSE t.links)
mark_failure(t, n) ==
  IF n \in Ids(t) THEN Unlink(t, n, FailedEntry(t.routes[n])) ELSE t
mark_kcp_disconnected(t, n) ==
  IF n \in Ids(t)
  THEN Unlink(t, n, [t.routes[n] EXCEPT !.kcp_connected = FALSE])
  ELSE t

-----------------------------------------------------------------------------
(* Selections *)

ResponseRoutes(t) ==
  {n \in Ids(t) : ~ is_terrible(t.routes[n]) /\ t.routes[n].state # "Bad"}

(* The members of S with a positive score that no other one outscores. *)
BestOf(t, S) ==
  LET scored == {n \in S : capability_score(t.routes[n]) > 0}
  IN  {n \in scored : \A m \in scored : ~ scores_below(t.routes[n], t.routes[m])}

select_for_feeler(t) ==
  BestOf(t, {n \in ResponseRoutes(t) \ Linked(t) : ~ in_retry_backoff(t.routes[n])})

select_default_next_hop(t) ==
  BestOf(t, {n \in Linked(t) : t.routes[n].state # "Bad"})

(* The next hop towards a target: a set of at most one node. *)
select_next_hop(t, target) ==
  IF target \notin Ids(t) \/ t.routes[target].state = "Bad" THEN {}
  ELSE IF target \in Linked(t) THEN {target}
  ELSE {s \in Linked(t) : s = t.routes[target].source /\ t.routes[s].state # "Bad"}

-----------------------------------------------------------------------------
(* The route file: what save_json_file writes and load_json_file reads.    *)
(* An entry of the file is an entry without its kcp_connected flag, which  *)
(* reading sets to false.                                                  *)

save_json_file(t) == t.routes

LoadedEntry(n, e) ==
  [e EXCEPT
    !.kcp_connected = FALSE,
    !.state = IF @ = "Tried" /\ e.last_success = "never" THEN "New" ELSE @,
    !.hop_count = IF @ > MaxRouteHops THEN MaxRouteHops ELSE @,
    !.source = IF @ = n THEN NoSource ELSE @]

load_json_file(t, file) ==
  trim_if_needed(
    Table([n \in Ids(t) \cup DOMAIN file |->
             IF n \in DOMAIN file THEN LoadedEntry(n, file[n]) ELSE t.routes[n]],
          t.links))

(* The passing of time: one age of an entry moves on.  A wall clock set    *)
(* back makes an entry stale too, by putting it in the future.             *)
TryAged(e) ==
  [e EXCEPT !.last_try = IF @ = "backoff" THEN "penalty" ELSE IF @ = "penalty" THEN "old" ELSE @]
AgedEntries(e) ==
  {[e EXCEPT !.last_seen = "stale"],
   TryAged(e),
   [e EXCEPT !.last_success = IF @ = "recent" THEN "old" ELSE @],
   [e EXCEPT !.capability = IF @ \in {"full", "loaded", "idle"} THEN "stale" ELSE @]}
=============================================================================
