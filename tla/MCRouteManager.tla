--------------------------- MODULE MCRouteManager ---------------------------
(***************************************************************************)
(* Two small instances of RouteManager, side by side.  The first, over the *)
(* module's own constants and variables, has more nodes than places in the *)
(* table, and a file.  The second has a place and a link for every node,   *)
(* and each is advertised by the other.  part says which one moves; the    *)
(* other stays in its initial state.                                       *)
(***************************************************************************)
EXTENDS RouteManager, TLC

VARIABLES part, roomy_table, roomy_file, roomy_running
roomy == <<roomy_table, roomy_file, roomy_running>>

Roomy == INSTANCE RouteManager WITH
  MaxRoutes <- 2, MaxKcpLinks <- 2, MaxRouteHops <- 2, HasRouteFile <- FALSE,
  AdvertisedHops <- {0}, table <- roomy_table, file <- roomy_file, running <- roomy_running

Symmetry == Permutations(Node)

BothInit == part \in {"full", "roomy"} /\ Init /\ Roomy!Init

BothNext ==
  \/ part = "full" /\ UNCHANGED <<part, roomy>> /\ Next
  \/ part = "roomy" /\ UNCHANGED <<part, vars>> /\ Roomy!Next

BothSpec == BothInit /\ [][BothNext]_<<part, vars, roomy>>

(* mark_kcp_disconnected leaves hop_count 1 and no source, and add_route   *)
(* lets no advertisement through another node replace that: once a link is *)
(* lost, and until the node is connected again, dropped or reloaded,       *)
(* select_next_hop finds no way to it.                                     *)
LostLinkStaysLost == Roomy!LostLinkStaysUnroutable
=============================================================================
