----------------------------- MODULE MCServers ------------------------------
(***************************************************************************)
(* Small instances of the two servers of a node, side by side: TcpServer   *)
(* with TcpIngress, which serve devices, and KcpManager, which serves      *)
(* peers.  part says which of them a behaviour is about; the variables of  *)
(* the other stay "off".                                                   *)
(***************************************************************************)
EXTENDS Integers, FiniteSets, TLC

CONSTANTS c1, c2, f1, f2, w1, None, k1, k2

VARIABLES
  part,
  fds, fd_of, worker, connected, connections, recvs, sends, stream_by_fd, connection_by_stream,
  read_closed_streams, ingress_streams, closed, finished, in_order, pc, stop,
  now, running, joined, initialised, sessions, kcp, next_due, schedule_seq, last_active,
  timer_heap, armed_due, armed_seq, next_gc, timeouts, tick, touches

ingress ==
  <<fds, fd_of, worker, connected, connections, recvs, sends, stream_by_fd, connection_by_stream,
    read_closed_streams, ingress_streams, closed, finished, in_order, pc, stop>>
manager ==
  <<now, running, joined, initialised, sessions, kcp, next_due, schedule_seq, last_active,
    timer_heap, armed_due, armed_seq, next_gc, timeouts, tick, touches>>
vars == <<part, ingress, manager>>

(* Two connections, one after the other or at once, and one worker. *)
Ingress == INSTANCE TcpIngress WITH
  Conn <- {c1, c2}, Fd <- {f1, f2}, Worker <- {w1}, MaxStreams <- 1, MaxPending <- 1

(* Two sessions; KCP's time wraps at 16, so that it does so in each run. *)
Kcp == INSTANCE KcpManager WITH
  Key <- {k1, k2}, Wrap <- 16, Jump <- 7, Interval <- 3, Rto <- 4, FallbackTick <- 2,
  IdleTimeout <- 5, GcPeriod <- 3, Late <- 1, Start <- 9, MaxTime <- 21, MaxTouches <- 2

ASSUME InstancesAssumption == Ingress!Constants /\ Kcp!Constants

Symmetry == Permutations({c1, c2}) \cup Permutations({f1, f2}) \cup Permutations({k1, k2})

-----------------------------------------------------------------------------
IngressOff ==
  /\ fds = "off" /\ fd_of = "off" /\ worker = "off" /\ connected = "off" /\ connections = "off"
  /\ recvs = "off" /\ sends = "off" /\ stream_by_fd = "off" /\ connection_by_stream = "off"
  /\ read_closed_streams = "off" /\ ingress_streams = "off" /\ closed = "off"
  /\ finished = "off" /\ in_order = "off" /\ pc = "off" /\ stop = "off"
KcpOff ==
  /\ now = "off" /\ running = "off" /\ joined = "off" /\ initialised = "off" /\ sessions = "off"
  /\ kcp = "off" /\ next_due = "off" /\ schedule_seq = "off" /\ last_active = "off"
  /\ timer_heap = "off" /\ armed_due = "off" /\ armed_seq = "off" /\ next_gc = "off"
  /\ timeouts = "off" /\ tick = "off" /\ touches = "off"

Init ==
  \/ part = "ingress" /\ Ingress!Init /\ KcpOff
  \/ part = "kcp" /\ Kcp!Init /\ IngressOff

Next ==
  \/ part = "ingress" /\ UNCHANGED <<part, manager>> /\ Ingress!Next
  \/ part = "kcp" /\ UNCHANGED <<part, ingress>> /\ Kcp!Next

Spec == Init /\ [][Next]_vars

-----------------------------------------------------------------------------
(* Properties of the components, for the instances above *)

(* TcpServer: a descriptor in connections is open and is that              *)
(* connection's, and an open descriptor is in connections or about to be   *)
(* closed by exactly one thread: none is closed twice, none is forgotten.  *)
StateOwnsFd == part = "ingress" => Ingress!TypeOK /\ Ingress!StateOwnsFd

(* A stream ends once and leaves nothing behind.  It gets at most one      *)
(* Closed event, though the end of its reading, an error, a frame from the *)
(* peer and stop may each report it.  When all threads have come to rest,  *)
(* a stream that ended holds no slot of the admission control, unless the  *)
(* end of its connection overtook its announcement by the acceptor or its  *)
(* number was given out again.                                             *)
EndsOnce == part = "ingress" => Ingress!ClosedOnce /\ Ingress!SlotsReturned

(* A Finish waits for the sends before it, and is not forgotten.           *)
FinishAfterSends == part = "ingress" => Ingress!FinishAfterSends

(* When TcpServer::stop has returned no connection of a device is open,    *)
(* except for one the loop thread is about to close.                       *)
StoppedClean == part = "ingress" => Ingress!StoppedClean

(* KcpManager keeps every deadline, across the wrap of KCP's time: flushes *)
(* and retransmissions are late by no more than the timers are, and an     *)
(* idle session goes at the first collection after its timeout.  Between   *)
(* callbacks the tick is armed no later than the first session is due, and *)
(* the timeout with the armed number is on its way.                        *)
Timely == part = "kcp" => Kcp!TypeOK /\ Kcp!TickCovers /\ Kcp!Timely

(* KcpManager::handle_tick ends: with every node it takes off the heap     *)
(* fewer are due.                                                          *)
TickProgress == [][part = "kcp" => Kcp!TickTakesOne]_vars
=============================================================================
