---------------------------- MODULE TcpIngress -----------------------------
(***************************************************************************)
(* The device side of a node: TcpServer (myring/src/TcpServer.cpp), which  *)
(* keeps the connections, TcpIngress (iota_proxy/src/network), which turns *)
(* them into streams, and the admission of streams in                      *)
(* ProxyRuntime::on_tcp_event.                                             *)
(*                                                                         *)
(* The acceptor, the workers, the loop thread of the tunnel and the thread *)
(* in stop all run the same callbacks.  Each step is one critical section  *)
(* of connections_mutex, of TcpIngress::mutex_ or of AdmissionControl, or  *)
(* one system call.  A request carries a descriptor number, not a          *)
(* connection, and the kernel gives a closed number out again.             *)
(* The stream of a connection is named by the connection.                  *)
(***************************************************************************)
EXTENDS Integers, FiniteSets, Functions

CONSTANTS
  Conn,        \* TcpConnection objects
  Fd,          \* descriptor numbers
  Worker,      \* the workers of the pool
  None,
  MaxStreams,  \* max_ingress_streams
  MaxPending   \* bound on the sends in flight on a connection

Constants ==
  /\ None \notin Conn \cup Fd \cup Worker
  /\ MaxStreams \in Nat \ {0}
  /\ MaxPending \in Nat \ {0}

VARIABLES
  fds,          \* the kernel's table: the socket behind each number
  fd_of,        \* fd_ of each TcpConnection
  worker,       \* the worker of each connection
  connected,    \* the connections with connected_ set
  connections,  \* TcpServer: the state kept for a descriptor
  recvs, sends, \* the requests each worker has for each descriptor
  stream_by_fd, connection_by_stream, read_closed_streams, \* TcpIngress
  ingress_streams, \* AdmissionControl
  closed,       \* number of Closed events of each stream
  finished,     \* the streams whose Finish frame was received
  in_order,     \* the streams admitted while connected and before any Closed
  pc,           \* what each thread does next
  stop          \* how far stop has come, and what it has yet to close

server == <<fds, fd_of, worker, connected, connections>>
requests == <<recvs, sends>>
ingress == <<stream_by_fd, connection_by_stream, read_closed_streams>>
events == <<ingress_streams, closed, finished, in_order>>
vars == <<server, requests, ingress, events, pc, stop>>

Thread == Worker \cup {"acceptor", "loop", "main"}
Idle == [at |-> "idle", c |-> None, then |-> None, more |-> None]

ConnectionState(c) ==
  [connection |-> c, read_closed |-> FALSE, write_shutdown_requested |-> FALSE,
   write_closed |-> FALSE, pending_sends |-> 0]

Init ==
  /\ fds = [f \in Fd |-> None]
  /\ fd_of = [c \in Conn |-> None]
  /\ worker = [c \in Conn |-> None]
  /\ connected = {}
  /\ connections = [f \in Fd |-> None]
  /\ recvs = [w \in Worker |-> [f \in Fd |-> 0]]
  /\ sends = [w \in Worker |-> [f \in Fd |-> 0]]
  /\ stream_by_fd = [f \in Fd |-> None]
  /\ connection_by_stream = {}
  /\ read_closed_streams = {}
  /\ ingress_streams = {}
  /\ closed = [c \in Conn |-> 0]
  /\ finished = {}
  /\ in_order = {}
  /\ pc = [t \in Thread |-> Idle]
  /\ stop = [at |-> "running", left |-> {}]

Live(c) == fd_of[c] # None /\ connections[fd_of[c]] # None /\ connections[fd_of[c]].connection = c

-----------------------------------------------------------------------------
(* How a thread goes on: to a step about connection or stream c; or, when  *)
(* that has returned, to the next frame of a read; or, when all callbacks  *)
(* of a read have returned, to read again if the connection is still there.*)
Go(t, at, c) == pc' = [pc EXCEPT ![t].at = at, ![t].c = c]

Return(t) ==
  \/ pc[t].more # None /\ Go(t, "data_event", pc[t].more)
  \/ pc' = [pc EXCEPT ![t] =
       IF pc[t].then \in connected THEN [Idle EXCEPT !.at = "rearm", !.c = pc[t].then] ELSE Idle]

At(t, at) == pc[t].at = at

(* set_connected(false) and connections.erase, in one critical section.    *)
Erase(f) ==
  /\ connected' = connected \ {connections[f].connection}
  /\ connections' = [connections EXCEPT ![f] = None]

-----------------------------------------------------------------------------
(* The acceptor *)

(* Workers take turns: a connection goes to one that has the fewest so far. *)
Load(w) == Cardinality({c \in Conn : worker[c] = w})

Accept(c, f, w) ==
  /\ At("acceptor", "idle")
  /\ stop.at = "running"
  /\ fd_of[c] = None
  /\ fds[f] = None
  /\ \A v \in Worker : Load(w) <= Load(v)
  /\ fds' = [fds EXCEPT ![f] = c]
  /\ fd_of' = [fd_of EXCEPT ![c] = f]
  /\ worker' = [worker EXCEPT ![c] = w]
  /\ connected' = connected \cup {c}
  /\ connections' = [connections EXCEPT ![f] = ConnectionState(c)]
  /\ Go("acceptor", "push", c)
  /\ UNCHANGED <<requests, ingress, events, stop>>

(* The worker may read before the connection is announced. *)
Push ==
  LET c == pc["acceptor"].c IN
  /\ At("acceptor", "push")
  /\ recvs' = [recvs EXCEPT ![worker[c]][fd_of[c]] = @ + 1]
  /\ Go("acceptor", "accepted", c)
  /\ UNCHANGED <<server, sends, ingress, events, stop>>

handle_accept_result ==
  LET c == pc["acceptor"].c IN
  /\ At("acceptor", "accepted")
  /\ IF connections[fd_of[c]] = None
     THEN Return("acceptor")
     ELSE Go("acceptor", "notify", connections[fd_of[c]].connection)
  /\ UNCHANGED <<server, requests, ingress, events, stop>>

(* handle_connection: which kind of event is it? *)
Notify ==
  LET c == pc["acceptor"].c IN
  /\ At("acceptor", "notify")
  /\ Go("acceptor", IF c \in connected THEN "insert" ELSE "callback", c)
  /\ UNCHANGED <<server, requests, ingress, events, stop>>

InsertStream ==
  LET c == pc["acceptor"].c IN
  /\ At("acceptor", "insert")
  /\ stream_by_fd' = [stream_by_fd EXCEPT ![fd_of[c]] = c]
  /\ connection_by_stream' = connection_by_stream \cup {c}
  /\ Go("acceptor", "connected_event", c)
  /\ UNCHANGED <<server, requests, read_closed_streams, events, stop>>

(* try_accept_ingress_stream *)
Admits(s) == s \in ingress_streams \/ Cardinality(ingress_streams) < MaxStreams

ConnectedEvent ==
  LET s == pc["acceptor"].c IN
  /\ At("acceptor", "connected_event")
  /\ IF Admits(s)
     THEN /\ ingress_streams' = ingress_streams \cup {s}
          /\ in_order' = IF Live(s) /\ closed[s] = 0 THEN in_order \cup {s} ELSE in_order
          /\ Return("acceptor")
     ELSE Go("acceptor", "shutdown_stream", s) /\ UNCHANGED <<ingress_streams, in_order>>
  /\ UNCHANGED <<server, requests, ingress, closed, finished, stop>>

-----------------------------------------------------------------------------
(* Closing, in whichever thread *)

(* TcpIngress::shutdown_stream *)
ShutdownStream(t) ==
  /\ At(t, "shutdown_stream")
  /\ IF pc[t].c \in connection_by_stream THEN Go(t, "shutdown", pc[t].c) ELSE Return(t)
  /\ UNCHANGED <<server, requests, ingress, events, stop>>

(* Mutant: the entry is left in the map. *)
Shutdown_KeepsEntry(t) ==
  LET f == fd_of[pc[t].c] IN
  /\ At(t, "shutdown")
  /\ IF connections[f] = None
     THEN Return(t) /\ UNCHANGED connected
     ELSE /\ connected' = connected \ {connections[f].connection}
          /\ Go(t, "close", connections[f].connection)
  /\ UNCHANGED <<fds, fd_of, worker, connections, requests, ingress, events, stop>>

(* TcpServer::shutdown_connection: it goes by the number. *)
Shutdown(t) ==
  LET f == fd_of[pc[t].c] IN
  /\ At(t, "shutdown")
  /\ IF connections[f] = None
     THEN Return(t) /\ UNCHANGED <<connected, connections>>
     ELSE Erase(f) /\ Go(t, "close", connections[f].connection)
  /\ UNCHANGED <<fds, fd_of, worker, requests, ingress, events, stop>>

(* close_socket_fd *)
Close(t) ==
  LET c == pc[t].c IN
  /\ At(t, "close")
  /\ fds' = [fds EXCEPT ![fd_of[c]] = None]
  /\ Go(t, "callback", c)
  /\ UNCHANGED <<fd_of, worker, connected, connections, requests, ingress, events, stop>>

(* handle_connection for a connection that has ended: the stream that has  *)
(* its number now is the one that ends, unless it was reported before.     *)
ClosedCallback(t) ==
  LET c == pc[t].c
      s == stream_by_fd[fd_of[c]]
  IN
  /\ At(t, "callback")
  /\ stream_by_fd' = [stream_by_fd EXCEPT ![fd_of[c]] = None]
  /\ connection_by_stream' = connection_by_stream \ {s}
  /\ read_closed_streams' = read_closed_streams \ {s}
  /\ IF s = None \/ s \in read_closed_streams THEN Return(t) ELSE Go(t, "closed_event", s)
  /\ UNCHANGED <<server, requests, events, stop>>

(* Mutant: the slot of a stream that ends is not given back. *)
ClosedEvent_KeepsSlot(t) ==
  LET s == pc[t].c IN
  /\ At(t, "closed_event")
  /\ closed' = [closed EXCEPT ![s] = @ + 1]
  /\ Return(t)
  /\ UNCHANGED <<server, requests, ingress, ingress_streams, finished, in_order, stop>>

(* on_tcp_event, Closed: the slot is released, a Finish frame is sent. *)
ClosedEvent(t) ==
  LET s == pc[t].c IN
  /\ At(t, "closed_event")
  /\ ingress_streams' = ingress_streams \ {s}
  /\ closed' = [closed EXCEPT ![s] = @ + 1]
  /\ Return(t)
  /\ UNCHANGED <<server, requests, ingress, finished, in_order, stop>>

-----------------------------------------------------------------------------
(* A worker: handle_recv *)

Completes(w, reqs, f) ==
  /\ At(w, "idle")
  /\ stop.at = "running" \/ (stop.at = "workers" /\ w \notin stop.left)
  /\ reqs[w][f] > 0

Done(w, reqs, f) == [reqs EXCEPT ![w][f] = @ - 1]

(* The outcomes of the first critical section, by the result of the read:  *)
(* nothing is kept for the descriptor; data; end of data, for the first    *)
(* time or not; an error.                                                  *)
RecvUnknown(w, f) ==
  /\ connections[f] = None
  /\ UNCHANGED <<connected, connections, pc>>

RecvData(w, f) ==
  /\ connections[f] # None
  /\ LET c == connections[f].connection IN
     pc' = [pc EXCEPT ![w] = [Idle EXCEPT !.at = "data", !.c = c, !.then = c]]
  /\ UNCHANGED <<connected, connections>>

RecvEnd(w, f) ==
  /\ connections[f] # None
  /\ connections' = [connections EXCEPT ![f].read_closed = TRUE]
  /\ Go(w, IF connections[f].read_closed THEN "rearm" ELSE "read_closed", connections[f].connection)
  /\ UNCHANGED connected

RecvError(w, f) ==
  /\ connections[f] # None
  /\ Erase(f)
  /\ Go(w, "close", connections[f].connection)

handle_recv(w, f) ==
  /\ Completes(w, recvs, f)
  /\ recvs' = Done(w, recvs, f)
  /\ RecvUnknown(w, f) \/ RecvData(w, f) \/ RecvEnd(w, f) \/ RecvError(w, f)
  /\ UNCHANGED <<fds, fd_of, worker, sends, ingress, events, stop>>

(* handle_data: the bytes are dropped, or kept, or not a frame, or they    *)
(* complete some frames.                                                   *)
handle_data(w) ==
  LET s == stream_by_fd[fd_of[pc[w].c]] IN
  /\ At(w, "data")
  /\ \/ Return(w)
     \/ s # None /\ Go(w, "shutdown", pc[w].c)
     \/ s # None /\ pc' = [pc EXCEPT ![w].at = "data_event", ![w].c = s, ![w].more = s]
  /\ UNCHANGED <<server, requests, ingress, events, stop>>

(* on_tcp_event, Data: forwarded, or over the byte rate. *)
DataEvent(w) ==
  LET s == pc[w].c IN
  /\ At(w, "data_event")
  /\ \/ Return(w) /\ UNCHANGED ingress_streams
     \/ /\ ingress_streams' = ingress_streams \ {s}
        /\ Go(w, "shutdown_stream", s)
  /\ UNCHANGED <<server, requests, ingress, closed, finished, in_order, stop>>

handle_read_closed(w) ==
  LET s == stream_by_fd[fd_of[pc[w].c]] IN
  /\ At(w, "read_closed")
  /\ IF s = None \/ s \in read_closed_streams
     THEN Return(w) /\ UNCHANGED read_closed_streams
     ELSE Go(w, "closed_event", s) /\ read_closed_streams' = read_closed_streams \cup {s}
  /\ UNCHANGED <<server, requests, stream_by_fd, connection_by_stream, events, stop>>

(* rearm_recv: it too goes by the number. *)
rearm_recv(w) ==
  LET f == fd_of[pc[w].c] IN
  /\ At(w, "rearm")
  /\ recvs' = IF connections[f] = None THEN recvs
              ELSE [recvs EXCEPT ![worker[connections[f].connection]][f] = @ + 1]
  /\ Return(w)
  /\ UNCHANGED <<server, sends, ingress, events, stop>>

-----------------------------------------------------------------------------
(* Writing, and the end of writing *)

(* Mutant: SHUT_WR does not wait for the sends in flight. *)
Drained_Always(st) == TRUE

(* No send is in flight. *)
Drained(st) == st.pending_sends = 0

(* write_closed is set and SHUT_WR is called, which changes nothing that   *)
(* is modelled; if both directions are closed now the connection is     *)
(* closed, by the thread that saw it.                                      *)
EndWriting(t, f, st) ==
  IF st.read_closed
  THEN Erase(f) /\ Go(t, "close", st.connection)
  ELSE /\ connections' = [connections EXCEPT ![f] = [st EXCEPT !.write_closed = TRUE]]
       /\ Return(t)
       /\ UNCHANGED connected

SendFails(w, f) == Erase(f) /\ Go(w, "close", connections[f].connection)

(* A late completion for an earlier connection with this number finds no   *)
(* send pending.                                                           *)
SendDone(w, f) ==
  LET old == connections[f]
      st == [old EXCEPT !.pending_sends = IF @ > 0 THEN @ - 1 ELSE 0]
  IN
  IF st.write_shutdown_requested /\ Drained(st) /\ ~ st.write_closed
  THEN EndWriting(w, f, st)
  ELSE connections' = [connections EXCEPT ![f] = st] /\ UNCHANGED <<connected, pc>>

handle_send(w, f) ==
  /\ Completes(w, sends, f)
  /\ sends' = Done(w, sends, f)
  /\ IF connections[f] = None
     THEN UNCHANGED <<connected, connections, pc>>
     ELSE SendFails(w, f) \/ SendDone(w, f)
  /\ UNCHANGED <<fds, fd_of, worker, recvs, ingress, events, stop>>

(* A Data frame for stream s: the peer sends none after a Finish. *)
BeginSend(s) ==
  /\ At("loop", "idle")
  /\ s \notin finished
  /\ s \in connection_by_stream /\ s \in connected
  /\ Go("loop", "send", s)
  /\ UNCHANGED <<server, requests, ingress, events, stop>>

(* send_on_connection *)
SendOn ==
  LET f == fd_of[pc["loop"].c] IN
  /\ At("loop", "send")
  /\ IF connections[f] = None
     THEN Return("loop") /\ UNCHANGED connections
     ELSE /\ connections[f].pending_sends < MaxPending
          /\ connections' = [connections EXCEPT ![f].pending_sends = @ + 1]
          /\ Go("loop", "push_send", connections[f].connection)
  /\ UNCHANGED <<fds, fd_of, worker, connected, requests, ingress, events, stop>>

PushSend ==
  LET c == pc["loop"].c IN
  /\ At("loop", "push_send")
  /\ sends' = [sends EXCEPT ![worker[c]][fd_of[c]] = @ + 1]
  /\ Return("loop")
  /\ UNCHANGED <<server, recvs, ingress, events, stop>>

(* A Finish frame: shutdown_stream_write. *)
BeginFinish(s) ==
  /\ At("loop", "idle")
  /\ s \notin finished
  /\ finished' = finished \cup {s}
  /\ s \in connection_by_stream
  /\ Go("loop", "shutdown_write", s)
  /\ UNCHANGED <<server, requests, ingress, ingress_streams, closed, in_order, stop>>

shutdown_write_connection ==
  LET f == fd_of[pc["loop"].c]
      st == [connections[f] EXCEPT !.write_shutdown_requested = TRUE]
  IN
  /\ At("loop", "shutdown_write")
  /\ IF connections[f] = None
     THEN Return("loop") /\ UNCHANGED <<connected, connections>>
     ELSE IF connections[f].write_closed
     THEN Return("loop") /\ UNCHANGED <<connected, connections>>
     ELSE IF Drained(st)
     THEN EndWriting("loop", f, st)
     ELSE /\ connections' = [connections EXCEPT ![f] = st]
          /\ Return("loop")
          /\ UNCHANGED connected
  /\ UNCHANGED <<fds, fd_of, worker, requests, ingress, events, stop>>

(* A Close frame. *)
BeginClose(s) ==
  /\ At("loop", "idle")
  /\ s \in connection_by_stream
  /\ Go("loop", "shutdown", s)
  /\ UNCHANGED <<server, requests, ingress, events, stop>>

-----------------------------------------------------------------------------
(* TcpServer::stop: the acceptor is joined, then the workers, and what is  *)
(* left is closed.                                                         *)
BeginStop ==
  /\ stop.at = "running"
  /\ At("acceptor", "idle")
  /\ stop' = [at |-> "workers", left |-> {}]
  /\ UNCHANGED <<server, requests, ingress, events, pc>>

(* left holds the workers joined so far. *)
JoinWorker(w) ==
  /\ stop.at = "workers"
  /\ At(w, "idle")
  /\ w \notin stop.left
  /\ stop' = [stop EXCEPT !.left = @ \cup {w}]
  /\ UNCHANGED <<server, requests, ingress, events, pc>>

(* Mutant: nothing is closed. *)
close_all_connections_None ==
  /\ stop.at = "workers"
  /\ stop.left = Worker
  /\ stop' = [at |-> "stopped", left |-> {}]
  /\ UNCHANGED <<server, requests, ingress, events, pc>>

close_all_connections ==
  /\ stop.at = "workers"
  /\ stop.left = Worker
  /\ stop' = [at |-> "close", left |-> {c \in Conn : Live(c)}]
  /\ connected' = {}
  /\ connections' = [f \in Fd |-> None]
  /\ UNCHANGED <<fds, fd_of, worker, requests, ingress, events, pc>>

StopNext ==
  /\ stop.at = "close"
  /\ At("main", "idle")
  /\ \/ \E c \in stop.left : Go("main", "close", c) /\ stop' = [stop EXCEPT !.left = @ \ {c}]
     \/ stop.left = {} /\ stop' = [stop EXCEPT !.at = "stopped"] /\ UNCHANGED pc
  /\ UNCHANGED <<server, requests, ingress, events>>

-----------------------------------------------------------------------------
Acceptor == Push \/ handle_accept_result \/ Notify \/ InsertStream \/ ConnectedEvent
Closing(t) == ShutdownStream(t) \/ Shutdown(t) \/ Close(t) \/ ClosedCallback(t) \/ ClosedEvent(t)
Working(w) == handle_data(w) \/ DataEvent(w) \/ handle_read_closed(w) \/ rearm_recv(w)
Loop == SendOn \/ PushSend \/ shutdown_write_connection
Stop == (\E w \in Worker : JoinWorker(w)) \/ close_all_connections \/ StopNext

Next ==
  \/ \E c \in Conn, f \in Fd, w \in Worker : Accept(c, f, w)
  \/ Acceptor
  \/ \E t \in Thread : Closing(t)
  \/ \E w \in Worker : Working(w)
  \/ \E w \in Worker, f \in Fd : handle_recv(w, f) \/ handle_send(w, f)
  \/ \E s \in Conn : BeginSend(s) \/ BeginFinish(s) \/ BeginClose(s)
  \/ Loop
  \/ BeginStop
  \/ Stop

Spec == Init /\ [][Next]_vars

-----------------------------------------------------------------------------
(* Properties *)

(* Types and limits: a pending count never exceeds what the loop thread    *)
(* may send, and admission never lets in more streams than the limit.      *)
TypeOK ==
  /\ fds \in [Fd -> Conn \cup {None}]
  /\ fd_of \in [Conn -> Fd \cup {None}]
  /\ worker \in [Conn -> Worker \cup {None}]
  /\ connected \subseteq Conn
  /\ connections \in [Fd -> {None} \cup
       [connection : Conn, read_closed : BOOLEAN, write_shutdown_requested : BOOLEAN,
        write_closed : BOOLEAN, pending_sends : 0..MaxPending]]
  /\ recvs \in [Worker -> [Fd -> Nat]]
  /\ sends \in [Worker -> [Fd -> Nat]]
  /\ stream_by_fd \in [Fd -> Conn \cup {None}]
  /\ connection_by_stream \subseteq Conn
  /\ read_closed_streams \subseteq Conn
  /\ ingress_streams \subseteq Conn
  /\ closed \in [Conn -> Nat]
  /\ finished \subseteq Conn
  /\ in_order \subseteq Conn
  /\ \A t \in Thread : pc[t].c \in Conn \cup {None} /\ {pc[t].then, pc[t].more} \subseteq Conn \cup {None}
  /\ Cardinality(ingress_streams) <= MaxStreams

(* A descriptor in connections is open and is that connection's, and an    *)
(* open descriptor is in connections or about to be closed by exactly one  *)
(* thread: none is closed twice, none is forgotten, whoever closes.        *)
StateOwnsFd ==
  \A f \in Fd :
    LET closers == {t \in Thread : At(t, "close") /\ fd_of[pc[t].c] = f}
        left == {c \in stop.left \cap Conn : fd_of[c] = f}
        entries == {c \in connected : Live(c) /\ fd_of[c] = f}
    IN  /\ Cardinality(closers) + Cardinality(left) + Cardinality(entries)
             = IF fds[f] = None THEN 0 ELSE 1
        /\ connections[f] # None => fds[f] = connections[f].connection

(* A stream gets at most one Closed event, though the end of its reading,  *)
(* an error, a frame from the peer and stop may each report it.            *)
ClosedOnce == \A s \in Conn : closed[s] <= 1

(* No other connection has had the number of c. *)
OwnNumber(c) == \A d \in Conn \ {c} : fd_of[d] # fd_of[c]

(* When all threads have come to rest, a stream that ended holds no slot,  *)
(* if its connection was still there when it was admitted and its number   *)
(* was not given out again: the slot and the entries of a stream are only  *)
(* left behind when the end of a connection overtakes its announcement by  *)
(* the acceptor, or takes the number of another one.                       *)
SlotsReturned ==
  (\A t \in Thread : At(t, "idle")) /\ stop.at = "running" =>
    \A s \in in_order :
      /\ OwnNumber(s)
      /\ s \in ingress_streams \/ s \in connection_by_stream
      => Live(s)

(* A Finish waits for the sends before it, and is not forgotten.  SHUT_WR  *)
(* is only due when everything the peer sent before its Finish is written, *)
(* unless completions of an earlier connection with the same number are    *)
(* taken for it; and a Finish that waits does so for a send that a worker  *)
(* has or that the loop thread is about to push.                           *)
FinishAfterSends ==
  \A f \in Fd :
    connections[f] # None =>
      LET pushing == At("loop", "push_send") /\ fd_of[pc["loop"].c] = f
          in_flight == SumFunction([w \in Worker |-> sends[w][f]]) + (IF pushing THEN 1 ELSE 0)
      IN  /\ connections[f].pending_sends <= in_flight
          /\ connections[f].write_shutdown_requested =>
               connections[f].write_closed \/ connections[f].pending_sends > 0
          /\ connections[f].write_closed /\ OwnNumber(connections[f].connection) =>
               in_flight = 0

(* When stop has returned no connection of a device is open, except for    *)
(* one the loop thread is about to close.                                  *)
StoppedClean ==
  stop.at = "stopped" =>
    \A f \in Fd : fds[f] = None \/ (At("loop", "close") /\ fd_of[pc["loop"].c] = f)
=============================================================================
