----------------------------- MODULE StreamPath -----------------------------
(* One stream from a device to a target, over the nodes of a proxy network: *)
(* ProxyRuntime wires TcpIngress, PassThroughBusiness, KcpTunnel and        *)
(* TcpEgress, and this module composes them.  The device is connected to    *)
(* Entry; every other node can open a connection to its target for the      *)
(* stream.  Frames go to the default next hop of the node that sends them,  *)
(* chosen anew for each frame; a link between two nodes is a reliable FIFO  *)
(* (module Ikcp), and a send to the device a queue (modules TcpIngress and  *)
(* ProactorThread have the details).                                        *)
(*                                                                          *)
(* Threads of a node: the acceptor announces the connection, a worker reads *)
(* it and completes its sends, the tunnel's loop handles frames, a reader   *)
(* waits for the target.  What the ingress hands to the edge pipeline and   *)
(* to the other nodes as replicas is in EdgePipeline and Gossip; here it is *)
(* the set handed.                                                          *)
EXTENDS Integers, Sequences, FiniteSets

CONSTANTS Node,
          Entry,         \* the node the device is connected to
          None,
          Peer,          \* the configured peer of every node, its first next hop
          Items,         \* messages the device may send
          Replies,       \* messages a target may send
          MaxMessages,   \* bound on the messages of the device and one target
          MaxFaults      \* refusals by AdmissionControl, failed connects, short
                         \* sends, resets and changes of a default next hop

VARIABLES hop,       \* the default next hop of every node
          link,      \* link[n][m]: frames under way from n to m
          acceptor,  \* what Entry's acceptor does next for the stream
          worker,    \* what Entry's worker is doing
          conn,      \* the device's connection and its entries in TcpIngress
          slot,      \* the stream is counted by Entry's AdmissionControl
          device, egress, handed, faults,
          exit, marks   \* history: the first hop taken, and what went wrong

vars == <<hop, link, acceptor, worker, conn, slot, device, egress, handed, faults, exit, marks>>

Constants ==
  /\ Entry \in Node /\ Cardinality(Node) > 1
  /\ Peer \in {h \in [Node -> Node] : \A n \in Node : h[n] # n}
  /\ {Items, Replies, MaxMessages, MaxFaults} \subseteq Nat

(* Messages are numbered by who sends them, the device (by = Entry) or a    *)
(* target; from says that the first or the second half is still to be sent. *)
Piece == [by : Node, k : Nat, from : 1 .. 2]
Frame == [type : {"Open", "Data", "Close", "Finish"}, item : Piece \cup {None}]
Mark == {"early", "overtaken", "refused", "astray", "mixed", "answered"}
Half == [by : Node, k : 1 .. Replies, half : 1 .. 2]
Signal(t) == [type |-> t, item |-> None]
Data(n, k) == [type |-> "Data", item |-> [by |-> n, k |-> k, from |-> 1]]

Init ==
  /\ hop = Peer
  /\ link = [n \in Node |-> [m \in Node |-> <<>>]]
  /\ acceptor = "announce"
  /\ worker = [at |-> "idle", k |-> 0]
  /\ conn = [open |-> TRUE, mapped |-> FALSE, read_closed |-> FALSE, reported |-> FALSE,
             sending |-> <<>>, finish |-> FALSE, write_closed |-> FALSE]
  /\ slot = FALSE
  /\ device = [state |-> "open", sent |-> 0, read |-> 0, got |-> <<>>]
  /\ egress = [n \in Node |-> [at |-> "none", reader |-> "none", got |-> <<>>, sent |-> 0, ended |-> FALSE]]
  /\ handed = {} /\ faults = 0
  /\ exit = None /\ marks = {}
-----------------------------------------------------------------------------
(* Node n sends frame f to its default next hop, or to the configured peer  *)
(* when it has none; l is the state of the links, why what happened before. *)
kcp_sender(n, f, l, why) ==
  /\ link' = [l EXCEPT ![n][hop[n]] = Append(@, f)]
  /\ exit' = IF n = Entry /\ exit = None THEN hop[n] ELSE exit
  /\ marks' = marks \cup why \cup
       {m \in {"astray"} : hop[n] # IF n # Entry THEN Entry ELSE exit'}

Silent(l, why) == link' = l /\ marks' = marks \cup why /\ UNCHANGED exit

(* Data or Finish that leaves before the acceptor has sent Open.            *)
Overtaking == {m \in {"overtaken"} : acceptor # "done"}

(* The connection is taken out of TcpServer's table and closed; the         *)
(* callback ends the stream unless the end of its data was reported before. *)
shutdown_connection(c, l, why) ==
  LET ends == c.mapped /\ ~c.reported IN
  /\ conn' = [c EXCEPT !.open = FALSE, !.mapped = FALSE, !.reported = FALSE, !.sending = <<>>]
  /\ slot' = (slot /\ ~ends)
  /\ IF ends THEN kcp_sender(Entry, Signal("Finish"), l, why) ELSE Silent(l, {})

(* A command for a stream that TcpIngress does not know any more is ignored. *)
shutdown_stream(l, why) ==
  IF conn.mapped /\ conn.open
  THEN shutdown_connection(conn, l, why)
  ELSE Silent(l, {}) /\ UNCHANGED <<conn, slot>>
-----------------------------------------------------------------------------
(* The acceptor: the connection gets a stream id, a slot, and its Open.     *)
handle_connection ==
  /\ acceptor = "announce"
  /\ acceptor' = IF conn.open THEN "admit" ELSE "done"
  /\ conn' = [conn EXCEPT !.mapped = conn.open]
  /\ UNCHANGED <<hop, link, worker, slot, device, egress, handed, faults, exit, marks>>

ConnectedEvent ==
  /\ acceptor = "admit"
  /\ \/ /\ acceptor' = "open" /\ slot' = TRUE
        /\ UNCHANGED <<conn, faults, link, exit, marks>>
     \/ /\ faults < MaxFaults
        /\ faults' = faults + 1
        /\ acceptor' = "done"
        /\ shutdown_stream(link, {})
  /\ UNCHANGED <<hop, worker, device, egress, handed>>

SendOpen ==
  /\ acceptor = "open"
  /\ acceptor' = "done"
  /\ kcp_sender(Entry, Signal("Open"), link, {})
  /\ UNCHANGED <<hop, worker, conn, slot, device, egress, handed, faults>>
-----------------------------------------------------------------------------
Idle == [at |-> "idle", k |-> 0]
Reading == worker = Idle /\ conn.open /\ ~conn.read_closed

(* The worker reads: data of a connection that is not announced is dropped. *)
handle_data ==
  /\ Reading
  /\ device.read < device.sent
  /\ device' = [device EXCEPT !.read = @ + 1]
  /\ worker' = IF conn.mapped THEN [at |-> "data", k |-> device.read + 1] ELSE Idle
  /\ marks' = marks \cup {m \in {"early"} : ~conn.mapped}
  /\ UNCHANGED <<hop, link, acceptor, conn, slot, egress, handed, faults, exit>>

(* Mutant: data that the rate limit refuses is dropped, and the stream goes *)
(* on.                                                                      *)
DataEvent_Drops ==
  /\ worker.at = "data"
  /\ worker' = Idle
  /\ \/ /\ handed' = handed \cup {worker.k}
        /\ kcp_sender(Entry, Data(Entry, worker.k), link, Overtaking)
        /\ UNCHANGED <<conn, slot, faults>>
     \/ /\ faults < MaxFaults
        /\ faults' = faults + 1
        /\ Silent(link, {})
        /\ UNCHANGED <<conn, slot, handed>>
  /\ UNCHANGED <<hop, acceptor, device, egress>>

(* Data goes to the pipeline, to the replicas and to the tunnel; what the   *)
(* rate limit refuses ends the stream.                                      *)
DataEvent ==
  /\ worker.at = "data"
  /\ worker' = Idle
  /\ \/ /\ handed' = handed \cup {worker.k}
        /\ kcp_sender(Entry, Data(Entry, worker.k), link, Overtaking)
        /\ UNCHANGED <<conn, slot, faults>>
     \/ /\ faults < MaxFaults
        /\ faults' = faults + 1
        /\ IF conn.mapped /\ conn.open
           THEN shutdown_connection(conn, link, Overtaking)
           ELSE slot' = FALSE /\ Silent(link, {}) /\ UNCHANGED conn
        /\ UNCHANGED handed
  /\ UNCHANGED <<hop, acceptor, device, egress>>

(* The end of the device's data: TcpServer notes it, TcpIngress reports it  *)
(* if the connection is announced, and ProxyRuntime sends Finish.           *)
ReadEnd ==
  /\ Reading
  /\ device.state = "finished" /\ device.read = device.sent
  /\ conn' = [conn EXCEPT !.read_closed = TRUE]
  /\ worker' = [at |-> "report", k |-> 0]
  /\ UNCHANGED <<hop, link, acceptor, slot, device, egress, handed, faults, exit, marks>>

handle_read_closed ==
  /\ worker.at = "report"
  /\ worker' = IF conn.mapped THEN [at |-> "finish", k |-> 0] ELSE Idle
  /\ conn' = [conn EXCEPT !.reported = conn.mapped]
  /\ marks' = marks \cup {m \in {"early"} : acceptor = "announce"}
  /\ UNCHANGED <<hop, link, acceptor, slot, device, egress, handed, faults, exit>>

ClosedEvent ==
  /\ worker.at = "finish"
  /\ worker' = Idle
  /\ slot' = FALSE
  /\ kcp_sender(Entry, Signal("Finish"), link, Overtaking)
  /\ UNCHANGED <<hop, acceptor, conn, device, egress, handed, faults>>

ReadFails ==
  /\ Reading
  /\ device.state = "reset"
  /\ shutdown_connection(conn, link, Overtaking)
  /\ UNCHANGED <<hop, acceptor, worker, device, egress, handed, faults>>

(* Mutant: the connection is left open when its second end is shut.         *)
ShutWrite_Keeps(c, l) ==
  /\ conn' = [c EXCEPT !.write_closed = @ \/ (c.finish /\ c.sending = <<>>)]
  /\ Silent(l, {m \in {"answered"} : conn'.write_closed /\ ~c.write_closed /\ ~c.read_closed})
  /\ UNCHANGED slot

(* The writing end is shut once the sends before it are done; if the device *)
(* has ended as well, the connection is closed.                             *)
ShutWrite(c, l) ==
  IF c.finish /\ c.sending = <<>> /\ ~c.write_closed
  THEN LET d == [c EXCEPT !.write_closed = TRUE] IN
       IF c.read_closed
       THEN shutdown_connection(d, l, Overtaking)
       ELSE conn' = d /\ Silent(l, {"answered"}) /\ UNCHANGED slot
  ELSE conn' = c /\ Silent(l, {}) /\ UNCHANGED slot

Halves(p) == [i \in 1 .. 3 - p.from |-> [by |-> p.by, k |-> p.k, half |-> p.from + i - 1]]

handle_send ==
  /\ worker = Idle /\ conn.open /\ conn.sending # <<>>
  /\ IF device.state = "reset" \/ conn.write_closed
     THEN shutdown_connection(conn, link, Overtaking) /\ UNCHANGED device
     ELSE /\ device' = [device EXCEPT !.got = @ \o Halves(Head(conn.sending))]
          /\ ShutWrite([conn EXCEPT !.sending = Tail(@)], link)
  /\ UNCHANGED <<hop, acceptor, worker, egress, handed, faults>>

(* A send the kernel takes in part is submitted again, behind those of the  *)
(* waiting sends that the worker has submitted before.                      *)
ShortSend ==
  /\ worker = Idle /\ conn.open /\ conn.sending # <<>>
  /\ device.state # "reset" /\ ~conn.write_closed
  /\ faults < MaxFaults
  /\ LET p == Head(conn.sending)
         rest == Tail(conn.sending) IN
     /\ p.from = 1
     /\ device' = [device EXCEPT !.got = Append(@, Halves(p)[1])]
     /\ \E i \in 0 .. Len(rest) :
          /\ conn' = [conn EXCEPT !.sending =
                        SubSeq(rest, 1, i) \o <<[p EXCEPT !.from = 2]>> \o SubSeq(rest, i + 1, Len(rest))]
          /\ marks' = marks \cup {m \in {"mixed"} : i > 0}
  /\ faults' = faults + 1
  /\ UNCHANGED <<hop, link, acceptor, worker, slot, egress, handed, exit>>
-----------------------------------------------------------------------------
(* The loop of node n takes a frame from the link from m.  AdmissionControl *)
(* lets frames without payload pass.                                        *)
Arrives(n, m, t) == link[m][n] # <<>> /\ Head(link[m][n]).type = t
Taken(n, m) == [link EXCEPT ![m][n] = Tail(@)]

RefuseFrame(n, m) ==
  /\ Arrives(n, m, "Data")
  /\ faults < MaxFaults
  /\ faults' = faults + 1
  /\ Silent(Taken(n, m), {"refused"})
  /\ UNCHANGED <<hop, acceptor, worker, conn, slot, device, egress, handed>>

(* Open connects to the target, or answers Close.                           *)
OnOpen(n, m) ==
  /\ Arrives(n, m, "Open")
  /\ \/ /\ egress[n].at = "none"
        /\ egress' = [egress EXCEPT ![n].at = "open", ![n].reader = "recv"]
        /\ Silent(Taken(n, m), {})
        /\ UNCHANGED faults
     \/ /\ faults < MaxFaults
        /\ faults' = faults + 1
        /\ kcp_sender(n, Signal("Close"), Taken(n, m), {})
        /\ UNCHANGED egress
  /\ UNCHANGED <<hop, acceptor, worker, conn, slot, device, handed>>

(* Data goes to the target, else to the device, else Close is the answer.   *)
(* A write after Finish fails, one to a target that has ended may fail or   *)
(* be lost; a failed write closes the stream.                               *)
OnData(n, m) ==
  /\ Arrives(n, m, "Data")
  /\ \E fails \in {FALSE, egress[n].ended} :
       LET p == Head(link[m][n]).item
           written == egress[n].at = "open" /\ ~fails
           queued == ~written /\ n = Entry /\ conn.mapped /\ conn.open IN
       /\ egress' = [egress EXCEPT
            ![n].at = IF written \/ @ = "none" THEN @ ELSE "closed",
            ![n].got = IF written /\ ~egress[n].ended THEN Append(@, p.k) ELSE @]
       /\ conn' = IF queued THEN [conn EXCEPT !.sending = Append(@, p)] ELSE conn
       /\ IF written \/ queued
          THEN Silent(Taken(n, m), {})
          ELSE kcp_sender(n, Signal("Close"), Taken(n, m), {})
  /\ UNCHANGED <<hop, acceptor, worker, slot, device, handed, faults>>

OnClose(n, m) ==
  /\ Arrives(n, m, "Close")
  /\ egress' = [egress EXCEPT ![n].at = IF @ = "none" THEN @ ELSE "closed"]
  /\ IF n = Entry
     THEN shutdown_stream(Taken(n, m), Overtaking)
     ELSE Silent(Taken(n, m), {}) /\ UNCHANGED <<conn, slot>>
  /\ UNCHANGED <<hop, acceptor, worker, device, handed, faults>>

OnFinish(n, m) ==
  /\ Arrives(n, m, "Finish")
  /\ egress' = [egress EXCEPT ![n].at = IF @ = "open" THEN "shut" ELSE @]
  /\ IF n = Entry /\ conn.mapped /\ conn.open /\ ~conn.write_closed
     THEN ShutWrite([conn EXCEPT !.finish = TRUE], Taken(n, m))
     ELSE Silent(Taken(n, m), {}) /\ UNCHANGED <<conn, slot>>
  /\ UNCHANGED <<hop, acceptor, worker, device, handed, faults>>

on_kcp_frame(n, m) ==
  RefuseFrame(n, m) \/ OnOpen(n, m) \/ OnData(n, m) \/ OnClose(n, m) \/ OnFinish(n, m)
-----------------------------------------------------------------------------
Room(n) == device.sent + egress[n].sent < MaxMessages
Socket(n) == egress[n].at \in {"open", "shut"}

(* The reader of node n: a message of the target becomes a Data frame; the  *)
(* end of the target closes the stream, if the loop has not, and then       *)
(* becomes a Finish frame.                                                  *)
ReadTarget(n) ==
  /\ egress[n].reader = "recv" /\ Socket(n)
  /\ egress[n].sent < Replies /\ Room(n) /\ ~egress[n].ended
  /\ egress' = [egress EXCEPT ![n].sent = @ + 1, ![n].reader = "data"]
  /\ UNCHANGED <<hop, link, acceptor, worker, conn, slot, device, handed, faults, exit, marks>>

EgressDataEvent(n) ==
  /\ egress[n].reader = "data"
  /\ egress' = [egress EXCEPT ![n].reader = "recv"]
  /\ kcp_sender(n, Data(n, egress[n].sent), link, {})
  /\ UNCHANGED <<hop, acceptor, worker, conn, slot, device, handed, faults>>

ReadTargetEnd(n) ==
  /\ egress[n].reader = "recv"
  /\ egress[n].ended \/ ~Socket(n)
  /\ egress' = [egress EXCEPT ![n].at = "closed", ![n].reader = IF Socket(n) THEN "finish" ELSE "done"]
  /\ UNCHANGED <<hop, link, acceptor, worker, conn, slot, device, handed, faults, exit, marks>>

EgressClosedEvent(n) ==
  /\ egress[n].reader = "finish"
  /\ egress' = [egress EXCEPT ![n].reader = "done"]
  /\ kcp_sender(n, Signal("Finish"), link, {})
  /\ UNCHANGED <<hop, acceptor, worker, conn, slot, device, handed, faults>>

read_loop(n) == ReadTarget(n) \/ EgressDataEvent(n) \/ ReadTargetEnd(n) \/ EgressClosedEvent(n)
-----------------------------------------------------------------------------
(* Outside: the device and the targets, and the route tables of the nodes.  *)
DeviceSends ==
  /\ device.state = "open" /\ device.sent < Items /\ \A n \in Node : Room(n)
  /\ device' = [device EXCEPT !.sent = @ + 1]
  /\ UNCHANGED <<hop, link, acceptor, worker, conn, slot, egress, handed, faults, exit, marks>>

DeviceEnds ==
  /\ device.state = "open"
  /\ \E s \in {"finished", "reset"} : device' = [device EXCEPT !.state = s]
  /\ UNCHANGED <<hop, link, acceptor, worker, conn, slot, egress, handed, faults, exit, marks>>

DeviceResets ==
  /\ device.state = "finished"
  /\ faults < MaxFaults
  /\ faults' = faults + 1
  /\ device' = [device EXCEPT !.state = "reset"]
  /\ UNCHANGED <<hop, link, acceptor, worker, conn, slot, egress, handed, exit, marks>>

TargetEnds(n) ==
  /\ Socket(n) /\ ~egress[n].ended
  /\ egress' = [egress EXCEPT ![n].ended = TRUE]
  /\ UNCHANGED <<hop, link, acceptor, worker, conn, slot, device, handed, faults, exit, marks>>

Reroute(n) ==
  /\ faults < MaxFaults
  /\ faults' = faults + 1
  /\ \E m \in Node \ {n, hop[n]} : hop' = [hop EXCEPT ![n] = m]
  /\ UNCHANGED <<link, acceptor, worker, conn, slot, device, egress, handed, exit, marks>>

Acceptor == handle_connection \/ ConnectedEvent \/ SendOpen
Worker ==
  \/ handle_data \/ DataEvent \/ ReadEnd \/ handle_read_closed \/ ClosedEvent
  \/ ReadFails \/ handle_send \/ ShortSend

Next ==
  \/ Acceptor \/ Worker
  \/ \E n, m \in Node : on_kcp_frame(n, m)
  \/ \E n \in Node : read_loop(n) \/ TargetEnds(n) \/ Reroute(n)
  \/ DeviceSends \/ DeviceEnds \/ DeviceResets

(* Threads that have something to do go on, frames under way arrive, and a  *)
(* target ends once it was told that nothing more will come.  One stream    *)
(* has finitely many steps, so it is enough that some step is taken.        *)
System ==
  \/ Acceptor \/ Worker
  \/ \E n, m \in Node : on_kcp_frame(n, m)
  \/ \E n \in Node :
       \/ ReadTargetEnd(n) \/ EgressDataEvent(n) \/ EgressClosedEvent(n)
       \/ (egress[n].at = "shut" /\ TargetEnds(n))

Spec == Init /\ [][Next]_vars /\ WF_vars(System)
-----------------------------------------------------------------------------
Increasing(s) == \A i, j \in DOMAIN s : i < j => s[i] < s[j]
Position(h) == 2 * h.k + h.half
From(n) == SelectSeq(device.got, LAMBDA h : h.by = n)
Positions(s) == [i \in DOMAIN s |-> Position(s[i])]

(* What a target and the device receive of the stream is in order and has   *)
(* nothing twice, and nothing is missing in between, unless one of the      *)
(* following happened: the worker read before the acceptor had announced    *)
(* the connection or sent before its Open, a rate limit refused a frame     *)
(* (ProxyRuntime drops it and goes on), a frame took another way than those *)
(* before it, or a short send was completed behind the next one.            *)
Intact ==
  /\ \A n \in Node :
       /\ Increasing(egress[n].got)
       /\ marks \cap {"early", "overtaken", "refused", "astray"} = {} =>
            egress[n].got = [i \in DOMAIN egress[n].got |-> i]
  /\ "mixed" \notin marks => \A n \in Node : Increasing(Positions(From(n)))
  /\ marks \cap {"refused", "astray", "mixed"} = {} =>
       Positions(device.got) = [i \in DOMAIN device.got |-> i + 2]

(* The slot is given back, every connection to a target is closed and so is *)
(* the device's; the last not if the target ended first: TcpServer closes a *)
(* connection when its writing end is shut second, never when its reading   *)
(* end is.                                                                  *)
Ended ==
  /\ ~slot /\ \A n \in Node : ~Socket(n)
  /\ ~conn.open \/ "answered" \in marks

(* Causes that may keep a stream from ending: Finish overtook Open or was   *)
(* never sent, or a frame went to a node that does not know the stream.     *)
ExcusedEnd == marks \cap {"early", "overtaken", "astray"} # {}
=============================================================================
