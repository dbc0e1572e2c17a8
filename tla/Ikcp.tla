-------------------------------- MODULE Ikcp --------------------------------
(***************************************************************************)
(* The reliable transport under the tunnel: the KCP control block          *)
(* (src/myring/thirdparty/ikcp/ikcp.c) as KcpSession drives it, at the two *)
(* ends of one conversation over a network that loses, repeats and         *)
(* reorders datagrams.                                                     *)
(*                                                                         *)
(* Each end is one control block used from one loop, so a call of          *)
(* KcpSession is one step.  A message is a number and is sent in Script    *)
(* fragments; a datagram is a sequence of at most PerDatagram segments.    *)
(* Times are left open: which segments are due for retransmission (by      *)
(* their timer or by fastack), whether a flush is due and whether the      *)
(* window probe is due are choices.  KcpSession sets nocwnd, so cwnd does  *)
(* not limit the window and is left out, as are rtt estimates.             *)
(*                                                                         *)
(* Sequence numbers count modulo M and start at First: a conversation that *)
(* has already carried that many segments and is quiet.                    *)
(***************************************************************************)
EXTENDS Integers, Sequences, FiniteSets, SequencesExt

CONSTANTS
  A, B,          \* the two ends
  Script,        \* end -> sequence of the fragment counts of its messages
  SndWnd,        \* snd_wnd
  RcvWnd,        \* rcv_wnd, at least IKCP_WND_RCV (ikcp_wndsize)
  WndRcv,        \* IKCP_WND_RCV
  M, First,      \* sequence numbers are modulo M and start at First
  PerDatagram,   \* segments in a datagram
  NetCap,        \* bound: datagrams under way to one end
  Faults         \* bound: datagrams lost, repeated or overtaken

Ends == {A, B}
Peer(e) == IF e = A THEN B ELSE A

ASSUME IkcpConstants ==
  /\ A # B /\ RcvWnd >= WndRcv /\ SndWnd > 0 /\ PerDatagram > 0
  /\ \A e \in Ends : FoldLeft(+, 0, Script[e]) < M \div 2

VARIABLES
  kcp,         \* end -> control block
  net,         \* end -> datagrams under way to it, oldest first
  faults,      \* faults so far
  next,        \* end -> messages of the script offered so far
  accepted,    \* end -> messages ikcp_send took
  delivered    \* end -> messages handed to the application

vars == <<kcp, net, faults, next, accepted, delivered>>

(* _itimediff on sequence numbers: the signed distance of two numbers *)
Diff(a, b) == LET d == (a - b) % M IN IF d < M \div 2 THEN d ELSE d - M
Plus(a, n) == (a + n) % M

NewKcp ==
  [snd_queue |-> <<>>, snd_buf |-> <<>>, rcv_buf |-> <<>>, rcv_queue |-> <<>>,
   acklist |-> <<>>, snd_una |-> First, snd_nxt |-> First, rcv_nxt |-> First,
   rmt_wnd |-> WndRcv, ask_send |-> FALSE, ask_tell |-> FALSE, probe_wait |-> FALSE]

Init ==
  /\ kcp = [e \in Ends |-> NewKcp]
  /\ net = [e \in Ends |-> <<>>]
  /\ faults = 0
  /\ next = [e \in Ends |-> 0]
  /\ accepted = [e \in Ends |-> <<>>]
  /\ delivered = [e \in Ends |-> <<>>]

(***************************************************************************)
(* ikcp_recv                                                               *)
(***************************************************************************)
(* Mutant: the first segment of rcv_buf is taken whatever its number. *)
MoveOneAnyHead(k) ==
  IF k.rcv_buf # <<>> /\ Len(k.rcv_queue) < RcvWnd
  THEN [k EXCEPT !.rcv_buf = Tail(@), !.rcv_queue = Append(@, Head(k.rcv_buf)),
                 !.rcv_nxt = Plus(Head(k.rcv_buf).sn, 1)]
  ELSE k

(* The move of ready segments from rcv_buf to rcv_queue at the end of      *)
(* parse_data and of recv.                                                 *)
MoveOne(k) ==
  IF /\ k.rcv_buf # <<>> /\ Head(k.rcv_buf).sn = k.rcv_nxt
     /\ Len(k.rcv_queue) < RcvWnd
  THEN [k EXCEPT !.rcv_buf = Tail(@), !.rcv_queue = Append(@, Head(k.rcv_buf)),
                 !.rcv_nxt = Plus(@, 1)]
  ELSE k
MoveReady(k) == FoldLeft(LAMBDA q, s : MoveOne(q), k, k.rcv_buf)

(* ikcp_peeksize: the first message of the queue is complete. *)
CanRecv(k) == k.rcv_queue # <<>> /\ Len(k.rcv_queue) >= Head(k.rcv_queue).frg + 1

(* Fragments up to the one with frg = 0 are one message. *)
MessageLength(q) == CHOOSE n \in DOMAIN q : q[n].frg = 0 /\ \A m \in 1 .. n - 1 : q[m].frg # 0

Recv(k) ==
  LET n == MessageLength(k.rcv_queue)
      r == MoveReady([k EXCEPT !.rcv_queue = SubSeq(@, n + 1, Len(@))])
      recover == Len(k.rcv_queue) >= RcvWnd
  IN  [r EXCEPT !.ask_tell = @ \/ (recover /\ Len(r.rcv_queue) < RcvWnd)]

(* What the application gets: the data of the fragments put together. *)
Data(k) == [i \in 1 .. MessageLength(k.rcv_queue) |-> k.rcv_queue[i].data]

(* drain_messages: recv until there is no whole message; p = <<control      *)
(* block, messages>>.  Every turn but the last takes a segment.             *)
DrainOne(p) == IF CanRecv(p[1]) THEN <<Recv(p[1]), Append(p[2], Data(p[1]))>> ELSE p
Drain(k) == FoldLeft(LAMBDA p, s : DrainOne(p), <<k, <<>>>>, k.rcv_queue \o k.rcv_buf)

(***************************************************************************)
(* ikcp_input                                                              *)
(***************************************************************************)
Shrink(k) == [k EXCEPT !.snd_una = IF k.snd_buf = <<>> THEN k.snd_nxt ELSE Head(k.snd_buf).sn]

ParseUna(k, una) == Shrink([k EXCEPT !.snd_buf = SelectSeq(@, LAMBDA s : Diff(una, s.sn) <= 0)])

(* Mutant: an acknowledgement is taken to cover everything before it. *)
ParseAckCumulative(k, sn) ==
  Shrink([k EXCEPT !.snd_buf = SelectSeq(@, LAMBDA s : Diff(s.sn, sn) > 0)])

ParseAck(k, sn) ==
  Shrink(IF Diff(sn, k.snd_una) < 0 \/ Diff(sn, k.snd_nxt) >= 0 THEN k
         ELSE [k EXCEPT !.snd_buf = SelectSeq(@, LAMBDA s : s.sn # sn)])

InWindow(k, sn) == Diff(sn, Plus(k.rcv_nxt, RcvWnd)) < 0

ParseData(k, s) ==
  LET before == SelectSeq(k.rcv_buf, LAMBDA x : Diff(x.sn, s.sn) < 0)
      after == SelectSeq(k.rcv_buf, LAMBDA x : Diff(x.sn, s.sn) > 0)
      seg == [sn |-> s.sn, frg |-> s.frg, data |-> s.data] IN
  IF ~InWindow(k, s.sn) \/ Diff(s.sn, k.rcv_nxt) < 0 THEN k
  ELSE MoveReady(IF \E i \in DOMAIN k.rcv_buf : k.rcv_buf[i].sn = s.sn THEN k
                 ELSE [k EXCEPT !.rcv_buf = before \o <<seg>> \o after])

AckPush(k, sn) == [k EXCEPT !.acklist = Append(@, sn)]

(* One segment of a datagram, s.cmd one of the four commands *)
InputSegment(k, s) ==
  LET u == ParseUna([k EXCEPT !.rmt_wnd = s.wnd], s.una) IN
  CASE s.cmd = "ack" -> ParseAck(u, s.sn)
    [] s.cmd = "push" /\ InWindow(u, s.sn) ->
         ParseData(AckPush(u, s.sn), s)
    [] s.cmd = "wask" -> [u EXCEPT !.ask_tell = TRUE]
    [] OTHER -> u

InputAll(k, d) == FoldLeft(InputSegment, k, d)

(***************************************************************************)
(* ikcp_flush                                                              *)
(***************************************************************************)
WndUnused(k) == IF Len(k.rcv_queue) < RcvWnd THEN RcvWnd - Len(k.rcv_queue) ELSE 0

(* Mutant: no probe is sent into a closed window. *)
ProbeNever(k, due) == k

(* The window probe: with the peer's window closed the timer is started,   *)
(* and when due asks for the window.                                       *)
Probe(k, due) ==
  IF k.rmt_wnd # 0 THEN [k EXCEPT !.probe_wait = FALSE]
  ELSE [k EXCEPT !.probe_wait = TRUE, !.ask_send = @ \/ (due /\ k.probe_wait)]

(* Segments move from snd_queue to snd_buf while the window has room. *)
Room(k) == LET w == IF SndWnd < k.rmt_wnd THEN SndWnd ELSE k.rmt_wnd
               n == Diff(Plus(k.snd_una, w), k.snd_nxt)
           IN  IF n < 0 THEN 0 ELSE IF n < Len(k.snd_queue) THEN n ELSE Len(k.snd_queue)

Fill(k) ==
  LET n == Room(k) IN
  [k EXCEPT !.snd_queue = SubSeq(@, n + 1, Len(@)),
            !.snd_buf = @ \o [i \in 1 .. n |-> [sn |-> Plus(k.snd_nxt, i - 1),
                                                frg |-> k.snd_queue[i].frg,
                                                data |-> k.snd_queue[i].data]],
            !.snd_nxt = Plus(@, n)]

(* The segments of a flush: acknowledgements, probes, then the segments    *)
(* sent for the first time or again.                                       *)
Segments(k, again) ==
  LET p == Fill(k)
      seg(cmd, sn, frg, data) == [cmd |-> cmd, sn |-> sn, frg |-> frg, data |-> data,
                                  wnd |-> WndUnused(k), una |-> k.rcv_nxt]
      push == SelectSeq(p.snd_buf, LAMBDA s : s.sn \in again \/ Diff(s.sn, k.snd_nxt) >= 0)
  IN  [i \in DOMAIN k.acklist |-> seg("ack", k.acklist[i], 0, <<>>)]
      \o (IF k.ask_send THEN <<seg("wask", 0, 0, <<>>)>> ELSE <<>>)
      \o (IF k.ask_tell THEN <<seg("wins", 0, 0, <<>>)>> ELSE <<>>)
      \o [i \in DOMAIN push |-> seg("push", push[i].sn, push[i].frg, push[i].data)]

Datagrams(s) ==
  [i \in 1 .. (Len(s) + PerDatagram - 1) \div PerDatagram |->
     SubSeq(s, (i - 1) * PerDatagram + 1,
            IF i * PerDatagram < Len(s) THEN i * PerDatagram ELSE Len(s))]

Flushed(k) == [Fill(k) EXCEPT !.acklist = <<>>, !.ask_send = FALSE, !.ask_tell = FALSE]

InBuffer(k) == {k.snd_buf[i].sn : i \in DOMAIN k.snd_buf}

(* What ikcp_flush leaves of control block k and sends, when the segments  *)
(* of again are due for retransmission, and the window probe if probe.     *)
Flush(k, again, probe) ==
  LET p == Probe(k, probe) IN <<Flushed(p), Datagrams(Segments(p, again))>>

(* ikcp_update: nothing when the flush is not due.  A segment is sent again *)
(* or the window asked for when no answer can come any more: nothing is     *)
(* under way and the peer has nothing to flush.  An earlier retransmission  *)
(* is one of the faults below.                                              *)
Quiet(e, rest) ==
  /\ \A f \in Ends : rest[f] = <<>>
  /\ kcp[Peer(e)].acklist = <<>> /\ ~kcp[Peer(e)].ask_tell
Update(e, k, rest) ==
  {<<k, <<>>>>, Flush(k, {}, FALSE)}
  \cup {u \in {Flush(k, again, probe) : again \in SUBSET InBuffer(k), probe \in BOOLEAN} :
          Quiet(e, rest)}

(***************************************************************************)
(* The calls of KcpSession                                                 *)
(***************************************************************************)
(* The output of e joins what is on its way, rest, to the peer.            *)
Output(e, rest, out) ==
  /\ Len(rest[Peer(e)]) + Len(out) <= NetCap
  /\ net' = [rest EXCEPT ![Peer(e)] = @ \o out]

(* ikcp_send cuts message m into n fragments, the last one with frg = 0.   *)
Enqueue(k, m, n) ==
  [k EXCEPT !.snd_queue = @ \o [i \in 1 .. n |-> [frg |-> n - i, data |-> <<m, i>>]]]

(* send_app_data: a message of n fragments, refused from WndRcv on.        *)
Send(e) ==
  LET m == next[e] + 1
      n == Script[e][m] IN
  /\ m \in DOMAIN Script[e]
  /\ next' = [next EXCEPT ![e] = m]
  /\ IF n >= WndRcv THEN UNCHANGED <<kcp, net, accepted>>
     ELSE /\ accepted' = [accepted EXCEPT ![e] = Append(@, [i \in 1 .. n |-> <<m, i>>])]
          /\ \E u \in Update(e, Enqueue(kcp[e], m, n), net) :
               /\ kcp' = [kcp EXCEPT ![e] = u[1]]
               /\ Output(e, net, u[2])
  /\ UNCHANGED <<faults, delivered>>

(* handle_udp_packet: input_packet with its update, then drain_messages.   *)
(* The window a flush tells is the one before the messages are taken out.  *)
Input(e, d, rest) ==
  \E u \in Update(e, InputAll(kcp[e], d), rest) :
    LET r == Drain(u[1]) IN
    /\ kcp' = [kcp EXCEPT ![e] = r[1]]
    /\ Output(e, rest, u[2])
    /\ delivered' = [delivered EXCEPT ![e] = @ \o r[2]]
    /\ UNCHANGED <<next, accepted>>

Deliver(e) ==
  /\ net[e] # <<>>
  /\ Input(e, Head(net[e]), [net EXCEPT ![e] = Tail(@)])
  /\ UNCHANGED faults

(* The timer of the session: update, with some segments due. *)
Tick(e) ==
  \E u \in Update(e, kcp[e], net) :
    /\ kcp' = [kcp EXCEPT ![e] = u[1]]
    /\ Output(e, net, u[2])
    /\ UNCHANGED <<faults, next, accepted, delivered>>

(* The tick at which everything that may be due is. *)
DueFlush(e) == IF Quiet(e, net) THEN Flush(kcp[e], InBuffer(kcp[e]), TRUE)
               ELSE Flush(kcp[e], {}, FALSE)
TickAll(e) ==
  \E u \in {DueFlush(e)} :
    /\ kcp' = [kcp EXCEPT ![e] = u[1]]
    /\ Output(e, net, u[2])
    /\ UNCHANGED <<faults, next, accepted, delivered>>

(* It is possible and changes something. *)
CanTick(e) ==
  \E u \in {DueFlush(e)} :
    u # <<kcp[e], <<>>>> /\ Len(net[Peer(e)]) + Len(u[2]) <= NetCap

(***************************************************************************)
(* The network                                                             *)
(***************************************************************************)
Lose(e, i) == net' = [net EXCEPT ![e] = RemoveAt(@, i)] /\ UNCHANGED <<kcp, next, accepted, delivered>>
Repeat(e, i) == Input(e, net[e][i], net)
Overtake(e, i) == i > 1 /\ Input(e, net[e][i], [net EXCEPT ![e] = RemoveAt(@, i)])
(* The timer of a segment or fastack comes before the answer. *)
Early(e, sn) ==
  LET u == Flush(kcp[e], {sn}, FALSE) IN
  /\ kcp' = [kcp EXCEPT ![e] = u[1]]
  /\ Output(e, net, u[2])
  /\ UNCHANGED <<next, accepted, delivered>>

Fault ==
  /\ faults < Faults
  /\ faults' = faults + 1
  /\ \E e \in Ends : \/ \E i \in DOMAIN net[e] : Lose(e, i) \/ Repeat(e, i) \/ Overtake(e, i)
                     \/ \E sn \in InBuffer(kcp[e]) : Early(e, sn)

Next == \/ \E e \in Ends : Send(e) \/ Deliver(e) \/ Tick(e)
        \/ Fault

(* The loops keep running and datagrams that are not lost arrive: weak      *)
(* fairness of Deliver, strong fairness of TickAll, because the timer of a  *)
(* segment that is not acknowledged comes due again and again.  Both are    *)
(* written out with the state in which the action is enabled.               *)
Fairness ==
  \A e \in Ends :
    /\ []<>(net[e] = <<>>) \/ []<><<Deliver(e)>>_vars
    /\ <>[]~CanTick(e) \/ []<><<TickAll(e)>>_vars

Spec == Init /\ [][Next]_vars /\ Fairness
-----------------------------------------------------------------------------
(* The application at one end gets the messages that ikcp_send accepted at  *)
(* the other: whole, in order, each once, whatever the network does.        *)
InOrder == \A e \in Ends : IsPrefix(delivered[Peer(e)], accepted[e])

(* A segment leaves the sender's buffer only when the receiver holds it     *)
(* (ikcp_parse_ack, ikcp_parse_una), the sender never has more than its     *)
(* window under way, and the receiver never buffers beyond its own.         *)
AckedIsHeld ==
  \A e \in Ends :
    LET s == kcp[e]
        r == kcp[Peer(e)]
        sent == {Plus(First, i) : i \in 0 .. Diff(s.snd_nxt, First) - 1}
        held == {r.rcv_buf[i].sn : i \in DOMAIN r.rcv_buf} IN
    /\ \A n \in sent \ InBuffer(s) : n \in held \/ Diff(n, r.rcv_nxt) < 0
    /\ Diff(s.snd_nxt, s.snd_una) <= SndWnd
    /\ \A n \in held : Diff(n, r.rcv_nxt) >= 0 /\ Diff(n, r.rcv_nxt) < RcvWnd
    /\ Len(r.rcv_queue) + Len(r.rcv_buf) <= 2 * RcvWnd

(* Every accepted message arrives: a window that was told as closed and a   *)
(* lost update of it do not stop the conversation (ikcp_flush, window       *)
(* probe).                                                                  *)
AllDelivered ==
  \A e \in Ends : \A n \in DOMAIN Script[e] :
    (Len(accepted[e]) >= n) ~> (Len(delivered[Peer(e)]) >= n)
=============================================================================
