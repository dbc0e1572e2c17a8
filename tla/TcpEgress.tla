----------------------------- MODULE TcpEgress ------------------------------
(***************************************************************************)
(* TcpEgress (iota_proxy/src/network/TcpEgress.cpp): the streams a node    *)
(* keeps to the target on behalf of remote devices.                        *)
(*                                                                         *)
(* The loop thread of the tunnel handles one frame at a time (Open, Data,  *)
(* Finish, Close); each stream has a reader thread; the main thread calls  *)
(* stop.  They meet in the map streams_, in the open flag of a stream,     *)
(* which whoever clears it must close the socket, and in the table of file *)
(* descriptors, where a number that one thread closed may at once belong   *)
(* to another stream.                                                      *)
(***************************************************************************)
EXTENDS Integers, FiniteSets

CONSTANTS
  Id,           \* stream ids
  Socket,       \* connections to the target, one for each Stream object
  Fd,           \* file descriptor numbers
  None,
  MaxStreams    \* config max_streams

EgressConstants ==
  /\ None \notin Id \cup Socket \cup Fd
  /\ MaxStreams \in Nat

VARIABLES
  streams,    \* streams_
  stopping,   \* stopping_
  threads,    \* threads_: the readers that stop will join
  idof,       \* id of each Stream
  fdof,       \* fd of each Stream
  open,       \* its open flag
  fds,        \* the kernel's table: the socket behind each number
  write_shut, \* the streams with a SHUT_WR
  reader,     \* what each reader does next
  reading,    \* the socket each reader waits on
  loop,       \* what the loop thread does next, and with which stream
  stopper     \* what the thread in stop does next

egress_vars ==
  <<streams, stopping, threads, idof, fdof, open, fds, write_shut, reader, reading, loop, stopper>>

ReaderStep == {"none", "check", "call", "recv", "exchange", "remove_open", "remove", "close", "done"}
Idle == [at |-> "idle", id |-> None, s |-> None]

EgressInit ==
  /\ streams = [i \in Id |-> None]
  /\ stopping = FALSE
  /\ threads = {}
  /\ idof = [s \in Socket |-> None]
  /\ fdof = [s \in Socket |-> None]
  /\ open = [s \in Socket |-> FALSE]
  /\ fds = [f \in Fd |-> None]
  /\ write_shut = {}
  /\ reader = [s \in Socket |-> "none"]
  /\ reading = [s \in Socket |-> None]
  /\ loop = Idle
  /\ stopper = [at |-> "running", left |-> {}]

Active == {i \in Id : streams[i] # None}
HasRoom == Cardinality(Active) < MaxStreams
Shut(s) == \A f \in Fd : fds[f] # s   \* the socket behind s is closed

(* Mutant: the descriptor is closed whoever cleared the flag. *)
close_fd_Always(s) ==
  /\ open' = [open EXCEPT ![s] = FALSE]
  /\ fds' = [fds EXCEPT ![fdof[s]] = None]

(* close_fd: the one that clears the flag closes the descriptor. *)
close_fd(s) ==
  /\ open' = [open EXCEPT ![s] = FALSE]
  /\ fds' = IF open[s] THEN [fds EXCEPT ![fdof[s]] = None] ELSE fds

-----------------------------------------------------------------------------
(* The loop thread *)

BeginOpen(i) ==
  /\ loop.at = "idle"
  /\ ~ stopping
  /\ streams[i] = None
  /\ HasRoom
  /\ loop' = [Idle EXCEPT !.at = "connect", !.id = i]
  /\ UNCHANGED <<streams, stopping, threads, idof, fdof, open, fds, write_shut, reader, reading, stopper>>

Connect ==
  /\ loop.at = "connect"
  /\ \/ \E s \in Socket, f \in Fd :
          /\ idof[s] = None
          /\ fds[f] = None
          /\ idof' = [idof EXCEPT ![s] = loop.id]
          /\ fdof' = [fdof EXCEPT ![s] = f]
          /\ open' = [open EXCEPT ![s] = TRUE]
          /\ fds' = [fds EXCEPT ![f] = s]
          /\ loop' = [loop EXCEPT !.at = "insert", !.s = s]
     \/ loop' = Idle /\ UNCHANGED <<idof, fdof, open, fds>>
  /\ UNCHANGED <<streams, stopping, threads, write_shut, reader, reading, stopper>>

(* The second critical section of open_stream. *)
Insert ==
  /\ loop.at = "insert"
  /\ IF stopping \/ streams[loop.id] # None \/ ~ HasRoom
     THEN close_fd(loop.s) /\ UNCHANGED <<streams, threads, reader>>
     ELSE /\ streams' = [streams EXCEPT ![loop.id] = loop.s]
          /\ threads' = threads \cup {loop.s}
          /\ reader' = [reader EXCEPT ![loop.s] = "check"]
          /\ UNCHANGED <<open, fds>>
  /\ loop' = Idle
  /\ UNCHANGED <<stopping, idof, fdof, write_shut, reading, stopper>>

(* A Close frame, or a Data frame whose write to an open stream failed:    *)
(* remove_stream, then close_fd on what it returned.                       *)
BeginClose(i) ==
  /\ loop.at = "idle"
  /\ streams[i] # None
  /\ loop' = [at |-> "close", id |-> i, s |-> streams[i]]
  /\ streams' = [streams EXCEPT ![i] = None]
  /\ UNCHANGED <<stopping, threads, idof, fdof, open, fds, write_shut, reader, reading, stopper>>

BeginSend(i) ==
  /\ loop.at = "idle"
  /\ ~ stopping
  /\ streams[i] # None
  /\ loop' = [at |-> "send", id |-> i, s |-> streams[i]]
  /\ UNCHANGED <<streams, stopping, threads, idof, fdof, open, fds, write_shut, reader, reading, stopper>>

(* write_all may fail on an open stream, and does after a SHUT_WR; then    *)
(* whatever has the id now is closed.                                      *)
Send ==
  /\ loop.at = "send"
  /\ \/ /\ open[loop.s] => loop.s \notin write_shut
        /\ loop' = Idle
        /\ UNCHANGED streams
     \/ /\ open[loop.s]
        /\ streams' = [streams EXCEPT ![loop.id] = None]
        /\ loop' = IF streams[loop.id] = None THEN Idle
                   ELSE [loop EXCEPT !.at = "close", !.s = streams[loop.id]]
  /\ UNCHANGED <<stopping, threads, idof, fdof, open, fds, write_shut, reader, reading, stopper>>

(* A Finish frame: shutdown_stream_write. *)
BeginFinish(i) ==
  /\ loop.at = "idle"
  /\ streams[i] # None
  /\ loop' = [at |-> "finish", id |-> i, s |-> streams[i]]
  /\ UNCHANGED <<streams, stopping, threads, idof, fdof, open, fds, write_shut, reader, reading, stopper>>

Finish ==
  /\ loop.at = "finish"
  /\ write_shut' = IF open[loop.s] THEN write_shut \cup {loop.s} ELSE write_shut
  /\ loop' = Idle
  /\ UNCHANGED <<streams, stopping, threads, idof, fdof, open, fds, reader, reading, stopper>>

Close ==
  /\ loop.at = "close"
  /\ close_fd(loop.s)
  /\ loop' = Idle
  /\ UNCHANGED <<streams, stopping, threads, idof, fdof, write_shut, reader, reading, stopper>>

-----------------------------------------------------------------------------
(* A reader: read_loop *)

Step(s, from, to) == reader[s] = from /\ reader' = [reader EXCEPT ![s] = to]

Check(s) ==
  /\ Step(s, "check", IF ~ stopping /\ open[s] THEN "call" ELSE "exchange")
  /\ UNCHANGED <<streams, stopping, threads, idof, fdof, open, fds, write_shut, reading, loop, stopper>>

(* recv is called: it is about whatever socket has the number now. *)
Call(s) ==
  /\ Step(s, "call", IF fds[fdof[s]] = None THEN "exchange" ELSE "recv")
  /\ reading' = [reading EXCEPT ![s] = fds[fdof[s]]]
  /\ UNCHANGED <<streams, stopping, threads, idof, fdof, open, fds, write_shut, loop, stopper>>

(* recv returns data. *)
ReceiveData(s) ==
  /\ Step(s, "recv", "check")
  /\ ~ Shut(reading[s])
  /\ reading' = [reading EXCEPT ![s] = None]
  /\ UNCHANGED <<streams, stopping, threads, idof, fdof, open, fds, write_shut, loop, stopper>>

(* recv fails, or one side has closed. *)
ReceiveEnd(s) ==
  /\ Step(s, "recv", "exchange")
  /\ reading' = [reading EXCEPT ![s] = None]
  /\ UNCHANGED <<streams, stopping, threads, idof, fdof, open, fds, write_shut, loop, stopper>>

Exchange(s) ==
  /\ Step(s, "exchange", IF open[s] THEN "remove_open" ELSE "remove")
  /\ open' = [open EXCEPT ![s] = FALSE]
  /\ UNCHANGED <<streams, stopping, threads, idof, fdof, fds, write_shut, reading, loop, stopper>>

(* remove_stream goes by the id: it removes any stream that has it. *)
Remove(s) ==
  /\ Step(s, "remove_open", "close") \/ Step(s, "remove", "done")
  /\ streams' = [streams EXCEPT ![idof[s]] = None]
  /\ UNCHANGED <<stopping, threads, idof, fdof, open, fds, write_shut, reading, loop, stopper>>

CloseSocket(s) ==
  /\ Step(s, "close", "done")
  /\ fds' = [fds EXCEPT ![fdof[s]] = None]
  /\ UNCHANGED <<streams, stopping, threads, idof, fdof, open, write_shut, reading, loop, stopper>>

Read(s) ==
  \/ Check(s) \/ Call(s) \/ ReceiveData(s) \/ ReceiveEnd(s)
  \/ Exchange(s) \/ Remove(s) \/ CloseSocket(s)

-----------------------------------------------------------------------------
(* stop *)

BeginStop ==
  /\ stopper.at = "running"
  /\ stopping' = TRUE
  /\ stopper' = [stopper EXCEPT !.at = "collect"]
  /\ UNCHANGED <<streams, threads, idof, fdof, open, fds, write_shut, reader, reading, loop>>

Collect ==
  /\ stopper.at = "collect"
  /\ stopper' = [at |-> "close", left |-> {streams[i] : i \in Active}]
  /\ streams' = [i \in Id |-> None]
  /\ UNCHANGED <<stopping, threads, idof, fdof, open, fds, write_shut, reader, reading, loop>>

StopClose ==
  /\ stopper.at = "close"
  /\ \/ \E s \in stopper.left :
          /\ close_fd(s)
          /\ stopper' = [stopper EXCEPT !.left = @ \ {s}]
     \/ /\ stopper.left = {}
        /\ stopper' = [stopper EXCEPT !.at = "join"]
        /\ UNCHANGED <<open, fds>>
  /\ UNCHANGED <<streams, stopping, threads, idof, fdof, write_shut, reader, reading, loop>>

Join ==
  /\ stopper.at = "join"
  /\ \A s \in threads : reader[s] = "done"
  /\ stopper' = [stopper EXCEPT !.at = "stopped"]
  /\ UNCHANGED <<streams, stopping, threads, idof, fdof, open, fds, write_shut, reader, reading, loop>>

-----------------------------------------------------------------------------
LoopThread == Connect \/ Insert \/ Send \/ Finish \/ Close
Stop == Collect \/ StopClose \/ Join

EgressNext ==
  \/ \E i \in Id : BeginOpen(i) \/ BeginClose(i) \/ BeginSend(i) \/ BeginFinish(i)
  \/ LoopThread
  \/ \E s \in Socket : Read(s)
  \/ BeginStop
  \/ Stop

EgressSpec == EgressInit /\ [][EgressNext]_egress_vars

(* A step that a reader takes for certain: the target may stay silent, so  *)
(* that recv need not return before the socket is shut down.               *)
Reader(s) ==
  \/ Check(s) \/ Call(s) \/ Exchange(s) \/ Remove(s) \/ CloseSocket(s)
  \/ Shut(reading[s]) /\ ReceiveEnd(s)

-----------------------------------------------------------------------------
(* Properties *)

(* Types and limits: threads_ holds every reader that was started, and the *)
(* limit on streams holds although it is checked before a connection that  *)
(* takes long and again after it.                                          *)
EgressTypeOK ==
  /\ streams \in [Id -> Socket \cup {None}]
  /\ stopping \in BOOLEAN
  /\ threads = {s \in Socket : reader[s] # "none"}
  /\ idof \in [Socket -> Id \cup {None}]
  /\ fdof \in [Socket -> Fd \cup {None}]
  /\ open \in [Socket -> BOOLEAN]
  /\ fds \in [Fd -> Socket \cup {None}]
  /\ write_shut \subseteq Socket
  /\ reader \in [Socket -> ReaderStep]
  /\ reading \in [Socket -> Socket \cup {None}]
  /\ loop \in [at : {"idle", "connect", "insert", "send", "finish", "close"},
               id : Id \cup {None}, s : Socket \cup {None}]
  /\ stopper \in [at : {"running", "collect", "close", "join", "stopped"}, left : SUBSET Socket]
  /\ Cardinality(Active) <= MaxStreams

(* When stop has returned, no socket that had a reader is open and no      *)
(* reader runs, though a frame may have been opening a stream meanwhile.   *)
StoppedClean ==
  stopper.at = "stopped" =>
    \A s \in Socket : s # loop.s => Shut(s) /\ reader[s] \in {"none", "done"}

(* As long as its open flag is set, a stream's descriptor denotes its own  *)
(* socket, and its reader waits on that: nobody closes a descriptor a      *)
(* second time, when the kernel may have given the number to another       *)
(* stream.  The limit on streams holds, and stop leaves nothing open.      *)
OpenOwnsFd ==
  /\ EgressTypeOK /\ StoppedClean
  /\ \A s \in Socket :
       open[s] => /\ fds[fdof[s]] = s
                  /\ reader[s] = "recv" => reading[s] = s

(* stop was called, and no stream id was used twice. *)
MustStop ==
  /\ stopping
  /\ \A s, t \in Socket : s # t /\ idof[s] # None => idof[s] # idof[t]
=============================================================================
