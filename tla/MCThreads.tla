----------------------------- MODULE MCThreads ------------------------------
(***************************************************************************)
(* Small instances of the parts of a node whose threads share memory       *)
(* without a common lock, side by side: the queue of myring, the loop that *)
(* takes requests from it, and the streams to the target with their        *)
(* readers.  part says which of them a behaviour is about; the others stay *)
(* as they start.                                                          *)
(***************************************************************************)
EXTENDS MpmcQueue, ProactorThread, TcpEgress, TLC

CONSTANTS t1, t2, r1, r2, r3, r4

VARIABLE part

node == <<part, vars, proactor_vars, egress_vars>>

(* Two threads push three requests, one of which is finished by two        *)
(* submissions and one of which is called back at once; the callback of    *)
(* another pushes a fourth.                                                *)
MCTodo == t1 :> <<r1, r2>> @@ t2 :> <<r3>>
MCFollow == [r \in Request |-> IF r = r1 THEN r4 ELSE NoRequest]
MCParts == [r \in Request |-> IF r = r3 THEN 2 ELSE 1]

ASSUME InstancesAssumption == ProactorConstants /\ EgressConstants

-----------------------------------------------------------------------------
NodeInit == part \in {"queue", "proactor", "egress"} /\ Init /\ ProactorInit /\ EgressInit

NodeNext ==
  /\ UNCHANGED part
  /\ \/ part = "queue" /\ Next /\ UNCHANGED <<proactor_vars, egress_vars>>
     \/ part = "proactor" /\ ProactorNext /\ UNCHANGED <<vars, egress_vars>>
     \/ part = "egress" /\ EgressNext /\ UNCHANGED <<vars, proactor_vars>>

(* The fairness of the components: threads are scheduled, the kernel       *)
(* completes what it is given, and recv returns once its socket is shut    *)
(* down.                                                                   *)
NodeSpec ==
  /\ NodeInit /\ [][NodeNext]_node
  /\ \A p \in Producer : WF_vars(part = "queue" /\ try_emplace_impl(p))
  /\ \A c \in Consumer : WF_vars(part = "queue" /\ try_pop(c))
  /\ WF_proactor_vars(part = "proactor" /\ Pushers)
  /\ WF_proactor_vars(part = "proactor" /\ Kernel)
  /\ WF_proactor_vars(part = "proactor" /\ LoopStep)
  /\ WF_egress_vars(part = "egress" /\ LoopThread)
  /\ WF_egress_vars(part = "egress" /\ Stop)
  /\ \A s \in Socket : WF_egress_vars(part = "egress" /\ Reader(s))

-----------------------------------------------------------------------------
(* The other properties of the run are those of the components.            *)

(* Nobody waits for ever.  Every item of the queue is popped, though both  *)
(* sides retry.  Every request of ProactorThread gets its callback, unless *)
(* it could not be submitted or the loop ends, and once stop was called    *)
(* the loop ends.  TcpEgress::stop joins all readers, however silent the   *)
(* target is, if no stream id was used twice.                              *)
Owed == part = "egress" => MustStop
Done ==
  /\ part = "queue" => received = Value
  /\ part = "proactor" =>
       /\ \A r \in Request : Settled(r)
       /\ stop_called => loop_pc = "exited"
  /\ part = "egress" => stopper.at = "stopped"
NobodyWaitsForever == Owed ~> Done
=============================================================================
