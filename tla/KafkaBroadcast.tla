--------------------------- MODULE KafkaBroadcast ---------------------------
(***************************************************************************)
(* KafkaBroadcastSource (iota_proxy/src/business) with the sender that     *)
(* ProxyRuntime gives it: messages of a topic are marked in Redis and sent *)
(* to the peers, and their offsets are committed by hand.  One consumer    *)
(* reads one partition, whose messages are their offsets.                  *)
(***************************************************************************)
EXTENDS Integers

CONSTANTS
  Offsets,     \* number of messages in the partition
  Faults,      \* the faults that happen
  MaxFaults    \* bound on their number

(* Redis could not be asked, or could not answer; the reply to SET NX was  *)
(* lost, so that the second attempt took the message for a duplicate; no   *)
(* peer is linked; the commit failed; the process was restarted.           *)
Fault == {"unrecorded", "reply_lost", "no_peers", "commit_failed", "restart"}

(* What the constants are assumed to be. *)
Constants ==
  /\ Offsets \in Nat
  /\ Faults \subseteq Fault
  /\ MaxFaults \in Nat

Message == 1..Offsets

VARIABLES
  position,   \* last message the consumer was given
  committed,  \* last message committed
  seen,       \* the seen: keys
  at,         \* what the worker does next with the message at position
  sent,       \* number of times each message was broadcast
  excused,    \* the messages hit by a fault that may keep them from being sent
  faults      \* number of faults so far

vars == <<position, committed, seen, at, sent, excused, faults>>

Init ==
  /\ position = 0
  /\ committed = 0
  /\ seen = {}
  /\ at = "poll"
  /\ sent = [m \in Message |-> 0]
  /\ excused = {}
  /\ faults = 0

Inject(f) == f \in Faults /\ faults < MaxFaults /\ faults' = faults + 1
Excuse(f) == Inject(f) /\ excused' = excused \cup {position}

Poll ==
  /\ at = "poll"
  /\ position < Offsets
  /\ position' = position + 1
  /\ at' = "record"
  /\ UNCHANGED <<committed, seen, sent, excused, faults>>

(* Mutant: a message that was seen is sent again. *)
record_kafka_message_Again ==
  /\ at = "record"
  /\ at' = "send"
  /\ seen' = seen \cup {position}
  /\ UNCHANGED <<position, committed, sent, excused, faults>>

(* A message that is new is sent next; a duplicate counts as processed; a  *)
(* failure leaves the message uncommitted, and the worker goes on.         *)
record_kafka_message ==
  /\ at = "record"
  /\ \/ /\ at' = IF position \in seen THEN "commit" ELSE "send"
        /\ seen' = seen \cup {position}
        /\ UNCHANGED <<excused, faults>>
     \/ Excuse("reply_lost") /\ at' = "commit" /\ seen' = seen \cup {position}
     \/ Excuse("unrecorded") /\ at' = "poll" /\ seen' \in {seen, seen \cup {position}}
  /\ UNCHANGED <<position, committed, sent>>

broadcast_frame ==
  /\ at = "send"
  /\ \/ /\ sent' = [sent EXCEPT ![position] = @ + 1]
        /\ at' = "commit"
        /\ UNCHANGED <<excused, faults>>
     \/ Excuse("no_peers") /\ at' = "poll" /\ UNCHANGED sent
  /\ UNCHANGED <<position, committed, seen>>

commit_message ==
  /\ at = "commit"
  /\ at' = "poll"
  /\ \/ committed' = position /\ UNCHANGED faults
     \/ Inject("commit_failed") /\ UNCHANGED committed
  /\ UNCHANGED <<position, seen, sent, excused>>

(* Consuming resumes after what was committed.  Only a restart between the *)
(* mark and the broadcast can cost a message.                              *)
Restart ==
  /\ Inject("restart")
  /\ position' = committed
  /\ at' = "poll"
  /\ excused' = IF at = "send" THEN excused \cup {position} ELSE excused
  /\ UNCHANGED <<committed, seen, sent>>

run == Poll \/ record_kafka_message \/ broadcast_frame \/ commit_message

Next == run \/ Restart

Spec == Init /\ [][Next]_vars

-----------------------------------------------------------------------------
(* Properties *)

(* Types; nothing is committed that was not given out. *)
TypeOK ==
  /\ position \in 0..Offsets
  /\ committed \in 0..position
  /\ seen \subseteq Message
  /\ at \in {"poll", "record", "send", "commit"}
  /\ sent \in [Message -> Nat]
  /\ excused \subseteq Message
  /\ faults \in 0..MaxFaults

(* No message is broadcast twice, however often it is consumed again after *)
(* a restart or a failed commit.                                           *)
CopiesBounded == \A m \in Message : sent[m] <= 1

(* Sent, or hit by a fault. *)
DealtWith(m) == sent[m] = 1 \/ m \in excused

(* A message below the committed offset was broadcast, unless a fault hit  *)
(* that very message: a commit does cover the messages before it that the  *)
(* worker left uncommitted, and these are lost, but no others.             *)
CommittedIsDone == \A m \in 1..committed : DealtWith(m)
=============================================================================
