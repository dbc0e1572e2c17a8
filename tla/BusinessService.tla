-------------------------- MODULE BusinessService --------------------------
(***************************************************************************)
(* business_service: a consumer group that takes one message at a time,    *)
(* writes the timestamp of its device to MySQL and commits its offset      *)
(* (service/kafka_message_service.go).                                     *)
(*                                                                         *)
(* One partition, owned by one instance of the group at a time.  Offsets   *)
(* stand for the timestamps.  Any error ends the process, which is started *)
(* again and resumes at the committed offset.                              *)
(***************************************************************************)
EXTENDS Integers, FiniteSets

CONSTANTS
  Instance,   \* instances in the consumer group
  Device,
  Offsets,    \* number of messages in the partition
  DeviceOf,   \* the device of each message
  Invalid,    \* messages that cannot be parsed
  MaxFaults   \* bound on errors, crashes and rebalances

Offset == 1..Offsets

(* What the constants are assumed to be. *)
Constants ==
  /\ Offsets \in Nat
  /\ DeviceOf \in [Offset -> Device]
  /\ Invalid \subseteq Offset
  /\ MaxFaults \in Nat

VARIABLES
  owner,      \* the instance the partition is assigned to
  position,   \* last offset the owner's reader has returned
  committed,  \* last committed offset
  at,         \* what each instance does next
  msg,        \* the message it works on
  row,        \* proxy_served_device: the timestamp of each device, 0 if none
  upserted,   \* history: messages that were written
  faults

vars == <<owner, position, committed, at, msg, row, upserted, faults>>

Init ==
  /\ owner \in Instance
  /\ position = 0
  /\ committed = 0
  /\ at = [i \in Instance |-> "fetch"]
  /\ msg = [i \in Instance |-> 0]
  /\ row = [d \in Device |-> 0]
  /\ upserted = {}
  /\ faults = 0

Go(i, step) == at' = [at EXCEPT ![i] = step]

FetchMessage(i) ==
  /\ at[i] = "fetch"
  /\ owner = i
  /\ position < Offsets
  /\ position' = position + 1
  /\ msg' = [msg EXCEPT ![i] = position + 1]
  /\ Go(i, IF position + 1 \in Invalid THEN "failed" ELSE "upsert")
  /\ UNCHANGED <<owner, committed, row, upserted, faults>>

UpsertProxyServedDevice(i) ==
  /\ at[i] = "upsert"
  /\ row' = [row EXCEPT ![DeviceOf[msg[i]]] = msg[i]]
  /\ upserted' = upserted \cup {msg[i]}
  /\ Go(i, "commit")
  /\ UNCHANGED <<owner, position, committed, msg, faults>>

(* Mutant: the message behind the one written is committed. *)
CommitMessage_Next(i) ==
  /\ at[i] = "commit"
  /\ committed' = IF msg[i] < Offsets THEN msg[i] + 1 ELSE msg[i]
  /\ Go(i, "fetch")
  /\ UNCHANGED <<owner, position, msg, row, upserted, faults>>

CommitMessage(i) ==
  /\ at[i] = "commit"
  /\ committed' = msg[i]
  /\ Go(i, "fetch")
  /\ UNCHANGED <<owner, position, msg, row, upserted, faults>>

(* An error or a crash; a failed commit may have reached the broker. *)
Fail(i) ==
  /\ faults < MaxFaults
  /\ faults' = faults + 1
  /\ at[i] # "failed"
  /\ \/ UNCHANGED committed
     \/ at[i] = "commit" /\ committed' = msg[i]
  /\ Go(i, "failed")
  /\ UNCHANGED <<owner, position, msg, row, upserted>>

(* Loop returned the error, main ended; the process starts again. *)
Restart(i) ==
  /\ at[i] = "failed"
  /\ Go(i, "fetch")
  /\ msg' = [msg EXCEPT ![i] = 0]
  /\ position' = IF owner = i THEN committed ELSE position
  /\ UNCHANGED <<owner, committed, row, upserted, faults>>

(* The group assigns the partition to another instance; the old owner is   *)
(* not told before it has finished the message it works on.                *)
Rebalance(i) ==
  /\ faults < MaxFaults
  /\ faults' = faults + 1
  /\ owner # i
  /\ owner' = i
  /\ position' = committed
  /\ UNCHANGED <<committed, at, msg, row, upserted>>

Loop(i) ==
  FetchMessage(i) \/ UpsertProxyServedDevice(i) \/ CommitMessage(i) \/ Restart(i)

Next == \E i \in Instance : Loop(i) \/ Fail(i) \/ Rebalance(i)

Spec == Init /\ [][Next]_vars

-----------------------------------------------------------------------------
(* Properties *)

(* Types; an instance that writes or commits has a valid message. *)
TypeOK ==
  /\ owner \in Instance
  /\ position \in 0..Offsets
  /\ committed \in 0..Offsets
  /\ at \in [Instance -> {"fetch", "upsert", "commit", "failed"}]
  /\ \A i \in Instance : at[i] \in {"upsert", "commit"} => msg[i] \in Offset \ Invalid
  /\ row \in [Device -> 0..Offsets]
  /\ upserted \subseteq Offset
  /\ faults \in 0..MaxFaults

(* Every message covered by the committed offset was written to MySQL,     *)
(* whatever fails and whoever owns the partition: the offset is committed  *)
(* after the upsert.                                                       *)
CommittedIsDone == 1..committed \subseteq upserted

(* No timestamp in MySQL decreases.  (With one instance: a message that is *)
(* read again was the last one written.)                                   *)
NothingTakenBack == \A d \in Device : row'[d] >= row[d]
=============================================================================
