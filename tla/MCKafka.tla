------------------------------ MODULE MCKafka -------------------------------
(***************************************************************************)
(* Small instances of the components around Kafka, side by side: part says *)
(* which of them a behaviour is about.  The edge pipeline then stays as it *)
(* starts, and the variables of the other components stay "off".           *)
(***************************************************************************)
EXTENDS EdgePipeline, Sequences

CONSTANTS r1, w1, w2, i1, i2, d1, d2

VARIABLES
  part, position, committed, at, faults, marked, sent, excused,
  batch, base, files, hint, crashes, owner, msg, row, upserted

broadcast == <<marked, sent, excused>>
storage == <<batch, base, files, hint, crashes>>
business == <<owner, msg, row, upserted>>
all == <<part, vars, position, committed, at, faults, broadcast, storage, business>>

-----------------------------------------------------------------------------
(* The instances *)

(* Two nodes write two messages, one of them without an id, through one    *)
(* Redis.                                                                  *)
MCStoreOf == [n \in Node |-> r1]

Broadcast == INSTANCE KafkaBroadcast WITH
  Offsets <- 4, MaxFaults <- 4,
  Faults <- {"unrecorded", "reply_lost", "no_peers", "commit_failed", "restart"},
  seen <- marked

(* Only valid messages, and no crash between a metadata file and the hint. *)
Stored == INSTANCE StorageService WITH
  Writer <- {w1}, Offsets <- 4, Valid <- {w1} \X (1..4), BatchMax <- 2, Names <- 1..3,
  MaxCrashes <- 1, TornCommits <- FALSE

(* Crashes anywhere, and a message that cannot be parsed. *)
Table == INSTANCE StorageService WITH
  Writer <- {w1}, Offsets <- 4, Valid <- {w1} \X {1, 3, 4}, BatchMax <- 2, Names <- 1..3,
  MaxCrashes <- 2, TornCommits <- TRUE

(* Two instances append to one table. *)
Two == INSTANCE StorageService WITH
  Writer <- {w1, w2}, Offsets <- 2, Valid <- {w1, w2} \X {1}, BatchMax <- 2, Names <- 1..3,
  MaxCrashes <- 1, TornCommits <- TRUE

(* One instance of business_service, and a group of two. *)
Alternating == [o \in 1..5 |-> IF o % 2 = 1 THEN d1 ELSE d2]
One == INSTANCE BusinessService WITH
  Instance <- {i1}, Device <- {d1, d2}, Offsets <- 5, DeviceOf <- Alternating, Invalid <- {5},
  MaxFaults <- 3
Group == INSTANCE BusinessService WITH
  Instance <- {i1, i2}, Device <- {d1, d2}, Offsets <- 5, DeviceOf <- Alternating, Invalid <- {5},
  MaxFaults <- 3

ASSUME InstancesAssumption ==
  /\ Constants /\ Broadcast!Constants
  /\ Stored!Constants /\ Table!Constants /\ Two!Constants
  /\ One!Constants /\ Group!Constants

-----------------------------------------------------------------------------
BroadcastOff == marked = "off" /\ sent = "off" /\ excused = "off"
StorageOff == batch = "off" /\ base = "off" /\ files = "off" /\ hint = "off" /\ crashes = "off"
BusinessOff == owner = "off" /\ msg = "off" /\ row = "off" /\ upserted = "off"

KafkaInit ==
  /\ Init
  /\ \/ /\ part = "edge"
        /\ position = "off" /\ committed = "off" /\ at = "off" /\ faults = "off"
        /\ BroadcastOff /\ StorageOff /\ BusinessOff
     \/ part = "broadcast" /\ Broadcast!Init /\ StorageOff /\ BusinessOff
     \/ /\ \/ part = "stored" /\ Stored!Init
           \/ part = "table" /\ Table!Init
           \/ part = "two" /\ Two!Init
        /\ faults = "off" /\ BroadcastOff /\ BusinessOff
     \/ /\ \/ part = "one" /\ One!Init
           \/ part = "group" /\ Group!Init
        /\ BroadcastOff /\ StorageOff

InEdge == part = "edge" /\ UNCHANGED <<part, position, committed, at, faults, broadcast, storage, business>>
InBroadcast == part = "broadcast" /\ UNCHANGED <<part, vars, storage, business>>
InStorage(p) == part = p /\ UNCHANGED <<part, vars, faults, broadcast, business>>
InBusiness(p) == part = p /\ UNCHANGED <<part, vars, broadcast, storage>>

KafkaNext ==
  \/ InEdge /\ Next
  \/ InBroadcast /\ Broadcast!Next
  \/ InStorage("stored") /\ Stored!Next
  \/ InStorage("table") /\ Table!Next
  \/ InStorage("two") /\ Two!Next
  \/ InBusiness("one") /\ One!Next
  \/ InBusiness("group") /\ Group!Next

(* The fairness of the components: a process keeps running, and is started *)
(* again when it has ended.                                                *)
KafkaSpec ==
  /\ KafkaInit /\ [][KafkaNext]_all
  /\ WF_all(InBroadcast /\ Broadcast!run)
  /\ WF_all(InStorage("stored") /\ Stored!Run(w1))
  /\ WF_all(InBusiness("one") /\ One!Loop(i1))

-----------------------------------------------------------------------------
(* Properties.  The components' own properties, each for the instances     *)
(* whose inputs and faults it is about; LossNeedsFault is that of          *)
(* EdgePipeline.                                                           *)

(* Types of the part that runs. *)
Types ==
  /\ TypeOK
  /\ part = "broadcast" => Broadcast!TypeOK
  /\ part = "stored" => Stored!TypeOK
  /\ part = "table" => Table!TypeOK
  /\ part = "two" => Two!TypeOK
  /\ part = "one" => One!TypeOK
  /\ part = "group" => Group!TypeOK

(* How often a message may take effect.  Nodes that share a Redis write    *)
(* one copy to Kafka, and one more for each failure of Redis that hid a    *)
(* mark; KafkaBroadcastSource broadcasts it once, however often it is      *)
(* consumed; storage_service appends it once, and once more for each crash,*)
(* and the catalog's hint names a version that has a metadata file, also   *)
(* when two instances write.                                               *)
CopiesBounded ==
  /\ Types
  /\ CopiesNeedFault
  /\ part = "broadcast" => Broadcast!CopiesBounded
  /\ part = "table" => Table!CopiesBounded /\ Table!HintHasFile
  /\ part = "stored" => Stored!HintHasFile
  /\ part = "two" => Two!HintHasFile

(* A consumer commits an offset only after the work it stands for.  Below  *)
(* the committed offset, KafkaBroadcastSource has broadcast every message  *)
(* that no fault hit, storage_service has every message in the table (if   *)
(* all are valid and no crash tears a commit of the catalog), and          *)
(* business_service has every message in MySQL, also across a rebalance.   *)
CommittedIsDone ==
  /\ part = "broadcast" => Broadcast!CommittedIsDone
  /\ part = "stored" => Stored!CommittedIsDone
  /\ part \in {"one", "group"} => Group!CommittedIsDone

(* What was written is not taken back by what is delivered again: no row   *)
(* leaves the table of one storage_service, whichever of several metadata  *)
(* files of a version the catalog picks, and no timestamp in the MySQL of  *)
(* one business_service decreases.                                         *)
NothingTakenBack ==
  [][/\ part = "table" => Table!NothingTakenBack
     /\ part = "one" => One!NothingTakenBack]_all

(* Every message is dealt with in the end: broadcast, or hit by a fault;   *)
(* in the table and to stay there; in MySQL, if it comes before the first  *)
(* invalid one.                                                            *)
EventuallyDone ==
  \A o \in 1..4 :
    /\ <>(part = "broadcast" => Broadcast!DealtWith(o))
    /\ <>[](part = "stored" => Stored!InTable(<<w1, o>>))
    /\ <>(part = "one" => o \in upserted)
=============================================================================
