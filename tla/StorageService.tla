--------------------------- MODULE StorageService ---------------------------
(***************************************************************************)
(* storage_service: consumers of a topic that collect messages in batches  *)
(* (internal/storage/service.go) and append each to an Iceberg table whose *)
(* catalog is a directory of metadata files and a version hint in an       *)
(* object store (internal/icebergcatalog/catalog.go).                      *)
(*                                                                         *)
(* Each instance reads one partition.  A metadata file is its version, its *)
(* random name and the rows of its snapshot.  An error ends the process,   *)
(* as a crash does: it starts again from the committed offset.             *)
(***************************************************************************)
EXTENDS Integers, FiniteSets, FiniteSetsExt

CONSTANTS
  Writer,       \* instances of the service, each with its partition
  Offsets,      \* number of messages in a partition
  Valid,        \* the messages that can be parsed
  BatchMax,     \* batch_max_messages
  Names,        \* the random names of metadata files, in their order
  MaxCrashes,   \* bound on the number of crashes
  TornCommits   \* may a crash fall between a metadata file and the hint?

Offset == 1..Offsets
Message == Writer \X Offset

(* What the constants are assumed to be. *)
Constants ==
  /\ Offsets \in Nat
  /\ Valid \subseteq Message
  /\ BatchMax \in Nat \ {0}
  /\ Names \subseteq Nat
  /\ MaxCrashes \in Nat
  /\ TornCommits \in BOOLEAN

VARIABLES
  position,   \* last offset fetched
  committed,  \* last offset committed
  batch,      \* the offsets of the batch
  at,         \* what each instance does next
  base,       \* the metadata file a table or an update is based on
  files,      \* the metadata files
  hint,       \* the version hint
  crashes     \* number of crashes so far

vars == <<position, committed, batch, at, base, files, hint, crashes>>

None == [v |-> -1, name |-> 0, rows |-> [m \in Message |-> 0]]
Steps == {"fetch", "skip", "load", "create_hint", "commit", "write", "write_hint", "commit_offsets"}

Init ==
  /\ position = [w \in Writer |-> 0]
  /\ committed = [w \in Writer |-> 0]
  /\ batch = [w \in Writer |-> {}]
  /\ at = [w \in Writer |-> "fetch"]
  /\ base = [w \in Writer |-> None]
  /\ files = {}
  /\ hint = -1
  /\ crashes = 0

At(w, step) == at[w] = step
Go(w, step) == at' = [at EXCEPT ![w] = step]

-----------------------------------------------------------------------------
(* Run *)

(* shouldFlush, on the number of messages *)
shouldFlush(b) == Cardinality(b) >= BatchMax

FetchMessage(w) ==
  LET o == position[w] + 1
      b == batch[w] \cup {o}
  IN
  /\ At(w, "fetch")
  /\ o \in Offset
  /\ position' = [position EXCEPT ![w] = o]
  /\ IF <<w, o>> \in Valid
     THEN /\ batch' = [batch EXCEPT ![w] = b]
          /\ IF shouldFlush(b) THEN Go(w, "load") ELSE UNCHANGED at
     ELSE Go(w, "skip") /\ UNCHANGED batch
  /\ UNCHANGED <<committed, base, files, hint, crashes>>

FlushInterval(w) ==
  /\ At(w, "fetch")
  /\ batch[w] # {}
  /\ Go(w, "load")
  /\ UNCHANGED <<position, committed, batch, base, files, hint, crashes>>

(* An invalid message is committed at once, whatever is in the batch. *)
CommitSkipped(w) ==
  /\ At(w, "skip")
  /\ committed' = [committed EXCEPT ![w] = position[w]]
  /\ Go(w, "fetch")
  /\ UNCHANGED <<position, batch, base, files, hint, crashes>>

CommitBatch(w) ==
  /\ At(w, "commit_offsets")
  /\ committed' = [committed EXCEPT ![w] = Max(batch[w])]
  /\ batch' = [batch EXCEPT ![w] = {}]
  /\ Go(w, "fetch")
  /\ UNCHANGED <<position, base, files, hint, crashes>>

-----------------------------------------------------------------------------
(* The catalog *)

(* currentMetadataLocation: of the files with the version of the hint, the *)
(* first in the order of their names.                                      *)
Current ==
  IF hint = -1 THEN None
  ELSE LET fs == {f \in files : f.v = hint}
       IN  CHOOSE f \in fs : \A g \in fs : f.name <= g.name

NewFile(v, rows) ==
  {[v |-> v, name |-> n, rows |-> rows] :
     n \in {k \in Names : \A f \in files : f.v = v => f.name # k}}

(* CreateOrLoadTable; a new table has no rows. *)
CreateOrLoadTable(w) ==
  /\ At(w, "load")
  /\ IF hint = -1
     THEN \E f \in NewFile(0, None.rows) :
            /\ files' = files \cup {f}
            /\ base' = [base EXCEPT ![w] = f]
            /\ Go(w, "create_hint")
     ELSE /\ base' = [base EXCEPT ![w] = Current]
          /\ Go(w, "commit")
          /\ UNCHANGED files
  /\ UNCHANGED <<position, committed, batch, hint, crashes>>

CreateHint(w) ==
  /\ At(w, "create_hint")
  /\ hint' = 0
  /\ Go(w, "commit")
  /\ UNCHANGED <<position, committed, batch, base, files, crashes>>

(* CommitTable: it loads the table again and checks the requirements, the  *)
(* table's identity and the snapshot the append started from; the process  *)
(* ends if they do not hold.                                               *)
LoadForCommit(w) ==
  /\ At(w, "commit")
  /\ base[w] = Current
  /\ Go(w, "write")
  /\ UNCHANGED <<position, committed, batch, base, files, hint, crashes>>

(* Mutant: the update starts from an empty table. *)
Appended_Alone(w) == [m \in Message |-> IF m[1] = w /\ m[2] \in batch[w] THEN 1 ELSE 0]

Appended(w) ==
  [m \in Message |-> base[w].rows[m] + IF m[1] = w /\ m[2] \in batch[w] THEN 1 ELSE 0]

WriteMetadata(w) ==
  /\ At(w, "write")
  /\ \E f \in NewFile(base[w].v + 1, Appended(w)) :
       files' = files \cup {f} /\ base' = [base EXCEPT ![w] = f]
  /\ Go(w, "write_hint")
  /\ UNCHANGED <<position, committed, batch, hint, crashes>>

WriteHint(w) ==
  /\ At(w, "write_hint")
  /\ hint' = base[w].v
  /\ Go(w, "commit_offsets")
  /\ UNCHANGED <<position, committed, batch, base, files, crashes>>

-----------------------------------------------------------------------------
(* Mutant: reading goes on behind the last message fetched. *)
Restart_Skips(w) ==
  /\ batch' = [batch EXCEPT ![w] = {}]
  /\ base' = [base EXCEPT ![w] = None]
  /\ Go(w, "fetch")
  /\ UNCHANGED position

(* A crash, or an error, which ends the process; it is started again.      *)
Restart(w) ==
  /\ position' = [position EXCEPT ![w] = committed[w]]
  /\ batch' = [batch EXCEPT ![w] = {}]
  /\ base' = [base EXCEPT ![w] = None]
  /\ Go(w, "fetch")

Crash(w) ==
  /\ crashes < MaxCrashes
  /\ crashes' = crashes + 1
  /\ TornCommits \/ at[w] \notin {"create_hint", "write_hint"}
  /\ Restart(w)
  /\ UNCHANGED <<committed, files, hint>>

(* The table that is loaded is not the one the append started from. *)
CommitRefused(w) ==
  /\ At(w, "commit")
  /\ base[w] # Current
  /\ Restart(w)
  /\ UNCHANGED <<committed, files, hint, crashes>>

Run(w) ==
  \/ FetchMessage(w) \/ FlushInterval(w) \/ CommitSkipped(w) \/ CommitBatch(w)
  \/ CreateOrLoadTable(w) \/ CreateHint(w)
  \/ LoadForCommit(w) \/ CommitRefused(w) \/ WriteMetadata(w) \/ WriteHint(w)

Next == \E w \in Writer : Run(w) \/ Crash(w)

Spec == Init /\ [][Next]_vars
FairSpec == Spec /\ \A w \in Writer : WF_vars(Run(w))

-----------------------------------------------------------------------------
(* Properties *)

(* Types; a batch holds offsets that were fetched. *)
TypeOK ==
  /\ position \in [Writer -> 0..Offsets]
  /\ committed \in [Writer -> 0..Offsets]
  /\ \A w \in Writer : batch[w] \subseteq 1..position[w]
  /\ at \in [Writer -> Steps]
  /\ \A f \in files \cup {base[w] : w \in Writer} :
       f.v \in -1..Offsets * Cardinality(Writer) * (1 + MaxCrashes) /\ f.rows \in [Message -> Nat]
  /\ hint \in Int
  /\ crashes \in 0..MaxCrashes

(* The version in the hint always has a metadata file: no load fails with  *)
(* "metadata version not found", though hint and file are two writes.      *)
HintHasFile == hint >= 0 => \E f \in files : f.v = hint

(* No row ever disappears from the table, whichever of several files of a  *)
(* version the catalog picks.                                              *)
NothingTakenBack == \A m \in Message : Current'.rows[m] >= Current.rows[m]

(* A message is in the table once, and once more for each crash at most.   *)
CopiesBounded == \A m \in Message : Current.rows[m] <= 1 + crashes

InTable(m) == Current.rows[m] > 0

(* A valid message whose offset is covered by the committed offset is in   *)
(* the table.                                                              *)
CommittedIsDone ==
  \A m \in Valid : m[2] <= committed[m[1]] => InTable(m)

(* Every valid message gets into the table in the end. *)
EventuallyStored == \A m \in Valid : <>[]InTable(m)
=============================================================================
