--------------------------- MODULE StorageProofs ----------------------------
(***************************************************************************)
(* Proofs about storage_service: what the catalog's two writes, the files  *)
(* they leave behind and the order of update and commit guarantee, for any *)
(* number of instances where the theorem names no other.                   *)
(***************************************************************************)
EXTENDS StorageService, TLAPS

-----------------------------------------------------------------------------
(* Any number of instances *)

File == [v : Int, name : Int, rows : [Message -> Nat]]

StorageTypes ==
  /\ position \in [Writer -> Nat]
  /\ committed \in [Writer -> Nat]
  /\ batch \in [Writer -> SUBSET Offset]
  /\ at \in [Writer -> Steps]
  /\ base \in [Writer -> File]
  /\ files \in SUBSET File
  /\ hint \in Int
  /\ crashes \in Nat

(* A version that has files has a first one, in the order of their names.  *)
First(f) == f \in files /\ \A g \in files : g.v = f.v => f.name <= g.name
HasFirst == \A f \in files : \E g \in files : g.v = f.v /\ First(g)

(* The hint names a version that has files, and so does the one an         *)
(* instance is about to write.                                             *)
HintInv ==
  /\ HintHasFile
  /\ hint >= -1
  /\ HasFirst
  /\ \A f \in files : f.v >= 0
  /\ \A w \in Writer :
       /\ base[w].v >= -1
       /\ at[w] = "create_hint" => base[w] \in files /\ base[w].v = 0
       /\ at[w] = "write_hint" => base[w] \in files

(* A batch holds valid messages that were fetched; a valid message that    *)
(* was fetched and is in no batch is behind the committed offset, and      *)
(* ahead of the batch no message was left out.  A batch that is not empty  *)
(* has a last message.                                                     *)
BatchInv ==
  \A w \in Writer :
    /\ \A o \in batch[w] : o <= position[w] /\ <<w, o>> \in Valid
    /\ batch[w] # {} => \E o \in batch[w] : \A p \in batch[w] : o >= p
    /\ at[w] \notin {"fetch", "skip"} => batch[w] # {}
    /\ \A o \in Offset :
         <<w, o>> \in Valid /\ o <= position[w] /\ o \notin batch[w] =>
           o <= committed[w] /\ \A p \in batch[w] : o < p

(* The empty table an instance starts from has the type of a metadata      *)
(* file.                                                                   *)
LEMMA NoneIsFile == None \in File
  BY DEF None, File

(* What currentMetadataLocation finds. *)
LEMMA CurrentFound ==
  ASSUME HintInv, StorageTypes
  PROVE  /\ hint = -1 => Current = None
         /\ hint # -1 => Current \in files /\ Current.v = hint
         /\ Current \in File
<1>1. CASE hint = -1
  BY <1>1, NoneIsFile DEF Current
<1>2. CASE hint # -1
  <2> DEFINE fs == {f \in files : f.v = hint}
  <2>1. PICK f \in files : f.v = hint
    BY <1>2 DEF HintInv, StorageTypes, HintHasFile
  <2>2. \E g \in fs : \A h \in fs : g.name <= h.name
    BY <2>1 DEF HintInv, HasFirst, First
  <2>3. Current = CHOOSE g \in fs : \A h \in fs : g.name <= h.name
    BY <1>2 DEF Current
  <2>4. Current \in fs
    BY <2>2, <2>3
  <2> QED
    BY <1>2, <2>4 DEF StorageTypes
<1> QED
  BY <1>1, <1>2

(* A metadata file that is written has the version and the rows it was     *)
(* given.                                                                  *)
LEMMA NewFileTypes ==
  ASSUME Constants, NEW v \in Int, NEW rows \in [Message -> Nat],
         NEW f \in NewFile(v, rows)
  PROVE  f \in File /\ f.v = v /\ f.rows = rows
  BY DEF NewFile, File, Constants

(* An update has a count of rows for every message. *)
LEMMA AppendedTypes ==
  ASSUME StorageTypes, NEW w \in Writer
  PROVE  Appended(w) \in [Message -> Nat]
<1>1. base[w].rows \in [Message -> Nat]
  BY DEF StorageTypes, File
<1> QED
  BY <1>1 DEF Appended

(* The service starts with no batch, no file and no hint. *)
LEMMA StorageInit == Constants /\ Init => StorageTypes /\ HintInv /\ BatchInv
<1> SUFFICES ASSUME Constants, Init
             PROVE  StorageTypes /\ HintInv /\ BatchInv
  OBVIOUS
<1> USE DEF Init
<1>1. StorageTypes
  BY NoneIsFile DEF StorageTypes, Steps
<1>2. HintInv
  BY DEF HintInv, HintHasFile, HasFirst, None
<1>3. BatchInv
  BY DEF BatchInv, Offset
<1> QED
  BY <1>1, <1>2, <1>3

(* Max picks the last message of a batch that is not empty. *)
LEMMA LastOfBatch ==
  ASSUME BatchInv, StorageTypes, NEW w \in Writer, batch[w] # {}
  PROVE  /\ Max(batch[w]) \in batch[w]
         /\ Max(batch[w]) \in Nat
         /\ \A o \in batch[w] : Max(batch[w]) >= o
<1>1. \E o \in batch[w] : \A p \in batch[w] : o >= p
  BY DEF BatchInv
<1>2. batch[w] \subseteq Nat
  BY DEF StorageTypes, Offset
<1> QED
  BY <1>1, <1>2 DEF Max

(* Every step of the service and every crash keep the types. *)
LEMMA StorageTypesStep ==
  ASSUME Constants, StorageTypes, HintInv, BatchInv, [Next]_vars
  PROVE  StorageTypes'
<1> USE DEF StorageTypes, Steps, Go, At
<1>1. ASSUME NEW w \in Writer, FetchMessage(w) PROVE StorageTypes'
  BY <1>1 DEF FetchMessage, Offset, Constants
<1>2. ASSUME NEW w \in Writer, FlushInterval(w) PROVE StorageTypes'
  BY <1>2 DEF FlushInterval
<1>3. ASSUME NEW w \in Writer, CommitSkipped(w) PROVE StorageTypes'
  BY <1>3 DEF CommitSkipped
<1>4. ASSUME NEW w \in Writer, CommitBatch(w) PROVE StorageTypes'
  <2>1. batch[w] # {}
    BY <1>4 DEF CommitBatch, BatchInv
  <2>2. Max(batch[w]) \in Nat
    BY <2>1, LastOfBatch
  <2> QED
    BY <1>4, <2>2 DEF CommitBatch
<1>5. ASSUME NEW w \in Writer, CreateOrLoadTable(w) PROVE StorageTypes'
  <2>1. CASE hint = -1
    <3>1. PICK f \in NewFile(0, None.rows) :
            /\ files' = files \cup {f}
            /\ base' = [base EXCEPT ![w] = f]
            /\ Go(w, "create_hint")
      BY <1>5, <2>1 DEF CreateOrLoadTable
    <3>2. f \in File
      BY NewFileTypes DEF None
    <3> QED
      BY <1>5, <3>1, <3>2 DEF CreateOrLoadTable
  <2>2. CASE hint # -1
    BY <1>5, <2>2, CurrentFound DEF CreateOrLoadTable
  <2> QED
    BY <2>1, <2>2
<1>6. ASSUME NEW w \in Writer, CreateHint(w) PROVE StorageTypes'
  BY <1>6 DEF CreateHint
<1>7. ASSUME NEW w \in Writer, LoadForCommit(w) PROVE StorageTypes'
  BY <1>7 DEF LoadForCommit
<1>8. ASSUME NEW w \in Writer, CommitRefused(w) PROVE StorageTypes'
  BY <1>8, NoneIsFile DEF CommitRefused, Restart
<1>9. ASSUME NEW w \in Writer, WriteMetadata(w) PROVE StorageTypes'
  <2>1. PICK f \in NewFile(base[w].v + 1, Appended(w)) :
          files' = files \cup {f} /\ base' = [base EXCEPT ![w] = f]
    BY <1>9 DEF WriteMetadata
  <2>2. base[w].v + 1 \in Int
    BY DEF File
  <2>3. f \in File
    BY <2>2, NewFileTypes, AppendedTypes
  <2> QED
    BY <1>9, <2>1, <2>3 DEF WriteMetadata
<1>10. ASSUME NEW w \in Writer, WriteHint(w) PROVE StorageTypes'
  BY <1>10 DEF WriteHint, File
<1>11. ASSUME NEW w \in Writer, Crash(w) PROVE StorageTypes'
  BY <1>11, NoneIsFile DEF Crash, Restart
<1>12. CASE UNCHANGED vars
  BY <1>12 DEF vars
<1> QED
  BY <1>1, <1>2, <1>3, <1>4, <1>5, <1>6, <1>7, <1>8, <1>9, <1>10, <1>11, <1>12
     DEF Next, Run

(* A new file comes first of its version or leaves the first one in place. *)
LEMMA HasFirstAdded ==
  ASSUME StorageTypes, HasFirst, NEW f \in File, files' = files \cup {f}
  PROVE  HasFirst'
<1> SUFFICES ASSUME NEW g \in files'
             PROVE  \E h \in files' : h.v = g.v /\ First(h)'
  BY DEF HasFirst
<1>1. \A x \in files' : x.v \in Int /\ x.name \in Int
  BY DEF StorageTypes, File
<1>2. CASE \E h \in files : h.v = g.v
  <2>1. PICK h \in files : h.v = g.v /\ \A x \in files : x.v = h.v => h.name <= x.name
    BY <1>2 DEF HasFirst, First
  <2>2. CASE f.v = g.v /\ f.name < h.name
    BY <1>1, <2>1, <2>2 DEF First
  <2>3. CASE ~(f.v = g.v /\ f.name < h.name)
    BY <1>1, <2>1, <2>3 DEF First
  <2> QED
    BY <2>2, <2>3
<1>3. CASE ~\E h \in files : h.v = g.v
  BY <1>1, <1>3 DEF First
<1> QED
  BY <1>2, <1>3

(* The hint is only ever set to the version of a file that was written     *)
(* before: in CreateTable after the file of version 0, in CommitTable      *)
(* after the file of the update.                                           *)
LEMMA HintStep ==
  ASSUME Constants, StorageTypes, HintInv, [Next]_vars
  PROVE  HintInv'
<1> USE DEF Go, At
<1>0. ASSUME NEW w \in Writer, NEW step \in Steps, Go(w, step),
             step \notin {"create_hint", "write_hint"},
             UNCHANGED <<files, hint>>, base'[w].v >= -1,
             \A u \in Writer : u # w => base'[u] = base[u]
      PROVE  HintInv'
  BY <1>0 DEF HintInv, StorageTypes, HintHasFile, HasFirst, First
<1>1. ASSUME NEW w \in Writer, FetchMessage(w) PROVE HintInv'
  BY <1>1 DEF FetchMessage, HintInv, StorageTypes, HintHasFile, HasFirst, First
<1>2. ASSUME NEW w \in Writer, FlushInterval(w) PROVE HintInv'
  BY <1>0, <1>2 DEF FlushInterval, Steps, HintInv
<1>3. ASSUME NEW w \in Writer, CommitSkipped(w) PROVE HintInv'
  BY <1>0, <1>3 DEF CommitSkipped, Steps, HintInv
<1>4. ASSUME NEW w \in Writer, CommitBatch(w) PROVE HintInv'
  BY <1>0, <1>4 DEF CommitBatch, Steps, HintInv
<1>5. ASSUME NEW w \in Writer, CreateOrLoadTable(w) PROVE HintInv'
  <2>1. CASE hint = -1
    <3>1. PICK f \in NewFile(0, None.rows) :
            /\ files' = files \cup {f}
            /\ base' = [base EXCEPT ![w] = f]
            /\ Go(w, "create_hint")
            /\ hint' = hint
      BY <1>5, <2>1 DEF CreateOrLoadTable
    <3>2. f \in File /\ f.v = 0
      BY NewFileTypes DEF None
    <3>3. HasFirst'
      BY <3>1, <3>2, HasFirstAdded DEF HintInv
    <3> QED
      BY <2>1, <3>1, <3>2, <3>3 DEF HintInv, StorageTypes, HintHasFile
  <2>2. CASE hint # -1
    <3>1. base'[w].v >= -1
      BY <1>5, <2>2, CurrentFound DEF CreateOrLoadTable, StorageTypes, HintInv
    <3> QED
      BY <1>0, <1>5, <2>2, <3>1 DEF CreateOrLoadTable, Steps, StorageTypes
  <2> QED
    BY <2>1, <2>2
<1>6. ASSUME NEW w \in Writer, CreateHint(w) PROVE HintInv'
  BY <1>6 DEF CreateHint, HintInv, StorageTypes, HintHasFile, HasFirst, First
<1>7. ASSUME NEW w \in Writer, LoadForCommit(w) PROVE HintInv'
  BY <1>0, <1>7 DEF LoadForCommit, Steps, HintInv
<1>8. ASSUME NEW w \in Writer, CommitRefused(w) PROVE HintInv'
  <2>1. base' = [base EXCEPT ![w] = None] /\ UNCHANGED <<files, hint>>
    BY <1>8 DEF CommitRefused, Restart
  <2>2. base'[w].v >= -1 /\ \A u \in Writer : u # w => base'[u] = base[u]
    BY <2>1 DEF None, StorageTypes
  <2> QED
    BY <1>0, <1>8, <2>1, <2>2 DEF CommitRefused, Restart, Steps
<1>9. ASSUME NEW w \in Writer, WriteMetadata(w) PROVE HintInv'
  <2>1. PICK f \in NewFile(base[w].v + 1, Appended(w)) :
          files' = files \cup {f} /\ base' = [base EXCEPT ![w] = f]
    BY <1>9 DEF WriteMetadata
  <2>2. base[w].v \in Int /\ base[w].v + 1 \in Int
    BY DEF StorageTypes, File
  <2>3. f \in File /\ f.v = base[w].v + 1
    BY <2>2, NewFileTypes, AppendedTypes
  <2>4. HasFirst'
    BY <2>1, <2>3, HasFirstAdded DEF HintInv
  <2>5. f.v >= 0
    BY <2>2, <2>3, <1>9 DEF HintInv, WriteMetadata
  <2>6. HintHasFile' /\ hint' >= -1 /\ \A g \in files' : g.v >= 0
    BY <1>9, <2>1, <2>5 DEF WriteMetadata, HintInv, HintHasFile
  <2>7. \A u \in Writer : base'[u] = IF u = w THEN f ELSE base[u]
    BY <2>1 DEF StorageTypes
  <2>8. \A u \in Writer : at'[u] = IF u = w THEN "write_hint" ELSE at[u]
    BY <1>9 DEF StorageTypes, WriteMetadata
  <2>9. f.v >= -1
    BY <2>2, <2>3, <2>5
  <2> QED
    BY <2>1, <2>4, <2>6, <2>7, <2>8, <2>9 DEF HintInv
<1>10. ASSUME NEW w \in Writer, WriteHint(w) PROVE HintInv'
  BY <1>10 DEF WriteHint, HintInv, StorageTypes, HintHasFile, HasFirst, First
<1>11. ASSUME NEW w \in Writer, Crash(w) PROVE HintInv'
  <2>1. base' = [base EXCEPT ![w] = None] /\ UNCHANGED <<files, hint>>
    BY <1>11 DEF Crash, Restart
  <2>2. base'[w].v >= -1 /\ \A u \in Writer : u # w => base'[u] = base[u]
    BY <2>1 DEF None, StorageTypes
  <2> QED
    BY <1>0, <1>11, <2>1, <2>2 DEF Crash, Restart, Steps
<1>12. CASE UNCHANGED vars
  BY <1>12 DEF vars, HintInv, StorageTypes, HintHasFile, HasFirst, First
<1> QED
  BY <1>1, <1>2, <1>3, <1>4, <1>5, <1>6, <1>7, <1>8, <1>9, <1>10, <1>11, <1>12
     DEF Next, Run

(* Fetching goes in the order of the offsets and a batch is emptied only   *)
(* by the commit of its last offset or by a restart at the committed one;  *)
(* so no valid message is passed over.                                     *)
LEMMA BatchStep ==
  ASSUME Constants, StorageTypes, BatchInv, [Next]_vars
  PROVE  BatchInv'
<1> USE DEF Go, At
<1>0. ASSUME NEW w \in Writer, NEW step \in Steps, Go(w, step),
             step \notin {"fetch", "skip"} => batch[w] # {},
             UNCHANGED <<position, committed, batch>>
      PROVE  BatchInv'
  BY <1>0 DEF BatchInv, StorageTypes
<1>01. ASSUME NEW w \in Writer, Restart(w), UNCHANGED committed
       PROVE  BatchInv'
  BY <1>01 DEF BatchInv, StorageTypes, Restart, Offset
<1>1. ASSUME NEW w \in Writer, FetchMessage(w) PROVE BatchInv'
  <2> DEFINE o == position[w] + 1
  <2>1. /\ o \in Offset /\ position' = [position EXCEPT ![w] = o]
        /\ UNCHANGED committed
    BY <1>1 DEF FetchMessage
  <2>2. \A u \in Writer : position[u] \in Nat /\ batch[u] \subseteq Nat
    BY DEF StorageTypes, Offset
  <2>3. CASE <<w, o>> \in Valid
    <3>1. batch' = [batch EXCEPT ![w] = batch[w] \cup {o}]
      BY <1>1, <2>3 DEF FetchMessage
    <3>10. at' = at \/ at' = [at EXCEPT ![w] = "load"]
      BY <1>1, <2>3 DEF FetchMessage
    <3>2. \A u \in Writer : u # w => at'[u] = at[u]
      BY <3>10 DEF StorageTypes
    <3>3. \A u \in Writer : u # w => batch'[u] = batch[u] /\ position'[u] = position[u]
      BY <2>1, <3>1 DEF StorageTypes
    <3>4. batch'[w] = batch[w] \cup {o} /\ position'[w] = o
      BY <2>1, <3>1 DEF StorageTypes
    <3>5. \A p \in batch[w] : p < o
      <4>1. \A p \in batch[w] : p <= position[w]
        BY DEF BatchInv
      <4> QED
        BY <2>2, <4>1
    <3>6. \A p \in batch'[w] : p <= position'[w] /\ <<w, p>> \in Valid
      BY <2>2, <2>3, <3>4, <3>5 DEF BatchInv
    <3>7. \E p \in batch'[w] : \A q \in batch'[w] : p >= q
      BY <2>2, <3>4, <3>5
    <3>8. ASSUME NEW p \in Offset, <<w, p>> \in Valid, p <= position'[w], p \notin batch'[w]
          PROVE  p <= committed'[w] /\ \A q \in batch'[w] : p < q
      <4>1. p \in Nat /\ p # o /\ p <= position[w] /\ p \notin batch[w]
        BY <2>2, <3>4, <3>8 DEF Offset
      <4> QED
        BY <2>1, <2>2, <3>4, <3>8, <4>1 DEF BatchInv
    <3>9. batch'[w] # {}
      BY <3>4
    <3> QED
      BY <2>1, <3>2, <3>3, <3>6, <3>7, <3>8, <3>9 DEF BatchInv
  <2>4. CASE <<w, o>> \notin Valid
    <3>1. batch' = batch /\ at' = [at EXCEPT ![w] = "skip"]
      BY <1>1, <2>4 DEF FetchMessage
    <3>2. \A u \in Writer : at'[u] = IF u = w THEN "skip" ELSE at[u]
      BY <3>1 DEF StorageTypes
    <3>3. \A u \in Writer : u # w => position'[u] = position[u]
      BY <2>1 DEF StorageTypes
    <3>4. position'[w] = o
      BY <2>1 DEF StorageTypes
    <3>5. \A p \in batch'[w] : p <= position'[w] /\ <<w, p>> \in Valid
      BY <2>2, <3>1, <3>4 DEF BatchInv
    <3>6. ASSUME NEW p \in Offset, <<w, p>> \in Valid, p <= position'[w], p \notin batch'[w]
          PROVE  p <= committed'[w] /\ \A q \in batch'[w] : p < q
      <4>1. p \in Nat /\ p # o /\ p <= position[w]
        BY <2>2, <2>4, <3>4, <3>6 DEF Offset
      <4> QED
        BY <2>1, <3>1, <3>6, <4>1 DEF BatchInv
    <3> QED
      BY <2>1, <3>1, <3>2, <3>3, <3>5, <3>6 DEF BatchInv
  <2> QED
    BY <2>3, <2>4
<1>2. ASSUME NEW w \in Writer, FlushInterval(w) PROVE BatchInv'
  BY <1>0, <1>2 DEF FlushInterval, Steps
<1>3. ASSUME NEW w \in Writer, CommitSkipped(w) PROVE BatchInv'
  <2>1. /\ committed' = [committed EXCEPT ![w] = position[w]] /\ UNCHANGED <<position, batch>>
        /\ at' = [at EXCEPT ![w] = "fetch"]
    BY <1>3 DEF CommitSkipped
  <2> QED
    BY <2>1 DEF BatchInv, StorageTypes
<1>4. ASSUME NEW w \in Writer, CommitBatch(w) PROVE BatchInv'
  <2> DEFINE last == Max(batch[w])
  <2>1. batch[w] # {}
    BY <1>4 DEF CommitBatch, BatchInv
  <2>2. last \in batch[w] /\ last \in Nat /\ \A o \in batch[w] : last >= o
    BY <2>1, LastOfBatch
  <2>3. /\ committed' = [committed EXCEPT ![w] = last] /\ batch' = [batch EXCEPT ![w] = {}]
        /\ position' = position /\ at' = [at EXCEPT ![w] = "fetch"]
    BY <1>4 DEF CommitBatch
  <2>4. ASSUME NEW o \in Offset, <<w, o>> \in Valid, o <= position[w]
        PROVE  o <= last
    BY <2>2, <2>4 DEF BatchInv, Offset
  <2> HIDE DEF last
  <2>5. batch'[w] = {} /\ committed'[w] = last /\ at'[w] = "fetch"
    BY <2>3 DEF StorageTypes
  <2>6. \A u \in Writer : u # w =>
          batch'[u] = batch[u] /\ committed'[u] = committed[u] /\ at'[u] = at[u]
    BY <2>3 DEF StorageTypes
  <2> QED
    BY <2>3, <2>4, <2>5, <2>6 DEF BatchInv
<1>5. ASSUME NEW w \in Writer, CreateOrLoadTable(w) PROVE BatchInv'
  BY <1>0, <1>5 DEF CreateOrLoadTable, Steps, BatchInv
<1>6. ASSUME NEW w \in Writer, CreateHint(w) PROVE BatchInv'
  BY <1>0, <1>6 DEF CreateHint, Steps, BatchInv
<1>7. ASSUME NEW w \in Writer, LoadForCommit(w) PROVE BatchInv'
  BY <1>0, <1>7 DEF LoadForCommit, Steps, BatchInv
<1>8. ASSUME NEW w \in Writer, CommitRefused(w) PROVE BatchInv'
  BY <1>01, <1>8 DEF CommitRefused
<1>9. ASSUME NEW w \in Writer, WriteMetadata(w) PROVE BatchInv'
  BY <1>0, <1>9 DEF WriteMetadata, Steps, BatchInv
<1>10. ASSUME NEW w \in Writer, WriteHint(w) PROVE BatchInv'
  BY <1>0, <1>10 DEF WriteHint, Steps, BatchInv
<1>11. ASSUME NEW w \in Writer, Crash(w) PROVE BatchInv'
  BY <1>01, <1>11 DEF Crash
<1>12. CASE UNCHANGED vars
  BY <1>12 DEF vars, BatchInv
<1> QED
  BY <1>1, <1>2, <1>3, <1>4, <1>5, <1>6, <1>7, <1>8, <1>9, <1>10, <1>11, <1>12
     DEF Next, Run

(* Every version of the table, one that is being prepared included, holds  *)
(* a message once for the batch it was in, and once more for each crash;   *)
(* a message of no batch so far, and one whose batch is not yet written,   *)
(* only the copies of the crashes.                                         *)
Held == files \cup {base[w] : w \in Writer}
Unwritten(w, o) ==
  o > position[w] \/ (o \in batch[w] /\ at[w] \notin {"write_hint", "commit_offsets"})
RowsInv ==
  \A f \in Held, w \in Writer, o \in Offset :
    /\ f.rows[<<w, o>>] <= 1 + crashes
    /\ <<w, o>> \notin Valid => f.rows[<<w, o>>] = 0
    /\ Unwritten(w, o) => f.rows[<<w, o>>] <= crashes

(* A table, committed or in preparation, has a count of rows for every     *)
(* message.                                                                *)
LEMMA RowsAreNat ==
  ASSUME StorageTypes, NEW f \in Held, NEW w \in Writer, NEW o \in Offset
  PROVE  f \in File /\ f.rows[<<w, o>>] \in Nat
<1>1. f \in File
  BY DEF Held, StorageTypes
<1>2. <<w, o>> \in Message
  BY DEF Message
<1> QED
  BY <1>1, <1>2 DEF File

(* A step that adds no rows, and after which fewer messages are unwritten. *)
LEMMA RowsKept ==
  ASSUME StorageTypes, RowsInv, crashes' = crashes,
         \A f \in Held' : \/ f \in Held
                          \/ \A m \in Message : f.rows[m] = 0,
         \A w \in Writer, o \in Offset :
           Unwritten(w, o)' => Unwritten(w, o) \/ <<w, o>> \notin Valid
  PROVE  RowsInv'
<1> SUFFICES ASSUME NEW f \in Held', NEW w \in Writer, NEW o \in Offset
             PROVE  /\ f.rows[<<w, o>>] <= 1 + crashes
                    /\ <<w, o>> \notin Valid => f.rows[<<w, o>>] = 0
                    /\ Unwritten(w, o)' => f.rows[<<w, o>>] <= crashes
  BY DEF RowsInv
<1>1. crashes \in Nat
  BY DEF StorageTypes
<1>2. CASE f \in Held
  BY <1>1, <1>2, RowsAreNat DEF RowsInv
<1>3. CASE \A m \in Message : f.rows[m] = 0
  BY <1>1, <1>3 DEF Message
<1> QED
  BY <1>2, <1>3

(* A new table has no rows. *)
LEMMA NoneHasNoRows == \A m \in Message : None.rows[m] = 0
  BY DEF None

(* An update adds one row for each message of its batch, none of which is  *)
(* in a table yet except for copies from before a crash; no other step     *)
(* adds rows.                                                              *)
LEMMA RowsStep ==
  ASSUME Constants, StorageTypes, HintInv, BatchInv, RowsInv, [Next]_vars
  PROVE  RowsInv'
<1> USE DEF Go, At
<1>0. ASSUME NEW w \in Writer, NEW step \in Steps, Go(w, step),
             at[w] \notin {"write_hint", "commit_offsets"}, 
             UNCHANGED <<position, batch, crashes>>,
             \A f \in Held' : \/ f \in Held
                              \/ \A m \in Message : f.rows[m] = 0
      PROVE  RowsInv'
  <2>1. \A u \in Writer, o \in Offset : Unwritten(u, o)' => Unwritten(u, o)
    BY <1>0 DEF Unwritten, StorageTypes
  <2> QED
    BY <1>0, <2>1, RowsKept
<1>1. ASSUME NEW w \in Writer, FetchMessage(w) PROVE RowsInv'
  <2>1. \A u \in Writer, o \in Offset : Unwritten(u, o)' => Unwritten(u, o)
    <3> SUFFICES ASSUME NEW u \in Writer, NEW o \in Offset, Unwritten(u, o)'
                 PROVE  Unwritten(u, o)
      OBVIOUS
    <3>1. position[u] \in Nat /\ o \in Nat /\ at[w] = "fetch"
      BY <1>1 DEF StorageTypes, Offset, FetchMessage
    <3>2. position'[u] = IF u = w THEN position[u] + 1 ELSE position[u]
      BY <1>1 DEF StorageTypes, FetchMessage
    <3>3. at'[u] = at[u] \/ u = w
      BY <1>1 DEF StorageTypes, FetchMessage
    <3>4. batch'[u] = batch[u] \/ (u = w /\ batch'[u] = batch[u] \cup {position[u] + 1})
      BY <1>1 DEF StorageTypes, FetchMessage
    <3> QED
      BY <3>1, <3>2, <3>3, <3>4 DEF Unwritten
  <2>2. Held' = Held /\ crashes' = crashes
    BY <1>1 DEF FetchMessage, Held
  <2> QED
    BY <2>1, <2>2, RowsKept
<1>2. ASSUME NEW w \in Writer, FlushInterval(w) PROVE RowsInv'
  BY <1>0, <1>2 DEF FlushInterval, Steps, Held
<1>3. ASSUME NEW w \in Writer, CommitSkipped(w) PROVE RowsInv'
  BY <1>0, <1>3 DEF CommitSkipped, Steps, Held
<1>4. ASSUME NEW w \in Writer, CommitBatch(w) PROVE RowsInv'
  <2>1. \A u \in Writer, o \in Offset : Unwritten(u, o)' => Unwritten(u, o)
    BY <1>4 DEF Unwritten, StorageTypes, CommitBatch
  <2>2. Held' = Held /\ crashes' = crashes
    BY <1>4 DEF CommitBatch, Held
  <2> QED
    BY <2>1, <2>2, RowsKept
<1>5. ASSUME NEW w \in Writer, CreateOrLoadTable(w) PROVE RowsInv'
  <2>1. CASE hint = -1
    <3>1. PICK f \in NewFile(0, None.rows) :
            /\ files' = files \cup {f}
            /\ base' = [base EXCEPT ![w] = f]
            /\ Go(w, "create_hint")
      BY <1>5, <2>1 DEF CreateOrLoadTable
    <3>2. f.rows = None.rows
      BY NewFileTypes DEF None
    <3>3. \A g \in Held' : g \in Held \/ g = f
      BY <3>1 DEF Held, StorageTypes
    <3> QED
      <4>1. \A g \in Held' : g \in Held \/ \A m \in Message : g.rows[m] = 0
        BY <3>2, <3>3, NoneHasNoRows
      <4>2. at[w] = "load" /\ UNCHANGED <<position, batch, crashes>>
        BY <1>5 DEF CreateOrLoadTable
      <4>3. "create_hint" \in Steps
        BY DEF Steps
      <4> QED
        BY <1>0, <3>1, <4>1, <4>2, <4>3
  <2>2. CASE hint # -1
    <3>1. Current \in files
      BY <2>2, CurrentFound
    <3>2. base' = [base EXCEPT ![w] = Current] /\ files' = files
      BY <1>5, <2>2 DEF CreateOrLoadTable
    <3>3. Held' \subseteq Held
      BY <3>1, <3>2 DEF Held, StorageTypes
    <3> QED
      BY <1>0, <1>5, <2>2, <3>3 DEF CreateOrLoadTable, Steps
  <2> QED
    BY <2>1, <2>2
<1>6. ASSUME NEW w \in Writer, CreateHint(w) PROVE RowsInv'
  BY <1>0, <1>6 DEF CreateHint, Steps, Held
<1>7. ASSUME NEW w \in Writer, LoadForCommit(w) PROVE RowsInv'
  BY <1>0, <1>7 DEF LoadForCommit, Steps, Held
<1>8. ASSUME NEW w \in Writer, CommitRefused(w) PROVE RowsInv'
  <2>1. ASSUME NEW u \in Writer, NEW o \in Offset, Unwritten(u, o)', <<u, o>> \in Valid
        PROVE  Unwritten(u, o)
    <3>1. CASE u # w
      BY <1>8, <2>1, <3>1 DEF Unwritten, StorageTypes, CommitRefused, Restart
    <3>2. CASE u = w
      <4>1. batch'[u] = {} /\ position'[u] = committed[u] /\ at[u] = "commit"
        BY <1>8, <3>2 DEF StorageTypes, CommitRefused, Restart
      <4>2. o > committed[u]
        BY <2>1, <4>1 DEF Unwritten
      <4>3. committed[u] \in Nat /\ position[u] \in Nat /\ o \in Nat
        BY DEF StorageTypes, Offset
      <4> QED
        BY <2>1, <4>1, <4>2, <4>3 DEF Unwritten, BatchInv
    <3> QED
      BY <3>1, <3>2
  <2>2. base' = [base EXCEPT ![w] = None] /\ files' = files /\ crashes' = crashes
    BY <1>8 DEF CommitRefused, Restart
  <2>3. \A f \in Held' : f \in Held \/ f = None
    BY <2>2 DEF Held, StorageTypes
  <2> QED
    BY <2>1, <2>2, <2>3, RowsKept, NoneHasNoRows
<1>9. ASSUME NEW w \in Writer, WriteMetadata(w) PROVE RowsInv'
  <2>1. PICK f \in NewFile(base[w].v + 1, Appended(w)) :
          files' = files \cup {f} /\ base' = [base EXCEPT ![w] = f]
    BY <1>9 DEF WriteMetadata
  <2>2. base[w].v + 1 \in Int
    BY DEF StorageTypes, File
  <2>3. f.rows = Appended(w)
    BY <2>2, NewFileTypes, AppendedTypes
  <2>4. \A g \in Held' : g \in Held \/ g = f
    BY <2>1 DEF Held, StorageTypes
  <2>5. /\ at[w] = "write" /\ at' = [at EXCEPT ![w] = "write_hint"]
        /\ UNCHANGED <<position, batch, crashes>>
    BY <1>9 DEF WriteMetadata
  <2>6. \A u \in Writer, o \in Offset : Unwritten(u, o)' => Unwritten(u, o)
    BY <2>5 DEF Unwritten, StorageTypes
  <2>7. base[w] \in Held /\ crashes \in Nat
    BY DEF Held, StorageTypes
  <2> SUFFICES ASSUME NEW g \in Held', NEW u \in Writer, NEW o \in Offset
               PROVE  /\ g.rows[<<u, o>>] <= 1 + crashes
                      /\ <<u, o>> \notin Valid => g.rows[<<u, o>>] = 0
                      /\ Unwritten(u, o)' => g.rows[<<u, o>>] <= crashes
    BY <2>5 DEF RowsInv
  <2>8. CASE g \in Held
    BY <2>6, <2>8 DEF RowsInv
  <2>9. CASE g = f
    <3>1. /\ base[w].rows[<<u, o>>] <= 1 + crashes /\ base[w].rows[<<u, o>>] \in Nat
          /\ <<u, o>> \notin Valid => base[w].rows[<<u, o>>] = 0
          /\ Unwritten(u, o) => base[w].rows[<<u, o>>] <= crashes
      BY <2>7, RowsAreNat DEF RowsInv
    <3>2. g.rows[<<u, o>>] = base[w].rows[<<u, o>>] + IF u = w /\ o \in batch[w] THEN 1 ELSE 0
      BY <2>3, <2>9 DEF Appended, Message
    <3>3. CASE u = w /\ o \in batch[w]
      <4>1. Unwritten(u, o) /\ <<u, o>> \in Valid
        BY <2>5, <3>3 DEF Unwritten, BatchInv
      <4>2. ~Unwritten(u, o)'
        <5>1. o <= position[u] /\ position[u] \in Nat /\ o \in Nat
          <6>1. o <= position[u]
            BY <3>3 DEF BatchInv
          <6> QED
            BY <6>1 DEF StorageTypes, Offset
        <5>2. position' = position /\ at'[u] = "write_hint"
          BY <2>5, <3>3 DEF StorageTypes
        <5> QED
          BY <5>1, <5>2 DEF Unwritten
      <4> QED
        BY <2>7, <3>1, <3>2, <3>3, <4>1, <4>2
    <3>4. CASE ~(u = w /\ o \in batch[w])
      BY <2>6, <3>1, <3>2, <3>4
    <3> QED
      BY <3>3, <3>4
  <2> QED
    BY <2>4, <2>8, <2>9
<1>10. ASSUME NEW w \in Writer, WriteHint(w) PROVE RowsInv'
  <2>1. \A u \in Writer, o \in Offset : Unwritten(u, o)' => Unwritten(u, o)
    BY <1>10 DEF Unwritten, StorageTypes, WriteHint
  <2>2. Held' = Held /\ crashes' = crashes
    BY <1>10 DEF WriteHint, Held
  <2> QED
    BY <2>1, <2>2, RowsKept
<1>11. ASSUME NEW w \in Writer, Crash(w) PROVE RowsInv'
  <2>1. base' = [base EXCEPT ![w] = None] /\ files' = files /\ crashes' = crashes + 1
    BY <1>11 DEF Crash, Restart
  <2>2. \A f \in Held' : f \in Held \/ f = None
    BY <2>1 DEF Held, StorageTypes
  <2>3. crashes \in Nat
    BY DEF StorageTypes
  <2> SUFFICES ASSUME NEW f \in Held', NEW u \in Writer, NEW o \in Offset
               PROVE  /\ f.rows[<<u, o>>] <= crashes'
                      /\ <<u, o>> \notin Valid => f.rows[<<u, o>>] = 0
                      /\ f.rows[<<u, o>>] \in Nat
    <3>1. \A n \in Nat : n <= crashes' => n <= 1 + crashes'
      BY <2>1, <2>3
    <3> QED
      BY <3>1 DEF RowsInv
  <2>4. CASE f \in Held
    BY <2>1, <2>3, <2>4, RowsAreNat DEF RowsInv
  <2>5. CASE f = None
    BY <2>1, <2>3, <2>5, NoneHasNoRows DEF Message
  <2> QED
    BY <2>2, <2>4, <2>5
<1>12. CASE UNCHANGED vars
  <2>1. UNCHANGED <<position, batch, at, base, files, crashes>>
    BY <1>12 DEF vars
  <2>2. Held' = Held /\ \A w, o : Unwritten(w, o)' = Unwritten(w, o)
    BY <2>1 DEF Held, Unwritten
  <2> QED
    BY <2>1, <2>2, RowsKept
<1> QED
  BY <1>1, <1>2, <1>3, <1>4, <1>5, <1>6, <1>7, <1>8, <1>9, <1>10, <1>11, <1>12
     DEF Next, Run

StorageInv == StorageTypes /\ HintInv /\ BatchInv /\ RowsInv

(* The inductive invariant holds at the start. *)
LEMMA StorageInvInit == Constants /\ Init => StorageInv
<1> SUFFICES ASSUME Constants, Init PROVE RowsInv
  BY StorageInit DEF StorageInv
<1>1. \A f \in Held : f = None
  BY DEF Held, Init
<1>2. crashes = 0
  BY DEF Init
<1> QED
  BY <1>1, <1>2, NoneHasNoRows DEF RowsInv, Message

(* It is preserved by every step, whichever instance takes it. *)
LEMMA StorageInvStep ==
  ASSUME Constants
  PROVE  StorageInv /\ [Next]_vars => StorageInv'
  BY StorageTypesStep, HintStep, BatchStep, RowsStep DEF StorageInv

(* The version hint names a metadata file whenever it can be read, however *)
(* many instances write the table and wherever they crash: the catalog     *)
(* writes the file before the hint and removes neither.                    *)
THEOREM HintAlwaysHasFile ==
  ASSUME Constants
  PROVE  Spec => []HintHasFile
<1>1. Init => StorageInv
  BY StorageInvInit
<1>2. StorageInv /\ [Next]_vars => StorageInv'
  BY StorageInvStep
<1>3. StorageInv => HintHasFile
  BY DEF StorageInv, HintInv
<1> QED
  BY <1>1, <1>2, <1>3, PTL DEF Spec

(* A message is in the table at most once, and once more for each crash,   *)
(* however many instances write it and however their commits interleave: a *)
(* batch is appended by one update, and only a crash makes a written       *)
(* message be fetched again.                                               *)
THEOREM RowsHaveCause ==
  ASSUME Constants
  PROVE  Spec => []CopiesBounded
<1>1. Init => StorageInv
  BY StorageInvInit
<1>2. StorageInv /\ [Next]_vars => StorageInv'
  BY StorageInvStep
<1>3. StorageInv => CopiesBounded
  <2> SUFFICES ASSUME StorageInv, NEW m \in Message
               PROVE  Current.rows[m] <= 1 + crashes
    BY DEF CopiesBounded
  <2> USE DEF StorageInv
  <2>1. PICK w \in Writer, o \in Offset : m = <<w, o>>
    BY DEF Message
  <2>2. CASE hint = -1
    BY <2>2, CurrentFound, NoneHasNoRows DEF StorageTypes
  <2>3. CASE hint # -1
    BY <2>1, <2>3, CurrentFound DEF RowsInv, Held
  <2> QED
    BY <2>2, <2>3
<1> QED
  BY <1>1, <1>2, <1>3, PTL DEF Spec

-----------------------------------------------------------------------------
(* One instance *)

(* With one instance, the version after the one in the hint is all there   *)
(* can be, and its files hold the rows of the current one: the instance    *)
(* appends to the table it has loaded.                                     *)
TableInv ==
  /\ \A f \in files : f.v <= hint + 1
  /\ \A f \in files : f.v = hint + 1 =>
       \A m \in Message : f.rows[m] >= Current.rows[m]
  /\ \A w \in Writer :
       /\ at[w] = "create_hint" => hint = -1
       /\ at[w] = "write" => base[w] = Current
       /\ at[w] = "write_hint" => base[w].v = hint + 1

(* What becomes of the table in a step that leaves the hint alone. *)
LEMMA HintKept ==
  ASSUME StorageTypes, HintInv, TableInv, hint' = hint, files \subseteq files',
         \A f \in files' \ files :
           /\ f.v = hint + 1
           /\ \A m \in Message : f.rows[m] >= Current.rows[m]
  PROVE  /\ Current' = Current
         /\ \A f \in files' : f.v <= hint' + 1
         /\ \A f \in files' : f.v = hint' + 1 =>
              \A m \in Message : f.rows[m] >= Current'.rows[m]
<1>1. hint \in Int
  BY DEF StorageTypes
<1>2. {f \in files' : f.v = hint'} = {f \in files : f.v = hint}
  BY <1>1
<1> DEFINE fs == {f \in files : f.v = hint}
           ps == {f \in files' : f.v = hint'}
<1>3. Current' = Current
  <2>1. CASE hint = -1
    BY <2>1 DEF Current
  <2>2. CASE hint # -1
    <3>1. Current = CHOOSE f \in fs : \A g \in fs : f.name <= g.name
      BY <2>2 DEF Current
    <3>2. Current' = CHOOSE f \in ps : \A g \in ps : f.name <= g.name
      BY <2>2 DEF Current
    <3>3. ps = fs
      BY <1>2
    <3> HIDE DEF ps, fs
    <3> QED
      BY <3>1, <3>2, <3>3
  <2> QED
    BY <2>1, <2>2
<1>4. \A f \in files' : f.v <= hint' + 1
  BY <1>1 DEF TableInv
<1> QED
  BY <1>3, <1>4 DEF TableInv

(* What becomes of it when the hint is set to the next version. *)
LEMMA HintMoved ==
  ASSUME StorageTypes, HintInv, TableInv, hint' = hint + 1, files' = files,
         NEW f \in files, f.v = hint + 1
  PROVE  /\ Current' \in files /\ Current'.v = hint + 1
         /\ \A m \in Message : Current'.rows[m] >= Current.rows[m]
         /\ \A g \in files' : g.v <= hint' + 1 /\ g.v # hint' + 1
<1>1. hint \in Int /\ hint >= -1 /\ \A g \in files : g.v \in Int
  BY DEF StorageTypes, HintInv, File
<1> DEFINE fs == {g \in files : g.v = hint + 1}
<1>2. \E g \in fs : \A h \in fs : g.name <= h.name
  BY DEF HintInv, HasFirst, First
<1>3. hint' # -1
  BY <1>1
<1>4. Current' = CHOOSE g \in fs : \A h \in fs : g.name <= h.name
  BY <1>3 DEF Current
<1>5. Current' \in fs
  BY <1>2, <1>4
<1>6. \A m \in Message : Current'.rows[m] >= Current.rows[m]
  BY <1>5 DEF TableInv
<1>7. \A g \in files : g.v <= hint + 1
  BY DEF TableInv
<1>8. \A g \in files' : g.v <= hint' + 1 /\ g.v # hint' + 1
  BY <1>1, <1>7
<1> QED
  BY <1>5, <1>6, <1>8

(* The current table has the version of the hint and a count of rows for   *)
(* every message.                                                          *)
LEMMA CurrentRows ==
  ASSUME StorageTypes, HintInv
  PROVE  /\ Current.v = hint
         /\ \A m \in Message : Current.rows[m] \in Nat
  BY CurrentFound DEF File, None

CurrentTyped == \A m \in Message : Current.rows[m] \in Nat

(* The current table has a count of rows for every message after a step,   *)
(* too.                                                                    *)
LEMMA CurrentTypedNext == StorageTypes' /\ HintInv' => CurrentTyped'
<1>1. StorageTypes /\ HintInv => CurrentTyped
  BY CurrentRows DEF CurrentTyped
<1> QED
  BY <1>1, PTL

(* Every step of the only instance keeps the rows of the current table:    *)
(* the version behind the hint is an update of the table at the hint.      *)
LEMMA TableStep ==
  ASSUME Constants, NEW w \in Writer, Writer = {w}, StorageTypes, HintInv, TableInv,
         [Next]_vars
  PROVE  TableInv' /\ NothingTakenBack
<1> USE DEF Go, At
<1>0. ASSUME UNCHANGED <<files, hint>>,
             at'[w] = "create_hint" => hint = -1,
             at'[w] = "write" => base'[w] = Current,
             at'[w] = "write_hint" => base'[w].v = hint + 1
      PROVE  TableInv' /\ NothingTakenBack
  <2>1. Current' = Current
    BY <1>0 DEF Current
  <2>2. NothingTakenBack
    BY <2>1, CurrentRows DEF NothingTakenBack
  <2> QED
    BY <1>0, <2>1, <2>2 DEF TableInv
<1>1. CASE FetchMessage(w)
  <2>1. at'[w] \in {"fetch", "load", "skip"} /\ UNCHANGED <<files, hint>>
    BY <1>1 DEF FetchMessage, StorageTypes
  <2> QED
    BY <1>0, <2>1
<1>2. CASE FlushInterval(w)
  BY <1>0, <1>2 DEF FlushInterval, StorageTypes
<1>3. CASE CommitSkipped(w)
  BY <1>0, <1>3 DEF CommitSkipped, StorageTypes
<1>4. CASE CommitBatch(w)
  BY <1>0, <1>4 DEF CommitBatch, StorageTypes
<1>5. CASE CreateOrLoadTable(w)
  <2>1. CASE hint = -1
    <3>1. PICK f \in NewFile(0, None.rows) :
            /\ files' = files \cup {f}
            /\ Go(w, "create_hint")
            /\ hint' = hint
      BY <1>5, <2>1 DEF CreateOrLoadTable
    <3>2. f.v = 0 /\ f.rows = None.rows
      BY NewFileTypes DEF None
    <3>3. Current = None
      BY <2>1 DEF Current
    <3>4. \A m \in Message : f.rows[m] >= Current.rows[m]
      BY <3>2, <3>3, CurrentRows
    <3>5. f.v = hint + 1 /\ at'[w] = "create_hint"
      BY <2>1, <3>1, <3>2 DEF StorageTypes
    <3>6. /\ Current' = Current
          /\ \A g \in files' : g.v <= hint' + 1
          /\ \A g \in files' : g.v = hint' + 1 =>
               \A m \in Message : g.rows[m] >= Current'.rows[m]
      BY <3>1, <3>4, <3>5, HintKept
    <3>7. NothingTakenBack
      BY <3>6, CurrentRows DEF NothingTakenBack
    <3> QED
      BY <2>1, <3>1, <3>5, <3>6, <3>7 DEF TableInv
  <2>2. CASE hint # -1
    BY <1>0, <1>5, <2>2 DEF CreateOrLoadTable, StorageTypes
  <2> QED
    BY <2>1, <2>2
<1>6. CASE CreateHint(w)
  <2>1. hint = -1 /\ base[w] \in files /\ base[w].v = hint + 1
    <3>1. at[w] = "create_hint"
      BY <1>6 DEF CreateHint, At
    <3>2. hint = -1
      BY <3>1 DEF TableInv
    <3>3. base[w] \in files /\ base[w].v = 0
      BY <3>1 DEF HintInv
    <3> QED
      BY <3>2, <3>3
  <2>2. hint' = hint + 1 /\ files' = files /\ at'[w] = "commit"
    BY <1>6, <2>1 DEF CreateHint, StorageTypes
  <2>3. /\ \A m \in Message : Current'.rows[m] >= Current.rows[m]
        /\ \A g \in files' : g.v <= hint' + 1 /\ g.v # hint' + 1
    BY <2>1, <2>2, HintMoved
  <2> QED
    BY <2>2, <2>3 DEF TableInv, NothingTakenBack
<1>7. CASE LoadForCommit(w)
  BY <1>0, <1>7 DEF LoadForCommit, StorageTypes
<1>8. CASE CommitRefused(w)
  BY <1>0, <1>8 DEF CommitRefused, Restart, StorageTypes
<1>9. CASE WriteMetadata(w)
  <2>1. PICK f \in NewFile(base[w].v + 1, Appended(w)) :
          files' = files \cup {f} /\ base' = [base EXCEPT ![w] = f]
    BY <1>9 DEF WriteMetadata
  <2>2. base[w].v + 1 \in Int
    BY DEF StorageTypes, File
  <2>3. f.v = base[w].v + 1 /\ f.rows = Appended(w)
    BY <2>2, NewFileTypes, AppendedTypes
  <2>4. base[w] = Current /\ hint' = hint /\ at'[w] = "write_hint"
    BY <1>9 DEF WriteMetadata, TableInv, StorageTypes
  <2>5. f.v = hint + 1 /\ base'[w] = f
    BY <2>1, <2>3, <2>4, CurrentRows DEF StorageTypes
  <2>6. \A m \in Message : f.rows[m] >= Current.rows[m]
    BY <2>3, <2>4, CurrentRows DEF Appended
  <2>7. /\ Current' = Current
        /\ \A g \in files' : g.v <= hint' + 1
        /\ \A g \in files' : g.v = hint' + 1 =>
             \A m \in Message : g.rows[m] >= Current'.rows[m]
    BY <2>1, <2>4, <2>5, <2>6, HintKept
  <2>8. NothingTakenBack
    BY <2>7, CurrentRows DEF NothingTakenBack
  <2> QED
    BY <2>4, <2>5, <2>7, <2>8 DEF TableInv
<1>10. CASE WriteHint(w)
  <2>1. base[w] \in files /\ base[w].v = hint + 1
    BY <1>10 DEF WriteHint, TableInv, HintInv
  <2>2. hint' = hint + 1 /\ files' = files /\ at'[w] = "commit_offsets"
    BY <1>10, <2>1 DEF WriteHint, StorageTypes
  <2>3. /\ \A m \in Message : Current'.rows[m] >= Current.rows[m]
        /\ \A g \in files' : g.v <= hint' + 1 /\ g.v # hint' + 1
    BY <2>1, <2>2, HintMoved
  <2> QED
    BY <2>2, <2>3 DEF TableInv, NothingTakenBack
<1>11. CASE Crash(w)
  BY <1>0, <1>11 DEF Crash, Restart, StorageTypes
<1>12. CASE UNCHANGED vars
  BY <1>0, <1>12 DEF vars, TableInv
<1> QED
  BY <1>1, <1>2, <1>3, <1>4, <1>5, <1>6, <1>7, <1>8, <1>9, <1>10, <1>11, <1>12
     DEF Next, Run

(* With one instance no row ever disappears from the table, even if the    *)
(* process crashes between the metadata file and the hint and leaves two   *)
(* files of one version, of which the catalog takes the first.             *)
THEOREM RowsNeverDisappear ==
  ASSUME Constants, NEW w \in Writer, Writer = {w}
  PROVE  Spec => [][NothingTakenBack]_vars
<1>1. Init => StorageInv /\ TableInv
  BY StorageInvInit DEF Init, TableInv
<1>2. StorageInv /\ TableInv /\ [Next]_vars => (StorageInv /\ TableInv)'
  BY StorageInvStep, TableStep DEF StorageInv
<1>3. StorageInv /\ TableInv /\ [Next]_vars
        => [NothingTakenBack]_vars
  BY TableStep DEF StorageInv
<1> QED
  BY <1>1, <1>2, <1>3, PTL DEF Spec

(* With one instance that is never stopped between the metadata file and   *)
(* the hint, and no invalid message: the batch is what lies between the    *)
(* committed offset and the position, no file is ahead of the hint except  *)
(* the one being committed, and that one holds the batch.                  *)
StoredInv ==
  \A w \in Writer :
    /\ at[w] # "skip"
    /\ committed[w] <= position[w]
    /\ batch[w] = (committed[w] + 1)..position[w]
    /\ \A o \in Offset : o <= committed[w] => Current.rows[<<w, o>>] > 0
    /\ at[w] \notin {"create_hint", "write_hint"} => \A f \in files : f.v # hint + 1
    /\ at[w] = "write_hint" =>
         /\ \A f \in files : f.v = hint + 1 => f = base[w]
         /\ \A o \in batch[w] : base[w].rows[<<w, o>>] > 0
    /\ at[w] = "commit_offsets" => \A o \in batch[w] : Current.rows[<<w, o>>] > 0

(* The only instance commits an offset when the current table holds its    *)
(* batch and all before it.                                                *)
LEMMA StoredStep ==
  ASSUME Constants, NEW w \in Writer, Writer = {w}, Valid = Message, ~TornCommits,
         StorageTypes, HintInv, BatchInv, TableInv, StoredInv, [Next]_vars
  PROVE  StoredInv'
<1> USE DEF Go, At
<1>a. \A o \in Offset :
        /\ <<w, o>> \in Message
        /\ Current.rows[<<w, o>>] \in Nat
        /\ Current'.rows[<<w, o>>] >= Current.rows[<<w, o>>]
  BY CurrentRows, TableStep DEF NothingTakenBack, Message
<1>b. /\ position[w] \in Nat /\ committed[w] \in Nat /\ batch[w] \subseteq Offset
      /\ at[w] \in Steps /\ hint \in Int
  BY DEF StorageTypes
<1>c. StorageTypes'
  BY StorageTypesStep
<1>d. HintInv' /\ TableInv'
  BY HintStep, TableStep
<1>e. \A o \in Offset : Current'.rows[<<w, o>>] \in Int
  BY <1>a, <1>c, <1>d, CurrentTypedNext DEF CurrentTyped
<1>f. \A o \in Offset :
        Current.rows[<<w, o>>] > 0 => Current'.rows[<<w, o>>] > 0
  BY <1>a, <1>e
(* A step that commits no offset and leaves files and hint alone. *)
<1>0. ASSUME UNCHANGED <<files, hint, committed>>,
             at[w] \notin {"create_hint", "write_hint"},
             at'[w] \notin {"skip", "create_hint", "write_hint", "commit_offsets"},
             committed[w] <= position'[w],
             batch'[w] = (committed[w] + 1)..position'[w]
      PROVE  StoredInv'
  BY <1>0, <1>f DEF StoredInv
<1>1. CASE FetchMessage(w)
  <2> DEFINE o == position[w] + 1
  <2>1. /\ o \in Offset /\ position' = [position EXCEPT ![w] = o]
        /\ at[w] = "fetch" /\ UNCHANGED <<files, hint, committed>>
    BY <1>1 DEF FetchMessage
  <2>2. <<w, o>> \in Valid
    BY <1>a, <2>1
  <2>3. batch' = [batch EXCEPT ![w] = batch[w] \cup {o}]
    BY <1>1, <2>2 DEF FetchMessage
  <2>4. at' = at \/ at' = [at EXCEPT ![w] = "load"]
    BY <1>1, <2>2 DEF FetchMessage
  <2>5. at'[w] \in {"fetch", "load"}
    BY <2>1, <2>4 DEF StorageTypes
  <2>6. batch'[w] = batch[w] \cup {o} /\ position'[w] = o
    BY <2>1, <2>3 DEF StorageTypes
  <2>7. committed[w] <= position[w] /\ batch[w] = (committed[w] + 1)..position[w]
    BY DEF StoredInv
  <2>8. batch'[w] = (committed[w] + 1)..position'[w]
    BY <1>b, <2>6, <2>7
  <2>9. committed[w] <= position'[w]
    BY <1>b, <2>6, <2>7
  <2> QED
    BY <1>0, <2>1, <2>5, <2>8, <2>9
<1>2. CASE FlushInterval(w)
  BY <1>0, <1>2 DEF FlushInterval, StorageTypes, StoredInv
<1>3. CASE CommitSkipped(w)
  BY <1>3 DEF CommitSkipped, StoredInv
<1>4. CASE CommitBatch(w)
  <2> DEFINE last == Max(batch[w])
  <2>1. batch[w] # {}
    BY <1>4 DEF CommitBatch, BatchInv
  <2>2. last \in batch[w] /\ last \in Nat /\ \A o \in batch[w] : last >= o
    BY <2>1, LastOfBatch
  <2>3. last = position[w]
    <3>1. batch[w] = (committed[w] + 1)..position[w]
      BY DEF StoredInv
    <3> QED
      BY <1>b, <2>2, <3>1
  <2>4. /\ committed'[w] = last /\ batch'[w] = {} /\ position' = position
        /\ at'[w] = "fetch" /\ UNCHANGED <<files, hint>> /\ at[w] = "commit_offsets"
    BY <1>4 DEF CommitBatch, StorageTypes
  <2>5. batch'[w] = (committed'[w] + 1)..position'[w] /\ committed'[w] <= position'[w]
    BY <1>b, <2>3, <2>4
  <2>6. ASSUME NEW o \in Offset, o <= committed'[w]
        PROVE  Current'.rows[<<w, o>>] > 0
    <3>1. o <= committed[w] \/ o \in batch[w]
      BY <1>b, <2>3, <2>4, <2>6 DEF StoredInv, Offset
    <3>2. Current.rows[<<w, o>>] > 0
      BY <2>4, <3>1 DEF StoredInv
    <3> QED
      BY <1>f, <3>2
  <2> QED
    BY <2>4, <2>5, <2>6 DEF StoredInv
<1>5. CASE CreateOrLoadTable(w)
  <2>1. CASE hint = -1
    <3>1. at'[w] = "create_hint" /\ UNCHANGED <<position, committed, batch>>
      BY <1>5, <2>1 DEF CreateOrLoadTable, StorageTypes
    <3> QED
      BY <1>f, <3>1 DEF StoredInv
  <2>2. CASE hint # -1
    BY <1>0, <1>5, <2>2 DEF CreateOrLoadTable, StorageTypes, StoredInv
  <2> QED
    BY <2>1, <2>2
<1>6. CASE CreateHint(w)
  <2>1. hint = -1 /\ base[w] \in files /\ base[w].v = hint + 1
    <3>1. at[w] = "create_hint"
      BY <1>6 DEF CreateHint, At
    <3>2. hint = -1
      BY <3>1 DEF TableInv
    <3>3. base[w] \in files /\ base[w].v = 0
      BY <3>1 DEF HintInv
    <3> QED
      BY <3>2, <3>3
  <2>2. hint' = hint + 1 /\ files' = files /\ at'[w] = "commit"
    BY <1>6, <2>1 DEF CreateHint, StorageTypes
  <2>3. \A g \in files' : g.v # hint' + 1
    BY <2>1, <2>2, HintMoved
  <2>4. UNCHANGED <<position, committed, batch>>
    BY <1>6 DEF CreateHint
  <2> QED
    BY <1>f, <2>2, <2>3, <2>4 DEF StoredInv
<1>7. CASE LoadForCommit(w)
  BY <1>0, <1>7 DEF LoadForCommit, StorageTypes, StoredInv
<1>r. ASSUME Restart(w), UNCHANGED <<files, hint, committed>>,
             at[w] \notin {"create_hint", "write_hint"}
      PROVE  StoredInv'
  <2>1. position'[w] = committed[w] /\ batch'[w] = {} /\ at'[w] = "fetch"
    BY <1>r DEF Restart, StorageTypes
  <2>2. batch'[w] = (committed[w] + 1)..position'[w] /\ committed[w] <= position'[w]
    BY <1>b, <2>1
  <2> QED
    BY <1>0, <1>r, <2>1, <2>2
<1>8. CASE CommitRefused(w)
  BY <1>8, <1>r DEF CommitRefused
<1>9. CASE WriteMetadata(w)
  <2>1. PICK f \in NewFile(base[w].v + 1, Appended(w)) :
          files' = files \cup {f} /\ base' = [base EXCEPT ![w] = f]
    BY <1>9 DEF WriteMetadata
  <2>2. base[w].v + 1 \in Int
    BY DEF StorageTypes, File
  <2>3. f.rows = Appended(w)
    BY <2>2, NewFileTypes, AppendedTypes
  <2>4. /\ base[w] = Current /\ hint' = hint /\ at'[w] = "write_hint" /\ base'[w] = f
        /\ at[w] = "write" /\ UNCHANGED <<position, committed, batch>>
    BY <1>9, <2>1 DEF WriteMetadata, TableInv, StorageTypes
  <2>5. \A g \in files' : g.v = hint' + 1 => g = base'[w]
    BY <2>1, <2>4 DEF StoredInv
  <2>6. \A o \in batch'[w] : base'[w].rows[<<w, o>>] > 0
    <3> SUFFICES ASSUME NEW o \in batch[w] PROVE Appended(w)[<<w, o>>] > 0
      BY <2>3, <2>4
    <3>1. <<w, o>> \in Message /\ Current.rows[<<w, o>>] \in Nat
      BY <1>a, <1>b
    <3>2. Appended(w)[<<w, o>>] = Current.rows[<<w, o>>] + 1
      BY <2>4, <3>1 DEF Appended
    <3> QED
      BY <3>1, <3>2
  <2> QED
    BY <1>f, <2>4, <2>5, <2>6 DEF StoredInv
<1>10. CASE WriteHint(w)
  <2>1. base[w] \in files /\ base[w].v = hint + 1 /\ at[w] = "write_hint"
    BY <1>10 DEF WriteHint, TableInv, HintInv
  <2>2. /\ hint' = hint + 1 /\ files' = files /\ at'[w] = "commit_offsets"
        /\ UNCHANGED <<position, committed, batch>>
    BY <1>10, <2>1 DEF WriteHint, StorageTypes
  <2>3. /\ Current' \in files /\ Current'.v = hint + 1
        /\ \A g \in files' : g.v # hint' + 1
    BY <2>1, <2>2, HintMoved
  <2>4. Current' = base[w]
    BY <2>1, <2>3 DEF StoredInv
  <2>5. \A o \in batch'[w] : Current'.rows[<<w, o>>] > 0
    BY <2>1, <2>2, <2>4 DEF StoredInv
  <2> QED
    BY <1>f, <2>2, <2>3, <2>5 DEF StoredInv
<1>11. CASE Crash(w)
  BY <1>11, <1>r DEF Crash
<1>12. CASE UNCHANGED vars
  <2>1. UNCHANGED <<position, committed, batch, at, base, files, hint>>
    BY <1>12 DEF vars
  <2>2. Current' = Current
    BY <2>1 DEF Current
  <2> QED
    BY <2>1, <2>2 DEF StoredInv
<1> QED
  BY <1>1, <1>2, <1>3, <1>4, <1>5, <1>6, <1>7, <1>8, <1>9, <1>10, <1>11, <1>12
     DEF Next, Run

(* A message whose offset is committed is in the table: with one instance, *)
(* valid messages, and no crash between a metadata file and its hint, the  *)
(* offsets are committed behind the update that appended the batch.        *)
THEOREM StoredBeforeCommit ==
  ASSUME Constants, NEW w \in Writer, Writer = {w}, Valid = Message, ~TornCommits
  PROVE  Spec => []CommittedIsDone
<1> DEFINE Inv == StorageInv /\ TableInv /\ StoredInv
<1>1. Init => Inv
  <2> SUFFICES ASSUME Init PROVE StoredInv
    BY StorageInvInit DEF Init, TableInv
  <2>1. \A o \in Offset : ~(o <= 0)
    BY DEF Offset, Constants
  <2> QED
    BY <2>1 DEF StoredInv, Init
<1>2. Inv /\ [Next]_vars => Inv'
  BY StorageInvStep, TableStep, StoredStep DEF StorageInv
<1>3. Inv => CommittedIsDone
  BY DEF StoredInv, CommittedIsDone, InTable, Message
<1> QED
  BY <1>1, <1>2, <1>3, PTL DEF Spec
=============================================================================
