-------------------------- MODULE MCStorageService --------------------------
(* Small instances of StorageService for TLC. *)
EXTENDS StorageService, TLC
AllValid == Message
SecondInvalid == {m \in Message : m[2] # 2}
=============================================================================
