--------------------------- MODULE MCStorageManager ---------------------------
(* The storage manager with the values TLC needs. *)
EXTENDS StorageManager, TLC

==============================================================================
