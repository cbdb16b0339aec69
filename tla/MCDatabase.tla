------------------------------ MODULE MCDatabase ------------------------------
(* Model-checking instances of Database. *)
EXTENDS Database

==============================================================================
