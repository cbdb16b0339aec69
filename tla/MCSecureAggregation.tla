-------------------------- MODULE MCSecureAggregation --------------------------
(* Model-checking instances of SecureAggregation. *)
EXTENDS SecureAggregation

\* The ids are compared: the clients are numbers, and not interchangeable.
Ids == 1 .. 3

==============================================================================
