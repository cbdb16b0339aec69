-------------------------- MODULE MCRoundController --------------------------
(* Model-checking instances of RoundController. *)
EXTENDS RoundController, TLC

\* The clients are interchangeable; not to be used with liveness.
ClientSymmetry == Permutations(Client)

==============================================================================
