---------------------------- MODULE MCClientManager ----------------------------
(* Model-checking instances of ClientManager. *)
EXTENDS ClientManager, TLC

CONSTANTS c1, c2

\* One client of each type.
OneOfEach == c1 :> "single" @@ c2 :> "cluster"

Everybody == [j \in Job |-> Client]

==============================================================================
