--------------------------- MODULE MCJobScheduler ---------------------------
(* The job scheduler with the values TLC needs. *)
EXTENDS JobScheduler, TLC

\* Three disturbances in all: three requests of clients, or two and a failing call,
\* or a restart between them.
FewDisturbances == spent.requests + spent.restarts + spent.faults <= 3

==============================================================================
