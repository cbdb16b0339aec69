------------------------------ MODULE JobStates ------------------------------
(***************************************************************************)
(* The states of a federated job and the operations its clients may ask    *)
(* for: the classes State and Operation of job_scheduler/job.py and the    *)
(* table inside Job.assert_operation_valid.                                *)
(***************************************************************************)

\* Job states; "ABSENT" is not a state of the code, it stands for the missing
\* database record of a job that was never created or was deleted.
State == {"QUEUING", "STARTING", "RUNNING", "FINISHED", "FAILED",
          "DELETING", "STOPPING", "STOPPED", "PENDING"}

Recordable == State \cup {"ABSENT"}

\* The operations that change a job's state. UPDATE replaces the job's
\* configuration, which the models abstract from.
Operation == {"START", "STOP", "DELETE"}

\* assert_operation_valid: which operations a job accepts in which state.
Supported ==
  [RUNNING  |-> {"DELETE", "STOP"},
   STARTING |-> {"DELETE", "STOP"},
   PENDING  |-> {"DELETE", "STOP"},
   FAILED   |-> {"DELETE", "START", "STOP"},
   QUEUING  |-> {"DELETE", "STOP"},
   FINISHED |-> {"DELETE", "START"},
   DELETING |-> {},
   STOPPING |-> {"DELETE"},
   STOPPED  |-> {"DELETE", "START"}]

\* The states in which a start() is under way or was cut short by a restart.
Launching == {"STARTING", "PENDING"}

==============================================================================
