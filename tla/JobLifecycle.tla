---------------------------- MODULE JobLifecycle ----------------------------
(***************************************************************************)
(* What the job scheduler promises its clients: the life of a job as its   *)
(* record shows it (GET .../jobs/{job_id}), whatever happens inside the    *)
(* scheduler. A deletion is final, a stop ends in STOPPED or FAILED unless *)
(* a deletion overtakes it, and a job runs only after it was started.      *)
(* A restart of the scheduler queues the jobs it finds launching, whose    *)
(* coordinators may be there: it may launch again a job that runs, or that *)
(* has ended meanwhile, and it promises no end of what it resumes.         *)
(***************************************************************************)
EXTENDS JobStates

CONSTANT Key
VARIABLES record, restarted
vars == <<record, restarted>>

Becomes(k, from, to) ==
  /\ record[k] \in from
  /\ record' = [record EXCEPT ![k] = to] /\ UNCHANGED restarted

Accepting(op) == {s \in State : op \in Supported[s]}
\* What a coordinator may make of a job that a restart has queued.
Overtaken == IF restarted THEN {"RUNNING", "FAILED", "FINISHED"} ELSE {}

\* What clients ask for.
Create(k) == Becomes(k, {"ABSENT"}, "QUEUING")
Stop(k)   == Becomes(k, Accepting("STOP"), "STOPPING")
Delete(k) == Becomes(k, Accepting("DELETE"), "DELETING")

\* What the scheduler does about it. START takes effect when the queued job is
\* launched; a start that cannot be made fails the job.
Launch(k)  ==
  Becomes(k, {"QUEUING", "PENDING"} \cup Accepting("START") \cup Overtaken, "STARTING")
Wait(k)    == Becomes(k, {"STARTING"} \cup Overtaken, "PENDING")
RunJob(k)  == Becomes(k, {"STARTING"}, "RUNNING")
Finish(k)  == Becomes(k, Launching \cup {"RUNNING"}, "FINISHED")
Fail(k)    == Becomes(k, State \ {"DELETING"}, "FAILED")
Stopped(k) == Becomes(k, {"STOPPING"}, "STOPPED")
Deleted(k) == Becomes(k, {"DELETING"}, "ABSENT")

\* A stop that was accepted comes to its end, and a deletion.
Settles(k) ==
  /\ ~restarted
  /\ Deleted(k) \/ (record[k] = "STOPPING" /\ (Stopped(k) \/ Fail(k)))

Restart == restarted' = TRUE /\ UNCHANGED record

Init == record = [k \in Key |-> "ABSENT"] /\ restarted = FALSE

Next ==
  \/ Restart
  \/ \E k \in Key : \/ Create(k) \/ Stop(k) \/ Delete(k)
                    \/ Launch(k) \/ Wait(k) \/ RunJob(k) \/ Finish(k) \/ Fail(k)
                    \/ Stopped(k) \/ Deleted(k)

Spec == Init /\ [][Next]_vars
FairSpec == Spec /\ \A k \in Key : WF_vars(Settles(k))

==============================================================================
