------------------------------ MODULE ClientAgent ------------------------------
(***************************************************************************)
(* The agent of a client: TaskManager, Task, Worker and the executors, with*)
(* the resource manager they use. A task runs in a coroutine; its workers  *)
(* are pods of a cluster (watching) or processes of the host.              *)
(*                                                                         *)
(* Task ids carry the time and are new each time, so a worker never finds  *)
(* one of its name. A task may be asked for as long as ids are left.       *)
(***************************************************************************)
EXTENDS ResourceManager

CONSTANTS
  Workers,    \* worker_num of a task, each with one unit of the resource
  MaxTrouble  \* bound on failing calls, evicted pods, late processes and restarts

ASSUME CAAssumption == Workers \in Nat \ {0} /\ MaxTrouble \in Nat

VARIABLES
  table,   \* __tasks: the task of each type, for one job and round
  task,    \* the Task objects
  worker,  \* the pod or process of each worker
  late,    \* the processes whose __monitor_timer has expired
  spent    \* trouble so far

taskVars == <<table, task, worker, late, spent>>
caVars ==
  <<nodes, node, held, granted, recorded, asking, watching, events,
    table, task, worker, late, spent>>

TaskType == {"train", "evaluate"}
Index == 1 .. Workers

\* pc: where the coroutine is; at: the worker it is at; seen: those it has counted
\* in this pass; listed: how many are in _workers; status as it is recorded.
NewTask == [pc |-> "none", at |-> 1, seen |-> 0, listed |-> 0, status |-> "running"]

\* Where cancel() finds an _executing_task.
Executing == {"creating", "called", "starting", "waiting", "telling"}
Active == {"saving", "deleting"} \cup Executing

CATypeOK ==
  /\ RMTypeOK
  /\ table \in [TaskType -> TaskId \cup {NoTask}]
  /\ task \in [TaskId ->
       [pc : {"none", "stuck", "done", "lost", "dead"} \cup Active,
        at : 1 .. Workers + 1, seen : 0 .. Workers, listed : 0 .. Workers,
        status : {"running", "success", "failed"}]]
  /\ worker \in [TaskId -> [Index ->
       {"none", "pending", "running", "completed", "failed", "leaving", "gone"}]]
  /\ late \subseteq TaskId \X Index
  /\ spent \in 0 .. MaxTrouble

CAInit ==
  /\ RMInit
  /\ table = [k \in TaskType |-> NoTask]
  /\ task = [i \in TaskId |-> NewTask]
  /\ worker = [i \in TaskId |-> [j \in Index |-> "none"]]
  /\ late = {} /\ spent = 0

\* While a request waits for the database, the event loop does.
Looping == asking = NoRequest

Trouble == spent < MaxTrouble /\ spent' = spent + 1
Goes(i, pc) == [task[i] EXCEPT !.pc = pc, !.at = 1, !.seen = 0]
Becomes(i, t) ==
  task' = [task EXCEPT ![i] = t] /\ UNCHANGED <<table, nodes, node, held, granted,
             recorded, asking, watching, events>>
Works(i, j, w) == worker' = [worker EXCEPT ![i][j] = w]

-----------------------------------------------------------------------------
(* The task manager.                                                       *)

\* Train and Evaluate: create, up to the database call of the request.
Create(k, i) ==
  /\ Looping /\ table[k] = NoTask /\ task[i].pc = "none"
  /\ Request(i, Workers, 1)
  /\ UNCHANGED taskVars

\* The rest of create. When the task cannot be saved, its resource stays.
Created(k) ==
  /\ ~Looping /\ table[k] = NoTask /\ Grant
  /\ LET i == asking.task
     IN \/ /\ table' = [table EXCEPT ![k] = i]
           /\ task' = [task EXCEPT ![i] = Goes(i, "saving")] /\ UNCHANGED spent
        \/ Trouble /\ task' = [task EXCEPT ![i] = Goes(i, "lost")] /\ UNCHANGED table
  /\ UNCHANGED <<worker, late>>

\* Stop, of either service: both stop the train task (client.py:111). A task that
\* does not execute yet, or not any more, is left alone. A pod whose creation was
\* called for is created all the same; a process is killed.
Stop ==
  LET i == table["train"]
  IN /\ Looping /\ i # NoTask /\ task[i].pc \in Executing
     /\ Becomes(i, Goes(i, "deleting"))
     /\ worker' = [worker EXCEPT ![i] = [j \in Index |->
          IF ~watching /\ task[i].pc = "called" /\ j = task[i].at THEN "gone" ELSE @[j]]]
     /\ UNCHANGED <<late, spent>>

-----------------------------------------------------------------------------
(* The coroutine of a task.                                                *)

\* _save_files_to_workspace: the early return of execute() leaves the task
\* where it is.
SaveFiles(i) ==
  /\ Looping /\ task[i].pc = "saving"
  /\ \/ Becomes(i, Goes(i, "creating")) /\ UNCHANGED spent
     \/ Trouble /\ Becomes(i, [Goes(i, "stuck") EXCEPT !.status = "failed"])
  /\ UNCHANGED <<worker, late>>

\* An FLError in _do_execute is recorded, then the coordinator is told.
Fails(i) == Becomes(i, [Goes(i, "telling") EXCEPT !.status = "failed"])

\* A pod is scheduled, a process runs.
WorkerStarts(i) == Works(i, task[i].at, IF watching THEN "pending" ELSE "running")

\* __create_workers calls for the next worker, which may be refused. For a
\* process that is an error of another class: nobody is told of it.
CallWorker(i) ==
  /\ Looping /\ task[i].pc = "creating"
  /\ \/ /\ Becomes(i, [task[i] EXCEPT !.pc = "called"]) /\ UNCHANGED spent
        /\ WorkerStarts(i)
     \/ /\ Trouble /\ UNCHANGED worker
        /\ IF watching THEN Fails(i) ELSE Becomes(i, Goes(i, "deleting"))
  /\ UNCHANGED late

\* The call has returned: the worker is put into _workers.
WorkerCalled(i) ==
  /\ Looping /\ task[i].pc = "called"
  /\ Becomes(i, IF task[i].at < Workers
                THEN [task[i] EXCEPT !.pc = "creating", !.listed = @ + 1, !.at = @ + 1]
                ELSE [Goes(i, "starting") EXCEPT !.listed = @ + 1])
  /\ UNCHANGED <<worker, late, spent>>

\* Faulty variant: a running worker counts in both.
CountsEither(i) == IF worker[i][task[i].at] \in {"running", "completed"} THEN 1 ELSE 0
\* What the passes of __wait_workers_running and __wait_workers_finished count.
Counts(i) ==
  IF worker[i][task[i].at] = (IF task[i].pc = "starting" THEN "running" ELSE "completed")
  THEN 1 ELSE 0

\* A pass reads the status of one worker after the other. A status that cannot be
\* read counts for nothing.
ReadStatus(i) ==
  /\ Looping /\ task[i].pc \in {"starting", "waiting"}
  /\ \E n \in {0, Counts(i)} :
       /\ IF n = Counts(i) THEN UNCHANGED spent ELSE Trouble
       /\ LET seen == task[i].seen + n
          IN IF worker[i][task[i].at] = "failed" THEN Fails(i)
             ELSE IF task[i].at < Workers
             THEN Becomes(i, [task[i] EXCEPT !.at = @ + 1, !.seen = seen])
             ELSE IF seen < Workers THEN Becomes(i, Goes(i, task[i].pc))
             ELSE IF task[i].pc = "starting" THEN Becomes(i, Goes(i, "waiting"))
             ELSE Becomes(i, [Goes(i, "deleting") EXCEPT !.status = "success"])
  /\ UNCHANGED <<worker, late>>

\* _report_failed_to_server has returned or failed.
Told(i) ==
  /\ Looping /\ task[i].pc = "telling"
  /\ Becomes(i, Goes(i, "deleting"))
  /\ UNCHANGED <<worker, late, spent>>

\* Faulty variant: it never gives up.
PassForever(i) == FALSE /\ Told(i)
\* __wait_workers_running gives up after so many passes. A worker that has
\* completed by then was never seen running.
GiveUp(i) ==
  /\ Looping /\ task[i].pc = "starting" /\ task[i].at = Workers
  /\ task[i].seen + Counts(i) < Workers
  /\ Fails(i)
  /\ UNCHANGED <<worker, late, spent>>

\* A pod is asked to go, a process is killed.
WorkerGoes(i, j) ==
  Works(i, j, IF watching /\ worker[i][j] # "gone" THEN "leaving" ELSE "gone")

\* delete() of a process raises when it had failed or was late.
DeleteRaises(i, j) == ~watching /\ (worker[i][j] = "failed" \/ <<i, j>> \in late)

\* _delete_workers. When the deletion of one fails the done callback is never called.
DeleteWorker(i) ==
  LET j == task[i].at
  IN /\ Looping /\ task[i].pc = "deleting" /\ j <= task[i].listed
     /\ \/ /\ Becomes(i, IF DeleteRaises(i, j) THEN Goes(i, "stuck") ELSE [task[i] EXCEPT !.at = @ + 1])
           /\ WorkerGoes(i, j)
           /\ UNCHANGED spent
        \/ /\ watching /\ Trouble /\ Becomes(i, Goes(i, "stuck")) /\ UNCHANGED worker
     /\ UNCHANGED late

\* Faulty variant: the task does not wait for its workers to be gone.
FinishAtOnce(i) ==
  /\ Looping /\ task[i].pc = "deleting" /\ task[i].at > task[i].listed
  /\ Release(i)
  /\ table' = [k \in TaskType |-> IF table[k] = i THEN NoTask ELSE table[k]]
  /\ task' = [task EXCEPT ![i] = Goes(i, "done")]
  /\ UNCHANGED <<worker, late, spent>>
\* Faulty variant: the resource is not released.
FinishHolding(i) ==
  /\ Looping /\ task[i].pc = "deleting" /\ task[i].at > task[i].listed
  /\ \A j \in 1 .. task[i].listed : worker[i][j] = "gone"
  /\ table' = [k \in TaskType |-> IF table[k] = i THEN NoTask ELSE table[k]]
  /\ task' = [task EXCEPT ![i] = Goes(i, "done")]
  /\ UNCHANGED <<nodes, node, held, granted, recorded, asking, watching, events>>
  /\ UNCHANGED <<worker, late, spent>>
\* __wait_workers_deleted, and __do_finish.
Finish(i) ==
  /\ Looping /\ task[i].pc = "deleting" /\ task[i].at > task[i].listed
  /\ \A j \in 1 .. task[i].listed : worker[i][j] = "gone"
  /\ Release(i)
  /\ table' = [k \in TaskType |-> IF table[k] = i THEN NoTask ELSE table[k]]
  /\ task' = [task EXCEPT ![i] = Goes(i, "done")]
  /\ UNCHANGED <<worker, late, spent>>

-----------------------------------------------------------------------------
(* Pods, processes, the cluster, and the agent itself.                     *)

Progress ==
  [w \in {"pending", "running", "leaving"} |->
     CASE w = "pending" -> {"running", "failed"}
       [] w = "running" -> {"completed", "failed"}
       [] w = "leaving" -> {"gone"}]

\* A pod or process comes, runs, ends or goes.
WorkerMoves(i, j) ==
  /\ worker[i][j] \in DOMAIN Progress
  /\ \E w \in Progress[worker[i][j]] : Works(i, j, w)
  /\ UNCHANGED rmVars /\ UNCHANGED <<table, task, late, spent>>

\* A pod is removed by somebody else.
Evict(i, j) ==
  /\ watching /\ worker[i][j] \in {"pending", "running", "completed", "failed"}
  /\ Trouble /\ Works(i, j, "gone")
  /\ UNCHANGED rmVars /\ UNCHANGED <<table, task, late>>

\* __monitor_timeout: its delete() is never awaited, so all it does is to clear
\* the timer.
TimeUp(i, j) ==
  /\ Looping /\ ~watching /\ worker[i][j] \in {"running", "completed", "failed"}
  /\ j <= task[i].listed /\ task[i].pc \in Active
  /\ Trouble /\ late' = late \cup {<<i, j>>}
  /\ UNCHANGED rmVars /\ UNCHANGED <<table, task, worker>>

\* The agent is started again: the tasks are forgotten, the workers go on.
Restart ==
  /\ Trouble /\ Restore
  /\ table' = [k \in TaskType |-> NoTask]
  /\ task' = [i \in TaskId |->
       IF task[i].pc \in {"none", "done", "lost"} /\ asking.task # i THEN task[i]
       ELSE Goes(i, "dead")]
  /\ UNCHANGED <<worker, late>>

WatchNodes == Watch /\ UNCHANGED taskVars

\* What the coroutine of task i does next.
TaskStep(i) ==
  \/ SaveFiles(i) \/ CallWorker(i) \/ WorkerCalled(i) \/ ReadStatus(i)
  \/ Told(i) \/ DeleteWorker(i) \/ Finish(i)

CANext ==
  \/ \E k \in TaskType, i \in TaskId : Create(k, i)
  \/ \E k \in TaskType : Created(k)
  \/ Stop
  \/ \E i \in TaskId : TaskStep(i) \/ GiveUp(i)
  \/ \E i \in TaskId, j \in Index : WorkerMoves(i, j) \/ Evict(i, j) \/ TimeUp(i, j)
  \/ Restart
  \/ WatchNodes

CASafety == CAInit /\ [][CANext]_caVars

\* The event loop runs what is ready, a pass is not repeated for ever, and pods
\* and processes come to an end.
CASpec ==
  /\ CASafety
  /\ \A k \in TaskType : WF_caVars(Created(k))
  /\ \A i \in TaskId : WF_caVars(TaskStep(i)) /\ SF_caVars(GiveUp(i))
  /\ \A i \in TaskId, j \in Index : WF_caVars(WorkerMoves(i, j))

-----------------------------------------------------------------------------
(* Properties.                                                             *)

\* A task holds its resource as long as it is in the table and no longer, but
\* for those that could not be saved and those of an earlier life of the agent
\* (task_manager.py:115, 153).
HeldByTasks ==
  /\ \A k \in TaskType : table[k] # NoTask => table[k] \in held
  /\ \A i \in held : task[i].pc \in {"lost", "dead"} \/ \E k \in TaskType : table[k] = i

\* A task that is done leaves no worker, however it ended, but for the one whose
\* creation was cancelled: that was not yet in _workers (task.py:189, 306).
WorkersGoFirst ==
  \A i \in TaskId, j \in Index :
    task[i].pc = "done" /\ worker[i][j] \notin {"none", "gone"}
      => j = task[i].listed + 1 /\ task[i].status = "running"

\* A success is recorded only when every worker has completed, although a pass
\* reads them one after the other while they go on (task.py:224).
SuccessIsComplete ==
  \A i \in TaskId : task[i].status = "success" =>
    \A j \in Index : worker[i][j] \in {"completed", "leaving", "gone"}

\* Every task ends, unless it got stuck or waits for a pod that was evicted
\* (task.py:282).
TasksEnd ==
  \A i \in TaskId :
    task[i].pc \in Active ~>
      \/ task[i].pc \in {"done", "stuck", "dead"}
      \/ task[i].pc = "waiting" /\ \E j \in Index : worker[i][j] = "gone"

==============================================================================
